----------------------------- MODULE LinuxProofs -----------------------------
(***************************************************************************)
(* Theorems about the Linux driver, for every set of hosts, every number   *)
(* of PCRs, with and without a resource manager.                           *)
(***************************************************************************)
EXTENDS LinuxProperties, FiniteSetTheorems, TLAPS

\* A call at work has a number, by which the AK and the requests are named.
ActiveIds == \A h \in Hosts : pc[h] # "idle" => id[h] \in Keys

\* A host inside the loop over the PCRs has one left to read.
Reading == \A h \in Hosts : pc[h] = "pcr" => next[h] \in Pcrs

TypeInv == DriverTypeOK /\ ActiveIds /\ Reading /\ ObjectsScoped

\* The parts of TypeInv that steps touch together.
CallOK ==
  /\ pc \in [Hosts -> {"idle"} \cup Steps]
  /\ op \in [Hosts -> {"none", "enroll", "attest"}]
  /\ id \in [Hosts -> Keys \cup {NoKey}]
  /\ ret \in [Hosts -> Results] /\ partial \in SUBSET Hosts
  /\ ActiveIds /\ Reading

TpmOK == /\ loaded \in SUBSET (Hosts \X Objects)
         /\ leaked \in [Kinds -> Nat]

EvOK ==
  /\ pcr \in [Pcrs -> Values]
  /\ quoted \in [Hosts -> Vectors] /\ reported \in [Hosts -> Vectors]
  /\ next \in [Hosts -> 1..(NumPcrs + 1)]

NetOK == /\ posted \in SUBSET Requests
         /\ replies \in SUBSET Answers
         /\ serverAk \in Keys \cup {NoKey}

RestOK ==
  /\ calls \in 0..MaxCalls
  /\ faults \in 0..MaxFaults

\* The parts make up the whole.
LEMMA Parts == TypeInv => /\ CallOK /\ TpmOK /\ EvOK /\ NetOK /\ RestOK
                          /\ ObjectsScoped
BY DEF TypeInv, DriverTypeOK, CallOK, TpmOK, EvOK, NetOK, RestOK

\* ...and the whole is restored from the parts, one step later.
LEMMA Whole ==
  ASSUME CallOK', TpmOK', EvOK', NetOK', RestOK', ObjectsScoped' PROVE TypeInv'
BY DEF TypeInv, DriverTypeOK, CallOK, TpmOK, EvOK, NetOK, RestOK

-----------------------------------------------------------------------------
(* Lemmas on the operators the actions are built from. *)

\* The fault counter stays within its bound.
LEMMA FaultType ==
  ASSUME TypeInv, Fault \/ NoFault PROVE faults' \in 0..MaxFaults
BY DriverConstants DEF Fault, NoFault, TypeInv, DriverTypeOK

\* The objects of one host are finitely many.
LEMMA KeptFinite ==
  ASSUME TypeInv, NEW h \in Hosts, NEW k \in Kinds
  PROVE  IsFiniteSet(Kept(h, k))
<1> DEFINE own == {<<h, "ek">>, <<h, "srk">>, <<h, "ak">>, <<h, "session">>}
<1>1. IsFiniteSet(own)
  <2>1. IsFiniteSet({} \cup {<<h, "ek">>})  BY FS_EmptySet, FS_AddElement
  <2>2. IsFiniteSet(({} \cup {<<h, "ek">>}) \cup {<<h, "srk">>})
    BY <2>1, FS_AddElement
  <2>3. IsFiniteSet((({} \cup {<<h, "ek">>}) \cup {<<h, "srk">>}) \cup {<<h, "ak">>})
    BY <2>2, FS_AddElement
  <2>4. own = ((({} \cup {<<h, "ek">>}) \cup {<<h, "srk">>})
                    \cup {<<h, "ak">>}) \cup {<<h, "session">>}
    OBVIOUS
  <2>5. QED BY <2>3, <2>4, FS_AddElement
<1>2. Kept(h, k) \subseteq own
  BY DEF Kept, TypeInv, DriverTypeOK, Objects
<1>3. QED BY <1>1, <1>2, FS_Subset

\* A context that goes takes its objects along, or adds them to the leaked ones.
LEMMA GoneType ==
  ASSUME TypeInv, NEW h \in Hosts, NEW K, Gone(h, K)
  PROVE  /\ TpmOK'
         /\ \A o \in loaded' : o \in loaded /\ o[1] # h
<1>1. \A k \in Kinds : Cardinality(Kept(h, k)) \in Nat
  BY KeptFinite, FS_CardinalityType
<1>2. leaked' \in [Kinds -> Nat]
  BY <1>1 DEF Gone, TypeInv, DriverTypeOK
<1>3. QED BY <1>2 DEF Gone, Of, TpmOK, TypeInv, DriverTypeOK

\* A step inside a call.
LEMMA GotoType ==
  ASSUME TypeInv, NEW h \in Hosts, NEW s \in Steps, Goto(h, s), pc[h] # "idle",
         \A o \in loaded' : o \in loaded \/ o[1] = h,
         \A g \in Hosts : g # h => next'[g] = next[g],
         s = "pcr" => next'[h] \in Pcrs
  PROVE  CallOK' /\ ObjectsScoped'
<1>1. s # "idle" BY DEF Steps
<1>2. QED BY <1>1 DEF Goto, CallOK, ActiveIds, Reading, ObjectsScoped, TypeInv, DriverTypeOK

\* An answer of a host that owns nothing in the TPM.
LEMMA FinishType ==
  ASSUME TypeInv, NEW h \in Hosts, NEW r \in Results, Finish(h, r), UNCHANGED next,
         partial' \in SUBSET Hosts, \A o \in loaded' : o \in loaded /\ o[1] # h
  PROVE  CallOK' /\ ObjectsScoped'
BY DEF Finish, CallOK, ActiveIds, Reading, ObjectsScoped, TypeInv, DriverTypeOK

\* ...that leaves no challenge with the caller.
LEMMA AnswerType ==
  ASSUME TypeInv, NEW h \in Hosts, NEW r \in Results, Answer(h, r), UNCHANGED next,
         \A o \in loaded' : o \in loaded /\ o[1] # h
  PROVE  CallOK' /\ ObjectsScoped'
BY FinishType DEF Answer, TypeInv, DriverTypeOK

\* The end of a call.
LEMMA ReturnType ==
  ASSUME TypeInv, NEW h \in Hosts, NEW r \in Results, Return(h, r), UNCHANGED next
  PROVE  CallOK' /\ TpmOK' /\ ObjectsScoped'
<1>1. Gone(h, {"session"}) /\ Answer(h, r) BY DEF Return, TpmClose
<1>2. TpmOK' /\ \A o \in loaded' : o \in loaded /\ o[1] # h  BY <1>1, GoneType
<1>3. QED BY <1>1, <1>2, AnswerType

\* What a failed call returns is a result.
LEMMA FailureType == ASSUME NEW h PROVE FailureOf(h) \in Results
BY DEF FailureOf, Results

\* The results of the calls.
LEMMA ResultTypes ==
  /\ "none" \in Results /\ "OK" \in Results
  /\ "NO_TPM" \in Results /\ "ENROLLMENT_FAILED" \in Results
  /\ "ATTESTATION_FAILED" \in Results /\ "INVALID_PARAM" \in Results
  /\ "HAS_TPM" \in Results /\ "HAS_NO_TPM" \in Results
BY DEF Results

\* Loading an object.
LEMMA LoadType ==
  ASSUME TypeInv, NEW h \in Hosts, NEW o \in Objects, NEW s \in Steps \ {"pcr"},
         NEW f \in Results, Load(h, o, s, f), pc[h] # "idle"
  PROVE  TypeInv'
<1>1. faults' \in 0..MaxFaults /\ UNCHANGED next BY FaultType DEF Load, evVars
<1>2. EvOK' /\ NetOK' /\ RestOK'
  BY <1>1, Parts DEF Load, evVars, netVars, EvOK, NetOK, RestOK
<1>3. CASE loaded' = loaded \cup {<<h, o>>} /\ UNCHANGED leaked /\ Goto(h, s)
  <2>1. TpmOK' BY <1>3, Parts DEF TpmOK
  <2>2. CallOK' /\ ObjectsScoped' BY <1>1, <1>3, GotoType
  <2>3. QED BY <1>2, <2>1, <2>2, Whole
<1>4. CASE Return(h, f) BY <1>1, <1>2, <1>4, ReturnType, Whole
<1>5. QED BY <1>3, <1>4 DEF Load

\* Opening a context for a new call.
LEMMA OpenType ==
  ASSUME TypeInv, NEW h \in Hosts, pc[h] = "idle",
         NEW c \in {"enroll", "attest"}, NEW s \in Steps \ {"pcr"},
         Open(h, c, s)
  PROVE  TypeInv'
<1>1. calls' \in 0..MaxCalls /\ calls + 1 \in Keys
  BY DriverConstants DEF Open, Keys, TypeInv, DriverTypeOK
<1>2. faults' \in 0..MaxFaults BY FaultType DEF Open
<1>3. TpmOK' /\ EvOK' /\ NetOK' /\ RestOK'
  BY <1>1, <1>2, Parts DEF Open, tpmVars, evVars, netVars, TpmOK, EvOK, NetOK, RestOK
<1>4. UNCHANGED <<loaded, next>> BY DEF Open, tpmVars, evVars
<1>5. CASE /\ pc' = [pc EXCEPT ![h] = s] /\ op' = [op EXCEPT ![h] = c]
           /\ id' = [id EXCEPT ![h] = calls + 1] /\ UNCHANGED <<ret, partial>>
  <2>1. CallOK' BY <1>1, <1>4, <1>5 DEF CallOK, ActiveIds, Reading, TypeInv, DriverTypeOK
  <2>2. s # "idle" BY DEF Steps
  <2>3. ObjectsScoped' BY <1>4, <1>5, <2>2 DEF ObjectsScoped, TypeInv, DriverTypeOK
  <2>4. QED BY <1>3, <2>1, <2>3, Whole
<1>6. CASE Answer(h, "NO_TPM")
  <2>1. \A o \in loaded' : o[1] # h BY <1>4 DEF TypeInv, ObjectsScoped
  <2>2. CallOK' /\ ObjectsScoped' BY <1>4, <1>6, <2>1, AnswerType, ResultTypes
  <2>3. QED BY <1>3, <2>2, Whole
<1>7. QED BY <1>5, <1>6 DEF Open

-----------------------------------------------------------------------------
(* Type correctness. *)

\* A request on the wire, and the answer to one, are of their types.
LEMMA PostType ==
  ASSUME TypeInv, NEW m \in Requests, Post(m) PROVE NetOK'
BY DEF Post, NetOK, TypeInv, DriverTypeOK

\* The enrollment steps keep the types.
LEMMA EnrollingType ==
  ASSUME TypeInv, NEW h \in Hosts, Enrolling(h) PROVE TypeInv'
<1> USE Parts, ResultTypes, FailureType
<1>a. pc[h] # "idle"
  BY DEF Enrolling, TpmReadEkCert, TpmReadEkPub, TpmCreateSrk, TpmCreateAk, TpmReadPublic,
         PostEnroll, EnrollChallenged, EnrollAccepted, EnrollRefused,
         TpmStartPolicySession, TpmPolicySecret, TpmActivateCredential,
         EnrollPartial, PostActivate, ActivateReplied
<1>b. id[h] \in Keys BY <1>a DEF TypeInv, ActiveIds
<1>c. ASSUME UNCHANGED calls, UNCHANGED evVars, faults' \in 0..MaxFaults
      PROVE  EvOK' /\ RestOK' /\ UNCHANGED next
  BY <1>c DEF evVars, EvOK, RestOK
<1>d. ASSUME UNCHANGED netVars PROVE NetOK'
  BY <1>d DEF netVars, NetOK
<1>e. ASSUME UNCHANGED tpmVars PROVE TpmOK' /\ UNCHANGED loaded
  BY <1>e DEF tpmVars, TpmOK
<1>f. faults \in 0..MaxFaults BY DEF RestOK
<1>0. CASE TpmReadEkCert(h)
  BY <1>0, <1>a, <1>c, <1>d, <1>e, FaultType, GotoType, Whole DEF TpmReadEkCert, Steps
<1>1. CASE TpmReadEkPub(h)
  BY <1>1, <1>a, LoadType DEF TpmReadEkPub, Objects, Steps
<1>2. CASE TpmCreateSrk(h)
  BY <1>2, <1>a, LoadType DEF TpmCreateSrk, Objects, Steps
<1>3. CASE TpmCreateAk(h)
  BY <1>3, <1>a, LoadType DEF TpmCreateAk, Objects, Steps
<1>4. CASE TpmReadPublic(h)
  <2>1. UNCHANGED next /\ EvOK' /\ RestOK' /\ NetOK'
    BY <1>4, <1>c, <1>d, FaultType DEF TpmReadPublic
  <2>2. CASE Goto(h, "publish") /\ UNCHANGED tpmVars
    BY <1>a, <1>e, <2>1, <2>2, GotoType, Whole DEF Steps
  <2>3. CASE Return(h, "ENROLLMENT_FAILED")
    BY <2>1, <2>3, ReturnType, Whole
  <2>4. QED BY <1>4, <2>2, <2>3 DEF TpmReadPublic
<1>5. CASE PostEnroll(h)
  <2>1. UNCHANGED next /\ EvOK' /\ RestOK' /\ TpmOK' /\ UNCHANGED loaded
    BY <1>5, <1>c, <1>e, <1>f DEF PostEnroll
  <2>2. NetOK' BY <1>5, <1>b, PostType DEF PostEnroll, Requests
  <2>3. QED BY <1>5, <1>a, <2>1, <2>2, GotoType, Whole DEF PostEnroll, Steps
<1>6. CASE EnrollChallenged(h)
  BY <1>6, <1>a, <1>c, <1>d, <1>e, <1>f, GotoType, Whole DEF EnrollChallenged, Steps
<1>7. CASE EnrollAccepted(h)
  BY <1>7, <1>c, <1>d, <1>f, ReturnType, Whole DEF EnrollAccepted
<1>8. CASE EnrollRefused(h)
  BY <1>8, <1>c, <1>d, <1>f, ReturnType, Whole DEF EnrollRefused
<1>9. ASSUME NEW s \in Steps \ {"pcr"}, Goto(h, s), faults' \in 0..MaxFaults,
             UNCHANGED <<calls, leaked, evVars, netVars>>,
             loaded' \in {loaded, loaded \cup {<<h, "session">>},
                          loaded \ {<<h, "session">>}}
      PROVE  TypeInv'
  <2>1. UNCHANGED next /\ EvOK' /\ RestOK' /\ NetOK' BY <1>9, <1>c, <1>d
  <2>2. TpmOK' BY <1>9 DEF TpmOK, Objects
  <2>3. QED BY <1>9, <1>a, <2>1, <2>2, GotoType, Whole
<1>10. CASE TpmStartPolicySession(h)
  BY <1>10, <1>9, FaultType DEF TpmStartPolicySession, Steps
<1>11. CASE TpmPolicySecret(h)
  BY <1>11, <1>9, FaultType DEF TpmPolicySecret, Steps
<1>12. CASE TpmActivateCredential(h)
  BY <1>12, <1>9, FaultType DEF TpmActivateCredential, tpmVars, Steps
<1>13. CASE EnrollPartial(h)
  <2>1. UNCHANGED next /\ EvOK' /\ RestOK' /\ NetOK'
    BY <1>13, <1>c, <1>d, <1>f DEF EnrollPartial
  <2>2. TpmOK' /\ \A o \in loaded' : o \in loaded /\ o[1] # h
    BY <1>13, GoneType DEF EnrollPartial, TpmClose
  <2>3. partial' \in SUBSET Hosts BY <1>13 DEF EnrollPartial, CallOK
  <2>4. QED BY <1>13, <2>1, <2>2, <2>3, FinishType, Whole DEF EnrollPartial
<1>14. CASE PostActivate(h)
  <2>1. UNCHANGED next /\ EvOK' /\ RestOK' /\ TpmOK' /\ UNCHANGED loaded
    BY <1>14, <1>c, <1>e, <1>f DEF PostActivate
  <2>2. NetOK' BY <1>14, <1>b, PostType DEF PostActivate, Requests
  <2>3. QED BY <1>14, <1>a, <2>1, <2>2, GotoType, Whole DEF PostActivate, Steps
<1>15. CASE ActivateReplied(h)
  <2>1. UNCHANGED next /\ EvOK' /\ RestOK' /\ NetOK' BY <1>15, <1>c, <1>d, <1>f DEF ActivateReplied
  <2>2. Return(h, "OK") \/ Return(h, "ENROLLMENT_FAILED")
    BY <1>15 DEF ActivateReplied
  <2>3. QED BY <2>1, <2>2, ReturnType, Whole
<1>16. QED
  BY <1>0, <1>1, <1>2, <1>3, <1>4, <1>5, <1>6, <1>7, <1>8, <1>10, <1>11, <1>12, <1>13,
     <1>14, <1>15 DEF Enrolling

\* The attestation steps keep the types.
LEMMA AttestingType ==
  ASSUME TypeInv, NEW h \in Hosts, Attesting(h) PROVE TypeInv'
<1> USE Parts, ResultTypes, FailureType
<1>a. pc[h] # "idle"
  BY DEF Attesting, TpmQuote, TpmPcrRead, PostAttest, AttestReplied
<1>b. id[h] \in Keys BY <1>a DEF TypeInv, ActiveIds
<1>c. ASSUME UNCHANGED calls, faults' \in 0..MaxFaults PROVE RestOK'
  BY <1>c DEF RestOK
<1>d. ASSUME UNCHANGED netVars PROVE NetOK'
  BY <1>d DEF netVars, NetOK
<1>e. ASSUME UNCHANGED tpmVars PROVE TpmOK' /\ UNCHANGED loaded
  BY <1>e DEF tpmVars, TpmOK
<1>f. faults \in 0..MaxFaults BY DEF RestOK
<1>g. ASSUME UNCHANGED evVars PROVE EvOK' /\ UNCHANGED next
  BY <1>g DEF evVars, EvOK
<1>1. CASE TpmQuote(h)
  <2>1. RestOK' /\ NetOK' BY <1>1, <1>c, <1>d, FaultType DEF TpmQuote
  <2>2. CASE /\ Goto(h, "pcr") /\ UNCHANGED <<pcr, tpmVars>>
             /\ quoted' = [quoted EXCEPT ![h] = pcr]
             /\ reported' = [reported EXCEPT ![h] = Unread]
             /\ next' = [next EXCEPT ![h] = 1]
    <3>1. pcr \in Vectors /\ Unread \in Vectors
      BY DEF EvOK, Vectors, Unread
    <3>2. 1 \in 1..(NumPcrs + 1) BY DriverConstants
    <3>3. EvOK' BY <2>2, <3>1, <3>2 DEF EvOK
    <3>4. \A g \in Hosts : g # h => next'[g] = next[g]
      BY <2>2 DEF EvOK
    <3>5. next'[h] \in Pcrs
      BY <2>2, DriverConstants DEF EvOK, Pcrs
    <3>6. CallOK' /\ ObjectsScoped'
      BY <1>a, <1>e, <2>2, <3>4, <3>5, GotoType DEF Steps
    <3>7. QED BY <1>e, <2>1, <2>2, <3>3, <3>6, Whole
  <2>3. CASE Return(h, "ATTESTATION_FAILED") /\ UNCHANGED evVars
    BY <1>g, <2>1, <2>3, ReturnType, Whole
  <2>4. QED BY <1>1, <2>2, <2>3 DEF TpmQuote
<1>2. CASE TpmPcrRead(h)
  <2>1. RestOK' /\ NetOK' /\ TpmOK' /\ UNCHANGED loaded
    BY <1>2, <1>c, <1>d, <1>e, FaultType DEF TpmPcrRead
  <2>2. next[h] \in Pcrs
    BY <1>2 DEF TpmPcrRead, Reading, TypeInv
  <2>3. next[h] + 1 \in 1..(NumPcrs + 1) /\ (next[h] # NumPcrs => next[h] + 1 \in Pcrs)
    BY <2>2, DriverConstants DEF Pcrs
  <2>4. next' = [next EXCEPT ![h] = next[h] + 1] /\ UNCHANGED <<pcr, quoted>>
    BY <1>2 DEF TpmPcrRead
  <2>5. reported' \in [Hosts -> Vectors]
    <3>1. pcr[next[h]] \in Values BY <2>2 DEF EvOK
    <3>2. CASE UNCHANGED reported BY <3>2 DEF EvOK
    <3>3. CASE reported' = [reported EXCEPT ![h][next[h]] = pcr[next[h]]]
      BY <2>2, <3>1, <3>3 DEF EvOK, Vectors
    <3>4. QED BY <1>2, <3>2, <3>3 DEF TpmPcrRead
  <2>6. EvOK' BY <2>3, <2>4, <2>5 DEF EvOK
  <2>7. PICK st \in {"report", "pcr"} :
          Goto(h, st) /\ (st = "pcr" => next[h] # NumPcrs)
    BY <1>2 DEF TpmPcrRead, AfterPcr
  <2>8. /\ \A g \in Hosts : g # h => next'[g] = next[g]
        /\ next'[h] = next[h] + 1
    BY <2>4 DEF EvOK
  <2>9. CallOK' /\ ObjectsScoped'
    BY <1>a, <2>1, <2>3, <2>7, <2>8, GotoType DEF Steps
  <2>10. QED BY <2>1, <2>6, <2>9, Whole
<1>3. CASE PostAttest(h)
  <2>1. UNCHANGED next /\ EvOK' /\ RestOK' /\ TpmOK' /\ UNCHANGED loaded
    BY <1>3, <1>c, <1>e, <1>f, <1>g DEF PostAttest
  <2>2. quoted[h] \in Vectors /\ reported[h] \in Vectors /\ serverAk \in Keys \cup {NoKey}
    BY DEF EvOK, NetOK
  <2>3. NetOK' BY <1>3, <1>b, <2>2, PostType DEF PostAttest, Requests
  <2>4. QED BY <1>3, <1>a, <2>1, <2>3, GotoType, Whole DEF PostAttest, Steps
<1>4. CASE AttestReplied(h)
  <2>1. UNCHANGED next /\ EvOK' /\ RestOK' /\ NetOK' BY <1>4, <1>c, <1>d, <1>f, <1>g DEF AttestReplied
  <2>2. Return(h, "OK") \/ Return(h, "ATTESTATION_FAILED")
    BY <1>4 DEF AttestReplied
  <2>3. QED BY <2>1, <2>2, ReturnType, Whole
<1>5. QED BY <1>1, <1>2, <1>3, <1>4 DEF Attesting

\* The server's answers keep the types.
LEMMA ServeType ==
  ASSUME TypeInv, NEW m \in posted, Serve(m) PROVE TypeInv'
<1> USE Parts
<1>1. PICK a \in {"challenge", "accepted", "conflict", "refused", "ok", "verified"} :
        Respond(m, a)
  BY DEF Serve, ServerEnroll, ServerActivate, ServerAttest
<1>2. m.ak \in Keys /\ m.kind \in {"enroll", "activate", "attest"}
  BY DEF NetOK, Requests
<1>3. serverAk' \in {serverAk, m.ak} /\ faults' \in 0..MaxFaults
  BY FaultType DEF Serve, ServerEnroll, ServerActivate, ServerAttest
<1>4. NetOK' BY <1>1, <1>2, <1>3 DEF Respond, NetOK, Answers
<1>5. CallOK' /\ TpmOK' /\ EvOK' /\ RestOK' /\ ObjectsScoped'
  BY <1>1, <1>3 DEF Respond, tpmVars, evVars, CallOK, ActiveIds, Reading, TpmOK,
                    EvOK, RestOK, ObjectsScoped
<1>6. QED BY <1>4, <1>5, Whole

\* Every step keeps the types, and the objects of the TPM to the calls at work.
LEMMA TypeStep == TypeInv /\ [Next]_vars => TypeInv'
<1> SUFFICES ASSUME TypeInv, [Next]_vars PROVE TypeInv'
  OBVIOUS
<1> USE Parts, ResultTypes, FailureType
<1>1. ASSUME NEW h \in Hosts, Enrolling(h) PROVE TypeInv'  BY <1>1, EnrollingType
<1>2. ASSUME NEW h \in Hosts, Attesting(h) PROVE TypeInv'  BY <1>2, AttestingType
<1>3. ASSUME NEW h \in Hosts, HttpTimeout(h) PROVE TypeInv'
  <2>1. UNCHANGED next /\ EvOK' /\ RestOK' /\ NetOK'
    BY <1>3 DEF HttpTimeout, evVars, netVars, EvOK, RestOK, NetOK
  <2>2. QED BY <1>3, <2>1, ReturnType, Whole DEF HttpTimeout
<1>4. ASSUME NEW h \in Hosts, Request(h) PROVE TypeInv'
  <2>1. CASE HandleIncomplete(h)
    <3>1. /\ EvOK' /\ RestOK' /\ NetOK' /\ TpmOK'
          /\ UNCHANGED <<next, loaded>>
      BY <2>1 DEF HandleIncomplete, tpmVars, evVars, netVars, EvOK, RestOK, NetOK, TpmOK
    <3>2. \A o \in loaded : o[1] # h BY <2>1 DEF HandleIncomplete, ObjectsScoped
    <3>3. QED BY <2>1, <3>1, <3>2, AnswerType, Whole DEF HandleIncomplete
  <2>2. CASE HandleEnroll(h)
    BY <2>2, OpenType DEF HandleEnroll, RootHeraldEnroll, Steps
  <2>3. CASE HandleAttest(h)
    BY <2>3, OpenType DEF HandleAttest, RootHeraldAttest, Steps
  <2>4. CASE HandleStatus(h)
    <3>1. /\ EvOK' /\ RestOK' /\ NetOK' /\ TpmOK'
          /\ UNCHANGED <<next, loaded>>
      BY <2>4, FaultType DEF HandleStatus, RootHeraldGetStatus, tpmVars, evVars,
         netVars, EvOK, RestOK, NetOK, TpmOK
    <3>2. \A o \in loaded : o[1] # h BY <2>4 DEF HandleStatus, ObjectsScoped
    <3>3. PICK r \in {"HAS_TPM", "HAS_NO_TPM"} : Answer(h, r)
      BY <2>4 DEF HandleStatus, RootHeraldGetStatus
    <3>4. QED BY <3>1, <3>2, <3>3, AnswerType, Whole
  <2>5. QED BY <1>4, <2>1, <2>2, <2>3, <2>4 DEF Request
<1>5. ASSUME NEW h \in Hosts, Kill(h) PROVE TypeInv'
  <2>1. UNCHANGED next /\ EvOK' /\ RestOK' /\ NetOK'
    BY <1>5, FaultType DEF Kill, evVars, netVars, EvOK, RestOK, NetOK
  <2>2. TpmOK' /\ \A o \in loaded' : o \in loaded /\ o[1] # h
    BY <1>5, GoneType DEF Kill
  <2>3. QED BY <1>5, <2>1, <2>2, AnswerType, Whole DEF Kill
<1>6. CASE Measure
  <2>1. pcr' \in [Pcrs -> Values]
    <3>1. PICK i \in Pcrs : pcr[i] <= MaxMeasurements /\ pcr' = [pcr EXCEPT ![i] = @ + 1]
      BY <1>6 DEF Measure
    <3>2. pcr[i] + 1 \in Values BY <3>1, DriverConstants DEF EvOK, Values
    <3>3. QED BY <3>1, <3>2 DEF EvOK
  <2>2. CallOK' /\ TpmOK' /\ NetOK' /\ RestOK' /\ ObjectsScoped'
    BY <1>6 DEF Measure, tpmVars, netVars, CallOK, ActiveIds, Reading, TpmOK,
                NetOK, RestOK, ObjectsScoped
  <2>3. EvOK' BY <1>6, <2>1 DEF Measure, EvOK
  <2>4. QED BY <2>2, <2>3, Whole
<1>7. ASSUME NEW m \in posted, Serve(m) PROVE TypeInv'  BY <1>7, ServeType
<1>8. CASE UNCHANGED vars
  BY <1>8, Whole DEF vars, tpmVars, evVars, netVars, CallOK, ActiveIds, Reading,
                     TpmOK, EvOK, NetOK, RestOK, ObjectsScoped
<1>9. QED
  BY <1>1, <1>2, <1>3, <1>4, <1>5, <1>6, <1>7, <1>8 DEF Next, Step

\* The typing invariant holds initially.
LEMMA TypeInit == Init => TypeInv
BY DriverConstants
   DEF Init, TypeInv, DriverTypeOK, ActiveIds, Reading, ObjectsScoped, Vectors, Values,
       Unread, Results, Steps, Keys, NoKey, Zeros, Requests, Answers

\* ...and in every reachable state.
LEMMA TypeInvariant == Spec => []TypeInv
BY TypeInit, TypeStep, PTL DEF Spec

\* Every variable keeps its type.
THEOREM LinuxTypeCorrect == Spec => []LinuxTypeOK
<1>1. Init => managed \in BOOLEAN BY DEF Init
<1>2. managed \in BOOLEAN /\ [Next]_vars => (managed \in BOOLEAN)' BY DEF Next, vars
<1>3. TypeInv /\ managed \in BOOLEAN => LinuxTypeOK BY DEF TypeInv, LinuxTypeOK
<1>4. QED BY <1>1, <1>2, <1>3, TypeInvariant, PTL DEF Spec

\* An object is loaded in the TPM only for a call at work, whatever fails, is
\* refused, times out or is killed.
THEOREM ObjectsAlwaysScoped == Spec => []ObjectsScoped
BY TypeInvariant, PTL DEF TypeInv

-----------------------------------------------------------------------------
(* A complete success means an enrolled AK. *)

\* The server has given no good answer but with an AK enrolled.
GoodAnswers ==
  \A r \in replies : r.answer \in {"accepted", "ok", "verified"} => serverAk # NoKey
OkInv == OkMeansEnrolled /\ GoodAnswers

\* No step lets a call succeed without an AK at the server.
LEMMA OkStep == TypeInv /\ OkInv /\ [Next]_vars => OkInv'
<1> SUFFICES ASSUME TypeInv, OkInv, [Next]_vars PROVE OkInv'
  OBVIOUS
<1>1. ASSUME UNCHANGED <<replies, serverAk>>, NEW h \in Hosts,
             \A g \in Hosts : g # h =>
               ret'[g] = ret[g] /\ (g \in partial => g \in partial'),
             ret'[h] = "OK" /\ h \notin partial' =>
               (ret[h] = "OK" /\ h \notin partial) \/ \E r \in replies :
               r.answer \in {"accepted", "ok", "verified"}
      PROVE  OkInv'
  BY <1>1 DEF OkInv, OkMeansEnrolled, GoodAnswers
<1>2. ASSUME NEW h \in Hosts, NEW r, Answer(h, r)
      PROVE  /\ ret'[h] = r
             /\ \A g \in Hosts : g # h =>
                  ret'[g] = ret[g] /\ (g \in partial => g \in partial')
  BY <1>2 DEF Answer, Finish, TypeInv, DriverTypeOK
<1>3. ASSUME NEW h \in Hosts, NEW r, Return(h, r)
      PROVE  /\ ret'[h] = r
             /\ \A g \in Hosts : g # h =>
                  ret'[g] = ret[g] /\ (g \in partial => g \in partial')
  BY <1>2, <1>3 DEF Return
<1>4. ASSUME NEW h \in Hosts, Step(h) \/ Request(h) \/ Kill(h) PROVE OkInv'
  <2>1. UNCHANGED <<replies, serverAk>>
    BY <1>4 DEF Step, Enrolling, Attesting, Request, Kill, Load, Open, Post,
         HandleIncomplete, HandleEnroll, RootHeraldEnroll, HandleAttest,
         RootHeraldAttest, HandleStatus, HttpTimeout, TpmReadEkCert, TpmReadEkPub, TpmCreateSrk,
         TpmCreateAk, TpmReadPublic, PostEnroll, EnrollChallenged, EnrollAccepted,
         EnrollRefused, TpmStartPolicySession, TpmPolicySecret,
         TpmActivateCredential, EnrollPartial, PostActivate, ActivateReplied,
         TpmQuote, TpmPcrRead, PostAttest, AttestReplied, netVars
  <2>2. CASE UNCHANGED <<ret, partial>> BY <1>1, <2>1, <2>2
  <2>3. CASE \E r \in {"NO_TPM", "INVALID_PARAM", "none", "HAS_TPM", "HAS_NO_TPM"} :
              Answer(h, r)
    BY <1>1, <1>2, <2>1, <2>3
  <2>4. CASE \E r \in {"NO_TPM", "ENROLLMENT_FAILED", "ATTESTATION_FAILED"} :
              Return(h, r)
    BY <1>1, <1>3, <2>1, <2>4
  <2>p. CASE EnrollPartial(h)
    <3>1. /\ h \in partial'
          /\ \A g \in Hosts : g # h =>
               ret'[g] = ret[g] /\ (g \in partial => g \in partial')
      BY <2>p DEF EnrollPartial, Finish, TypeInv, DriverTypeOK
    <3>2. QED BY <1>1, <2>1, <3>1
  <2>5. CASE /\ Return(h, "OK")
             /\ \/ Reply(h, "enroll", "accepted") \/ Reply(h, "activate", "ok")
                \/ Reply(h, "attest", "verified")
    <3>1. \E r \in replies : r.answer \in {"accepted", "ok", "verified"}
      BY <2>5 DEF Reply
    <3>2. QED BY <1>1, <1>3, <2>1, <2>5, <3>1
  <2>6. CASE Enrolling(h)
    BY <2>2, <2>4, <2>p, <2>5, <2>6
    DEF Enrolling, Load, Goto, FailureOf, TpmReadEkCert, TpmReadEkPub, TpmCreateSrk,
         TpmCreateAk, TpmReadPublic, PostEnroll, EnrollChallenged, EnrollAccepted,
         EnrollRefused, TpmStartPolicySession, TpmPolicySecret,
         TpmActivateCredential, PostActivate, ActivateReplied
  <2>7. CASE Attesting(h)
    BY <2>2, <2>4, <2>5, <2>7
    DEF Attesting, Goto, AfterPcr, TpmQuote, TpmPcrRead, PostAttest, AttestReplied
  <2>8. CASE HttpTimeout(h) BY <2>4, <2>8 DEF HttpTimeout, FailureOf
  <2>9. CASE Request(h)
    BY <2>2, <2>3, <2>9 DEF Request, Open, HandleIncomplete, HandleEnroll,
       RootHeraldEnroll, HandleAttest, RootHeraldAttest, HandleStatus,
       RootHeraldGetStatus
  <2>10. CASE Kill(h) BY <2>3, <2>10 DEF Kill
  <2>11. QED BY <1>4, <2>6, <2>7, <2>8, <2>9, <2>10 DEF Step
<1>5. CASE Measure BY <1>5 DEF Measure, netVars, OkInv, OkMeansEnrolled, GoodAnswers
<1>6. ASSUME NEW m \in posted, Serve(m) PROVE OkInv'
  <2>1. UNCHANGED <<ret, partial>> /\ m.ak \in Keys /\ m.ak # NoKey
    BY <1>6 DEF Serve, ServerEnroll, ServerActivate, ServerAttest, Respond, Keys,
         NoKey, TypeInv, DriverTypeOK, Requests
  <2>2. serverAk' \in {serverAk, m.ak}
    BY <1>6 DEF Serve, ServerEnroll, ServerActivate, ServerAttest
  <2>3. PICK a : /\ Respond(m, a)
                 /\ a \in {"accepted", "ok", "verified"} => serverAk' # NoKey
    BY <1>6, <2>1 DEF Serve, ServerEnroll, ServerActivate, ServerAttest
  <2>4. QED BY <2>1, <2>2, <2>3 DEF Respond, OkInv, OkMeansEnrolled, GoodAnswers
<1>7. CASE UNCHANGED vars BY <1>7 DEF vars, netVars, OkInv, OkMeansEnrolled, GoodAnswers
<1>8. QED BY <1>4, <1>5, <1>6, <1>7 DEF Next

\* A call that reports a complete success leaves the device enrolled.
THEOREM SuccessMeansEnrolled == Spec => []OkMeansEnrolled
<1>1. Init => OkInv BY DEF Init, OkInv, OkMeansEnrolled, GoodAnswers
<1>2. QED BY <1>1, OkStep, TypeInvariant, PTL DEF Spec, OkInv

-----------------------------------------------------------------------------
(* Reported PCR values against the quoted ones. *)

\* What ReportedFollowsQuote says of PCR i.
Sound(q, r, i) == \/ q[i] <= r[i] /\ r[i] <= pcr[i]
                  \/ r[i] = Zeros /\ faults > 0

\* A host that reads: the PCRs behind it are sound, those ahead still zeros.
ReadSoFar(h) ==
  \A i \in Pcrs :
    /\ quoted[h][i] <= pcr[i]
    /\ i < next[h] => Sound(quoted[h], reported[h], i)
    /\ i >= next[h] => reported[h][i] = Zeros

ReadInv ==
  /\ ReportedFollowsQuote
  /\ \A h \in Hosts : pc[h] = "pcr" => ReadSoFar(h)
  /\ \A h \in Hosts : pc[h] = "report" =>
       \A i \in Pcrs : Sound(quoted[h], reported[h], i)

\* PCRs and faults only grow, so what is sound stays so.
LEMMA SoundStays ==
  ASSUME TypeInv, TypeInv', \A i \in Pcrs : pcr[i] <= pcr'[i], faults <= faults',
         NEW q \in Vectors, NEW r \in Vectors, NEW i \in Pcrs, Sound(q, r, i)
  PROVE  \/ q[i] <= r[i] /\ r[i] <= pcr'[i]
         \/ r[i] = Zeros /\ faults' > 0
<1>1. q[i] \in Nat /\ r[i] \in Nat /\ pcr[i] \in Nat /\ pcr'[i] \in Nat
  BY DEF TypeInv, DriverTypeOK, Vectors, Values, Zeros
<1>2. faults \in Nat /\ faults' \in Nat BY DriverConstants DEF TypeInv, DriverTypeOK
<1>3. QED BY <1>1, <1>2 DEF Sound

\* No step makes a reported value older than the quoted one.
LEMMA ReadStep == TypeInv /\ TypeInv' /\ ReadInv /\ [Next]_vars => ReadInv'
<1> SUFFICES ASSUME TypeInv, TypeInv', ReadInv, [Next]_vars PROVE ReadInv'
  OBVIOUS
<1>0. /\ \A h \in Hosts : quoted[h] \in Vectors /\ reported[h] \in Vectors
      /\ \A i \in Pcrs : pcr[i] \in Nat
      /\ \A h \in Hosts, i \in Pcrs : quoted[h][i] \in Nat /\ reported[h][i] \in Nat
      /\ faults \in Nat
      /\ \A h \in Hosts : next[h] \in Nat
  BY DriverConstants DEF TypeInv, DriverTypeOK, Vectors, Values, Zeros
\* Evidence sent stays sound.
<1>9. ASSUME \A i \in Pcrs : pcr[i] <= pcr'[i], faults <= faults',
             \A m \in posted' : m.kind = "attest" => m \in posted
      PROVE  ReportedFollowsQuote'
  <2> SUFFICES ASSUME NEW m \in posted', m.kind = "attest", NEW i \in Pcrs
               PROVE  \/ m.quoted[i] <= m.reported[i] /\ m.reported[i] <= pcr'[i]
                      \/ m.reported[i] = Zeros /\ faults' > 0
    BY DEF ReportedFollowsQuote
  <2>1. m \in posted /\ m.quoted \in Vectors /\ m.reported \in Vectors
    BY <1>9 DEF TypeInv, DriverTypeOK, Requests
  <2>2. Sound(m.quoted, m.reported, i)
    BY <2>1 DEF ReadInv, ReportedFollowsQuote, Sound
  <2>3. QED BY <1>9, <2>1, <2>2, SoundStays
\* Steps that read no PCR, take no quote and send no evidence.
<1>1. ASSUME \A i \in Pcrs : pcr[i] <= pcr'[i], faults <= faults',
             UNCHANGED <<quoted, reported, next>>,
             \A h \in Hosts : pc'[h] \in {"pcr", "report"} => pc'[h] = pc[h],
             \A m \in posted' : m.kind = "attest" => m \in posted
      PROVE  ReadInv'
  <2>1. ReportedFollowsQuote' BY <1>1, <1>9
  <2>2. ASSUME NEW h \in Hosts, pc'[h] = "pcr" PROVE ReadSoFar(h)'
    <3>1. ReadSoFar(h) BY <1>1, <2>2 DEF ReadInv
    <3>2. \A i \in Pcrs : quoted[h][i] <= pcr'[i] /\ pcr'[i] \in Nat
      BY <1>0, <1>1, <3>1 DEF ReadSoFar, TypeInv, DriverTypeOK, Values
    <3>3. \A i \in Pcrs : i < next[h] => Sound(quoted[h], reported[h], i)'
      BY <1>0, <1>1, <3>1, SoundStays DEF ReadSoFar, Sound
    <3>4. QED BY <1>1, <3>1, <3>2, <3>3 DEF ReadSoFar
  <2>3. ASSUME NEW h \in Hosts, pc'[h] = "report", NEW i \in Pcrs
        PROVE  Sound(quoted[h], reported[h], i)'
    <3>1. Sound(quoted[h], reported[h], i) BY <1>1, <2>3 DEF ReadInv
    <3>2. QED BY <1>0, <1>1, <3>1, SoundStays DEF Sound
  <2>4. QED BY <2>1, <2>2, <2>3 DEF ReadInv
<1>2. \A i \in Pcrs : pcr[i] <= pcr[i] BY <1>0
<1>3. (Fault \/ NoFault) => faults <= faults'
  BY <1>0 DEF Fault, NoFault
<1>4. ASSUME NEW h \in Hosts, NEW s, Goto(h, s) \/ Finish(h, s), s \notin {"pcr", "report"}
      PROVE  \A g \in Hosts : pc'[g] \in {"pcr", "report"} => pc'[g] = pc[g]
  BY <1>4 DEF Goto, Finish, TypeInv, DriverTypeOK
<1>5. ASSUME NEW h \in Hosts, TpmQuote(h) PROVE ReadInv'
  <2>1. CASE Fault /\ Return(h, "ATTESTATION_FAILED") /\ UNCHANGED evVars
    <3>1. \A g \in Hosts : pc'[g] \in {"pcr", "report"} => pc'[g] = pc[g]
      BY <1>4, <2>1 DEF Return, Answer
    <3>2. QED BY <1>1, <1>2, <1>3, <1>5, <2>1, <3>1 DEF TpmQuote, evVars, netVars
  <2>2. CASE /\ NoFault /\ Goto(h, "pcr") /\ UNCHANGED <<pcr, tpmVars>>
             /\ quoted' = [quoted EXCEPT ![h] = pcr]
             /\ reported' = [reported EXCEPT ![h] = Unread]
             /\ next' = [next EXCEPT ![h] = 1]
    <3>1. UNCHANGED posted BY <1>5 DEF TpmQuote, netVars
    <3>2. /\ quoted'[h] = pcr /\ reported'[h] = Unread /\ next'[h] = 1
          /\ pc'[h] = "pcr"
      BY <2>2 DEF Goto, TypeInv, DriverTypeOK
    <3>3. ReadSoFar(h)'
      BY <1>0, <2>2, <3>2, DriverConstants DEF ReadSoFar, Sound, Unread, Pcrs
    <3>4. ASSUME NEW g \in Hosts, g # h
          PROVE  /\ pc'[g] = pc[g] /\ quoted'[g] = quoted[g]
                 /\ reported'[g] = reported[g] /\ next'[g] = next[g]
      BY <2>2, <3>4 DEF Goto, TypeInv, DriverTypeOK
    <3>5. QED
      BY <2>2, <3>1, <3>2, <3>3, <3>4
      DEF ReadInv, ReadSoFar, ReportedFollowsQuote, Sound, NoFault
  <2>3. QED BY <1>5, <2>1, <2>2 DEF TpmQuote
<1>6. ASSUME NEW h \in Hosts, TpmPcrRead(h) PROVE ReadInv'
  <2>1. pc[h] = "pcr" /\ next[h] \in Pcrs /\ ReadSoFar(h)
    BY <1>6 DEF TpmPcrRead, TypeInv, Reading, ReadInv
  <2>2. /\ UNCHANGED <<pcr, quoted, posted>> /\ faults <= faults'
        /\ next' = [next EXCEPT ![h] = next[h] + 1]
    BY <1>3, <1>6 DEF TpmPcrRead, netVars
  <2>3. /\ pc'[h] \in {"pcr", "report"} /\ next'[h] = next[h] + 1
        /\ pc'[h] = "report" => next[h] = NumPcrs
    BY <1>6, <2>2 DEF TpmPcrRead, AfterPcr, Goto, TypeInv, DriverTypeOK
  <2>4. ASSUME NEW g \in Hosts, g # h
        PROVE  /\ pc'[g] = pc[g] /\ next'[g] = next[g] /\ reported'[g] = reported[g]
    BY <1>6, <2>4 DEF TpmPcrRead, AfterPcr, Goto, TypeInv, DriverTypeOK
  <2>5. /\ \A i \in Pcrs \ {next[h]} : reported'[h][i] = reported[h][i]
        /\ \/ reported'[h][next[h]] = pcr[next[h]]
           \/ reported'[h][next[h]] = reported[h][next[h]] /\ faults' > 0
    <3>1. reported \in [Hosts -> Vectors] /\ reported[h] \in Vectors
      BY DEF TypeInv, DriverTypeOK
    <3>2. CASE reported' = [reported EXCEPT ![h][next[h]] = pcr[next[h]]]
      BY <2>1, <3>1, <3>2 DEF Vectors
    <3>3. CASE Fault /\ UNCHANGED reported BY <1>0, <3>3 DEF Fault
    <3>4. QED BY <1>6, <3>2, <3>3 DEF TpmPcrRead
  <2>6. ASSUME NEW i \in Pcrs
        PROVE  /\ quoted'[h][i] <= pcr'[i]
               /\ i < next'[h] => Sound(quoted[h], reported[h], i)'
               /\ i >= next'[h] => reported'[h][i] = Zeros
    <3>1. i \in Nat /\ next[h] \in Nat /\ quoted[h][i] <= pcr[i]
      BY <1>0, <2>1 DEF Pcrs, ReadSoFar
    <3>2. CASE i = next[h]
      <4>1. reported[h][i] = Zeros BY <2>1, <3>1, <3>2 DEF ReadSoFar
      <4>2. QED BY <1>0, <2>2, <2>3, <2>5, <3>1, <3>2, <4>1 DEF Sound
    <3>3. CASE i < next[h]
      <4>1. Sound(quoted[h], reported[h], i) BY <2>1, <3>3 DEF ReadSoFar
      <4>2. Sound(quoted[h], reported[h], i)'
        BY <1>0, <2>2, <2>5, <3>1, <3>3, <4>1, SoundStays DEF Sound
      <4>3. QED BY <2>2, <2>3, <3>1, <3>3, <4>2
    <3>4. CASE i > next[h]
      BY <2>1, <2>2, <2>3, <2>5, <3>1, <3>4 DEF ReadSoFar
    <3>5. QED BY <3>1, <3>2, <3>3, <3>4
  <2>7. ReadSoFar(h)' BY <2>6 DEF ReadSoFar
  <2>8. pc'[h] = "report" => \A i \in Pcrs : Sound(quoted[h], reported[h], i)'
    BY <2>3, <2>6, DriverConstants DEF Pcrs
  <2>9. ASSUME NEW g \in Hosts
        PROVE  /\ pc'[g] = "pcr" => ReadSoFar(g)'
               /\ pc'[g] = "report" =>
                    \A i \in Pcrs : Sound(quoted[g], reported[g], i)'
    <3>1. CASE g = h BY <2>7, <2>8, <3>1
    <3>2. CASE g # h
      <4>1. \A i \in Pcrs : Sound(quoted[g], reported[g], i)
                            => Sound(quoted[g], reported[g], i)'
        BY <1>0, <2>2, <2>4, <3>2, SoundStays DEF Sound
      <4>2. QED BY <2>2, <2>4, <3>2, <4>1 DEF ReadInv, ReadSoFar
    <3>3. QED BY <3>1, <3>2
  <2>10. ReportedFollowsQuote'
    BY <1>0, <1>9, <2>2
  <2>11. QED BY <2>9, <2>10 DEF ReadInv
<1>7. ASSUME NEW h \in Hosts, PostAttest(h) PROVE ReadInv'
  <2>1. /\ UNCHANGED <<pcr, quoted, reported, next, faults>>
        /\ pc[h] = "report" /\ Goto(h, "attesting")
        /\ posted' = posted \cup {[kind |-> "attest", ak |-> id[h], was |-> serverAk,
                                   quoted |-> quoted[h], reported |-> reported[h]]}
    BY <1>7 DEF PostAttest, Post, evVars
  <2>2. ReportedFollowsQuote'
    BY <2>1 DEF ReadInv, ReportedFollowsQuote, Sound
  <2>3. \A g \in Hosts : pc'[g] \in {"pcr", "report"} => pc'[g] = pc[g]
    BY <1>4, <2>1
  <2>4. QED BY <2>1, <2>2, <2>3 DEF ReadInv, ReadSoFar, Sound
\* Every other step of a host ends elsewhere than in the loop over the PCRs.
<1>10. ASSUME NEW h \in Hosts, Enrolling(h) \/ AttestReplied(h) \/ HttpTimeout(h)
                               \/ Request(h) \/ Kill(h)
       PROVE  ReadInv'
  <2>1. UNCHANGED evVars /\ (Fault \/ NoFault)
    BY <1>10 DEF Enrolling, Request, Kill, Load, Open, HandleIncomplete, HandleEnroll,
         RootHeraldEnroll, HandleAttest, RootHeraldAttest, HandleStatus,
         RootHeraldGetStatus, HttpTimeout, TpmReadEkCert, TpmReadEkPub, TpmCreateSrk, TpmCreateAk,
         TpmReadPublic, PostEnroll, EnrollChallenged, EnrollAccepted, EnrollRefused,
         TpmStartPolicySession, TpmPolicySecret, TpmActivateCredential,
         EnrollPartial, PostActivate, ActivateReplied, AttestReplied, NoFault
  <2>2. \A m \in posted' : m.kind = "attest" => m \in posted
    BY <1>10 DEF Enrolling, Request, Kill, Load, Open, HandleIncomplete, HandleEnroll,
         RootHeraldEnroll, HandleAttest, RootHeraldAttest, HandleStatus,
         RootHeraldGetStatus, HttpTimeout, TpmReadEkCert, TpmReadEkPub, TpmCreateSrk, TpmCreateAk,
         TpmReadPublic, PostEnroll, EnrollChallenged, EnrollAccepted, EnrollRefused,
         TpmStartPolicySession, TpmPolicySecret, TpmActivateCredential, Post,
         EnrollPartial, PostActivate, ActivateReplied, AttestReplied, netVars
  <2>3. \/ UNCHANGED pc
        \/ \E s : Finish(h, s)
        \/ \E s : Goto(h, s) /\ s \notin {"pcr", "report"}
        \/ \E c : pc' = [pc EXCEPT ![h] = c] /\ c \notin {"pcr", "report"}
    BY <1>10 DEF Enrolling, Request, Kill, Load, Open, Return, Answer, HandleIncomplete,
         HandleEnroll, RootHeraldEnroll, HandleAttest, RootHeraldAttest, HandleStatus,
         RootHeraldGetStatus, HttpTimeout, TpmReadEkCert, TpmReadEkPub, TpmCreateSrk, TpmCreateAk,
         TpmReadPublic, PostEnroll, EnrollChallenged, EnrollAccepted, EnrollRefused,
         TpmStartPolicySession, TpmPolicySecret, TpmActivateCredential,
         EnrollPartial, PostActivate, ActivateReplied, AttestReplied
  <2>4. \A g \in Hosts : pc'[g] \in {"pcr", "report"} => pc'[g] = pc[g]
    BY <2>3 DEF Finish, Goto, TypeInv, DriverTypeOK
  <2>5. QED BY <1>1, <1>2, <1>3, <2>1, <2>2, <2>4 DEF evVars
<1>11. CASE Measure
  <2>1. \A i \in Pcrs : pcr[i] <= pcr'[i]
    BY <1>0, <1>11 DEF Measure, TypeInv, DriverTypeOK
  <2>2. QED BY <1>0, <1>1, <1>11, <2>1 DEF Measure, netVars
<1>12. ASSUME NEW m \in posted, Serve(m) PROVE ReadInv'
  <2>1. UNCHANGED <<pc, evVars, posted>> /\ (Fault \/ NoFault)
    BY <1>12 DEF Serve, ServerEnroll, ServerActivate, ServerAttest, Respond
  <2>2. QED BY <1>1, <1>2, <1>3, <2>1 DEF evVars
<1>13. CASE UNCHANGED vars
  BY <1>0, <1>1, <1>2, <1>13 DEF vars, evVars, netVars
<1>14. QED
  BY <1>5, <1>6, <1>7, <1>10, <1>11, <1>12, <1>13 DEF Next, Step, Attesting

\* In evidence sent, no PCR value is older than the quoted one.
THEOREM ReportedAlwaysFollowsQuote == Spec => []ReportedFollowsQuote
<1>1. Init => ReadInv BY DEF Init, ReadInv, ReportedFollowsQuote
<1>2. QED BY <1>1, ReadStep, TypeInvariant, PTL DEF Spec, ReadInv

-----------------------------------------------------------------------------
(* What stays in a bare TPM. *)

\* Calls are numbered as they come: no number is in use before its call.
Numbered ==
  /\ \A m \in posted : m.ak <= calls
  /\ \A r \in replies : r.ak <= calls
  /\ \A h \in Hosts : id[h] <= calls

\* A step of a host answers no request and posts none but its own; a call that it
\* starts gets the next number.
LEMMA HostSteps ==
  ASSUME TypeInv, NEW h \in Hosts, Request(h) \/ Step(h) \/ Kill(h)
  PROVE  /\ UNCHANGED replies
         /\ \A m \in posted' : m \in posted \/ (m.ak = id[h] /\ pc[h] # "idle")
         /\ \/ UNCHANGED calls /\ id'[h] \in {id[h], NoKey}
            \/ calls' = calls + 1 /\ id'[h] \in {id[h], NoKey, calls + 1}
         /\ \A g \in Hosts \ {h} : pc'[g] = pc[g] /\ id'[g] = id[g]
         /\ Fault \/ NoFault
<1> USE DEF Load, Open, Return, Answer, Finish, Goto, Post, TpmClose, Reply,
            evVars, netVars, tpmVars, NoFault, TypeInv, DriverTypeOK
<1>1. CASE Request(h)
  BY <1>1 DEF Request, HandleIncomplete, HandleEnroll, RootHeraldEnroll,
              HandleAttest, RootHeraldAttest, HandleStatus, RootHeraldGetStatus
<1>2. CASE Enrolling(h)
  <2>1. CASE \/ TpmReadEkCert(h) \/ TpmReadEkPub(h) \/ TpmCreateSrk(h)
             \/ TpmCreateAk(h) \/ TpmReadPublic(h) \/ PostEnroll(h)
    BY <2>1 DEF TpmReadEkCert, TpmReadEkPub, TpmCreateSrk, TpmCreateAk,
                TpmReadPublic, PostEnroll
  <2>2. CASE \/ EnrollChallenged(h) \/ EnrollAccepted(h) \/ EnrollRefused(h)
             \/ TpmStartPolicySession(h) \/ TpmPolicySecret(h)
    BY <2>2 DEF EnrollChallenged, EnrollAccepted, EnrollRefused,
                TpmStartPolicySession, TpmPolicySecret
  <2>3. CASE \/ TpmActivateCredential(h) \/ EnrollPartial(h) \/ PostActivate(h)
             \/ ActivateReplied(h)
    BY <2>3 DEF TpmActivateCredential, EnrollPartial, PostActivate, ActivateReplied
  <2>4. QED BY <1>2, <2>1, <2>2, <2>3 DEF Enrolling
<1>3. CASE Attesting(h) \/ HttpTimeout(h)
  BY <1>3 DEF Attesting, TpmQuote, TpmPcrRead, AfterPcr, PostAttest, AttestReplied,
              HttpTimeout
<1>4. CASE Kill(h)
  BY <1>4 DEF Kill
<1>5. QED BY <1>1, <1>2, <1>3, <1>4 DEF Step

\* No step uses a number before its call.
LEMMA NumberStep == TypeInv /\ Numbered /\ [Next]_vars => Numbered'
<1> SUFFICES ASSUME TypeInv, Numbered, [Next]_vars PROVE Numbered'
  OBVIOUS
<1>0. /\ calls \in Nat /\ NoKey <= calls /\ calls <= calls
      /\ \A h \in Hosts : id[h] \in Nat
      /\ \A m \in posted : m.ak \in Nat
      /\ \A r \in replies : r.ak \in Nat
  BY DriverConstants DEF TypeInv, DriverTypeOK, NoKey, Keys, Requests, Answers
<1>1. ASSUME NEW h \in Hosts, Request(h) \/ Step(h) \/ Kill(h) PROVE Numbered'
  <2>1. /\ UNCHANGED replies
        /\ \A m \in posted' : m \in posted \/ m.ak = id[h]
        /\ \A g \in Hosts \ {h} : id'[g] = id[g]
        /\ \/ calls' = calls /\ id'[h] \in {id[h], NoKey}
           \/ calls' = calls + 1 /\ id'[h] \in {id[h], NoKey, calls + 1}
    BY <1>1, HostSteps
  <2>2. \A n \in Nat : n <= calls => n <= calls'
    BY <1>0, <2>1
  <2>3. \A m \in posted' : m.ak <= calls'
    BY <1>0, <2>1, <2>2 DEF Numbered
  <2>4. \A r \in replies' : r.ak <= calls'
    BY <1>0, <2>1, <2>2 DEF Numbered
  <2>5. \A g \in Hosts : id'[g] <= calls'
    <3>0. NoKey <= calls /\ NoKey <= calls + 1 /\ calls + 1 <= calls + 1
      BY <1>0 DEF NoKey
    <3>1. id'[h] <= calls'
      <4>1. id[h] <= calls /\ id[h] <= calls + 1
        BY <1>0 DEF Numbered
      <4>2. QED BY <2>1, <3>0, <4>1
    <3>2. \A g \in Hosts : id[g] <= calls'
      BY <1>0, <2>2 DEF Numbered
    <3>3. QED BY <2>1, <3>1, <3>2
  <2>6. QED BY <2>3, <2>4, <2>5 DEF Numbered
<1>2. CASE Measure
  BY <1>2 DEF Measure, Numbered, netVars
<1>3. ASSUME NEW m \in posted, Serve(m) PROVE Numbered'
  BY <1>3 DEF Serve, ServerEnroll, ServerActivate, ServerAttest, Respond, Numbered
<1>4. CASE UNCHANGED vars
  BY <1>4 DEF vars, netVars, Numbered
<1>5. QED BY <1>1, <1>2, <1>3, <1>4 DEF Next

Session(h) == <<h, "session">> \in loaded

\* The challenge of a call that has started no session for it yet.
BeforeSession == {"ekCert", "ek", "srk", "ak", "public", "publish", "enrolling"}

Owed(h) == \/ pc[h] = "session"
           \/ pc[h] \in BeforeSession /\ \E c \in Challenged : c.ak = id[h]

\* One call at a time has a bare TPM; as long as its challenge has cost no session,
\* or the session it cost is loaded, fewer have leaked than challenges were given.
LeakInv ==
  /\ ~managed => \A g, h \in Hosts : pc[g] # "idle" /\ pc[h] # "idle" => g = h
  /\ IsFiniteSet(replies)
  /\ Numbered
  /\ \A h \in Hosts : ~managed /\ (Owed(h) \/ Session(h)) =>
                         leaked["session"] < Cardinality(Challenged)
  /\ LeaksBounded

\* The counters are numbers.
LEMMA LeakNumbers ==
  ASSUME TypeInv, LeakInv
  PROVE  /\ faults \in Nat
         /\ leaked["session"] \in Nat /\ leaked["transient"] \in Nat
         /\ IsFiniteSet(Challenged) /\ Cardinality(Challenged) \in Nat
<1>1. Challenged \subseteq replies /\ IsFiniteSet(replies)
  BY DEF Challenged, LeakInv
<1>2. IsFiniteSet(Challenged) BY <1>1, FS_Subset
<1>3. QED
  BY <1>2, FS_CardinalityType, DriverConstants DEF TypeInv, DriverTypeOK, Kinds

\* One more element is counted once at most.
LEMMA OneMore ==
  ASSUME NEW S, NEW x, IsFiniteSet(S), NEW n \in Nat, NEW m \in Nat, m = n + 1,
         Cardinality(S) <= n
  PROVE  IsFiniteSet(S \cup {x}) /\ Cardinality(S \cup {x}) <= m
<1>1. Cardinality(S) \in Nat
  BY FS_CardinalityType
<1>2. QED BY <1>1, FS_AddElement

\* A host has three keys and one session at most.
LEMMA KeptCount ==
  ASSUME TypeInv, NEW h \in Hosts
  PROVE  /\ Cardinality(Kept(h, "transient")) \in 0..3
         /\ Cardinality(Kept(h, "session")) = IF Session(h) THEN 1 ELSE 0
<1>1. Cardinality(Kept(h, "session")) = IF Session(h) THEN 1 ELSE 0
  <2>1. Kept(h, "session") = IF Session(h) THEN {<<h, "session">>} ELSE {}
    BY DEF Kept, KindOf, Session, TypeInv, DriverTypeOK, Objects
  <2>2. QED BY <2>1, FS_EmptySet, FS_Singleton
<1>2. Cardinality(Kept(h, "transient")) \in 0..3
  <2> DEFINE ek   == {<<h, "ek">>}
             two  == ek \cup {<<h, "srk">>}
             keys == two \cup {<<h, "ak">>}
  <2>1. IsFiniteSet(ek) /\ Cardinality(ek) <= 1
    <3>1. IsFiniteSet(ek) /\ Cardinality(ek) = 1
      BY FS_Singleton, Zenon
    <3>2. QED BY <3>1
  <2> HIDE DEF ek
  <2>2. IsFiniteSet(two) /\ Cardinality(two) <= 2
    <3>1. 1 \in Nat /\ 2 \in Nat /\ 2 = 1 + 1
      OBVIOUS
    <3>2. QED BY <2>1, <3>1, OneMore, Zenon
  <2> HIDE DEF two
  <2>3. IsFiniteSet(keys) /\ Cardinality(keys) <= 3
    <3>1. 2 \in Nat /\ 3 \in Nat /\ 3 = 2 + 1
      OBVIOUS
    <3>2. QED BY <2>2, <3>1, OneMore, Zenon
  <2>4. Kept(h, "transient") \subseteq keys
    BY DEF Kept, KindOf, TypeInv, DriverTypeOK, Objects, ek, two
  <2> HIDE DEF keys
  <2>5. Cardinality(Kept(h, "transient")) \in Nat /\ Cardinality(Kept(h, "transient")) <= 3
    <3>1. IsFiniteSet(Kept(h, "transient"))
      BY <2>3, <2>4, FS_Subset
    <3>2. Cardinality(Kept(h, "transient")) <= Cardinality(keys)
      BY <2>3, <2>4, FS_Subset
    <3>3. Cardinality(Kept(h, "transient")) \in Nat /\ Cardinality(keys) \in Nat
      BY <2>3, <3>1, FS_CardinalityType
    <3>4. QED BY <2>3, <3>2, <3>3
  <2>6. QED BY <2>5
<1>3. QED BY <1>1, <1>2

\* A step of host h leaves the others alone and answers no request.
LEMMA LeakFrame ==
  ASSUME TypeInv, LeakInv, Numbered', UNCHANGED <<managed, replies>>, NEW h \in Hosts,
         \A g \in Hosts \ {h} : pc'[g] = pc[g] /\ id'[g] = id[g]
                              /\ (Session(g)' => Session(g)),
         pc[h] = "idle" => UNCHANGED leaked /\ (pc'[h] # "idle" => CanOpen),
         ~managed /\ (Owed(h)' \/ Session(h)') =>
            leaked'["session"] < Cardinality(Challenged),
         LeaksBounded'
  PROVE  LeakInv'
<1>1. (~managed => \A g, k \in Hosts : pc[g] # "idle" /\ pc[k] # "idle" => g = k)'
  BY DEF LeakInv, CanOpen
<1>2. UNCHANGED Challenged
  BY DEF Challenged
<1>3. ASSUME NEW g \in Hosts, ~managed, Owed(g)' \/ Session(g)'
      PROVE  leaked'["session"] < Cardinality(Challenged')
  <2>1. CASE g = h
    BY <1>2, <1>3, <2>1
  <2>2. CASE g # h
    <3>1. Owed(g) \/ Session(g)
      BY <1>2, <1>3, <2>2 DEF Owed
    <3>2. pc[g] # "idle"
      BY <3>1 DEF Owed, BeforeSession, TypeInv, ObjectsScoped, Session
    <3>3. pc[h] = "idle"
      BY <1>3, <2>2, <3>2 DEF LeakInv
    <3>4. QED BY <1>2, <1>3, <3>1, <3>3 DEF LeakInv
  <2>3. QED BY <2>1, <2>2
<1>4. QED BY <1>1, <1>3 DEF LeakInv

\* A step inside a call, which leaks nothing.
LEMMA GotoLeaks ==
  ASSUME TypeInv, LeakInv, Numbered', UNCHANGED <<managed, leaked, replies>>,
         NEW h \in Hosts, NEW s, Goto(h, s), pc[h] # "idle", Fault \/ NoFault,
         \A g \in Hosts \ {h} : Session(g)' => Session(g),
         Session(h)' => Session(h) \/ pc[h] = "session",
         s \in BeforeSession => pc[h] \in BeforeSession,
         s = "session" => Owed(h)
  PROVE  LeakInv'
<1>1. /\ faults' \in Nat /\ faults <= faults'
      /\ UNCHANGED Challenged
  BY LeakNumbers, DriverConstants DEF Fault, NoFault, Challenged
<1>2. LeaksBounded'
  BY <1>1, LeakNumbers DEF LeakInv, LeaksBounded
<1>3. /\ pc'[h] = s /\ UNCHANGED id
      /\ \A g \in Hosts \ {h} : pc'[g] = pc[g]
  BY DEF Goto, TypeInv, DriverTypeOK
<1>4. Owed(h)' \/ Session(h)' => Owed(h) \/ Session(h)
  BY <1>1, <1>3 DEF Owed
<1>5. ~managed /\ (Owed(h)' \/ Session(h)') =>
        leaked'["session"] < Cardinality(Challenged)
  BY <1>4 DEF LeakInv
<1>6. QED BY <1>2, <1>3, <1>5, LeakFrame

\* The end of a call leaks its session, if it has one, and no key.
LEMMA FinishLeaks ==
  ASSUME TypeInv, LeakInv, Numbered', UNCHANGED <<managed, replies>>, NEW h \in Hosts,
         TypeInv', NEW r, TpmClose(h), Finish(h, r), pc[h] # "idle", Fault \/ NoFault
  PROVE  LeakInv'
<1>1. /\ faults' \in Nat /\ faults <= faults'
      /\ UNCHANGED Challenged
  BY LeakNumbers, DriverConstants DEF Fault, NoFault, Challenged
<1>2. /\ pc'[h] = "idle" /\ ~Session(h)'
      /\ \A g \in Hosts \ {h} : pc'[g] = pc[g] /\ id'[g] = id[g]
                               /\ (Session(g)' => Session(g))
  BY DEF TpmClose, Gone, Of, Finish, Session, Objects, TypeInv, DriverTypeOK
<1>3. leaked'["transient"] = leaked["transient"]
  BY DEF TpmClose, Gone, Kinds
<1>4. leaked'["session"] = leaked["session"] \/ (~managed /\ Session(h)
        /\ leaked'["session"] = leaked["session"] + 1)
  <2>1. leaked'["session"] = IF managed THEN leaked["session"]
                             ELSE leaked["session"] + Cardinality(Kept(h, "session"))
    BY DEF TpmClose, Gone, Kinds
  <2>2. QED BY <2>1, KeptCount, LeakNumbers
<1>5. leaked["session"] <= Cardinality(Challenged) /\ leaked["transient"] <= 3 * faults
  BY DEF LeakInv, LeaksBounded
<1>6. ~managed /\ Session(h) => leaked["session"] < Cardinality(Challenged)
  BY DEF LeakInv
<1>7. leaked'["session"] <= Cardinality(Challenged)
  BY <1>4, <1>5, <1>6, LeakNumbers
<1>8. LeaksBounded'
  BY <1>1, <1>3, <1>5, <1>7, LeakNumbers DEF LeaksBounded
<1>9. ~Owed(h)'
  BY <1>2 DEF Owed, BeforeSession
<1>10. QED BY <1>2, <1>8, <1>9, LeakFrame

\* A killed host leaks what it had loaded: its keys by a fault, its session like a
\* call that ends.
LEMMA KillLeaks ==
  ASSUME TypeInv, LeakInv, Numbered', UNCHANGED managed, NEW h \in Hosts, Kill(h)
  PROVE  LeakInv'
<1>1. /\ faults' = faults + 1 /\ UNCHANGED replies /\ UNCHANGED Challenged
  BY DEF Kill, Fault, netVars, Challenged
<1>2. /\ pc[h] # "idle" /\ pc'[h] = "idle" /\ ~Session(h)'
      /\ \A g \in Hosts \ {h} : pc'[g] = pc[g] /\ id'[g] = id[g]
                               /\ (Session(g)' => Session(g))
  BY DEF Kill, Gone, Of, Answer, Finish, Session, Objects, TypeInv, DriverTypeOK
<1>3. /\ leaked'["session"] = IF managed THEN leaked["session"]
                              ELSE leaked["session"] + Cardinality(Kept(h, "session"))
      /\ leaked'["transient"] = IF managed THEN leaked["transient"]
                                ELSE leaked["transient"] + Cardinality(Kept(h, "transient"))
  BY DEF Kill, Gone, Kinds
<1>4. leaked["session"] <= Cardinality(Challenged) /\ leaked["transient"] <= 3 * faults
  BY DEF LeakInv, LeaksBounded
<1>5. ~managed /\ Session(h) => leaked["session"] < Cardinality(Challenged)
  BY DEF LeakInv
<1>6. leaked'["session"] <= Cardinality(Challenged)
  BY <1>3, <1>4, <1>5, KeptCount, LeakNumbers
<1>7. leaked'["transient"] <= 3 * faults'
  BY <1>1, <1>3, <1>4, KeptCount, LeakNumbers
<1>8. LeaksBounded'
  BY <1>1, <1>6, <1>7 DEF LeaksBounded
<1>9. ~Owed(h)'
  BY <1>2 DEF Owed, BeforeSession
<1>10. QED BY <1>1, <1>2, <1>8, <1>9, LeakFrame

\* The steps of a call.
LEMMA CallLeaks ==
  ASSUME TypeInv, TypeInv', LeakInv, Numbered', UNCHANGED managed, NEW h \in Hosts, Step(h)
  PROVE  LeakInv'
<1>0. UNCHANGED replies /\ (Fault \/ NoFault) BY HostSteps
<1>1. ASSUME NEW s, Goto(h, s), UNCHANGED leaked, pc[h] # "idle",
             \A g \in Hosts : Session(g)' => Session(g),
             s \in BeforeSession => pc[h] \in BeforeSession, s # "session"
      PROVE  LeakInv'
  BY <1>0, <1>1, GotoLeaks
<1>2. ASSUME NEW s, Goto(h, s), UNCHANGED tpmVars, pc[h] # "idle",
             s \in BeforeSession => pc[h] \in BeforeSession, s # "session"
      PROVE  LeakInv'
  BY <1>1, <1>2 DEF tpmVars, Session
<1>3. ASSUME NEW r, Return(h, r), pc[h] # "idle" PROVE LeakInv'
  BY <1>0, <1>3, FinishLeaks DEF Return, Answer
<1> USE DEF BeforeSession
<1>4. ASSUME NEW o \in {"ek", "srk", "ak"}, NEW s, NEW f, Load(h, o, s, f),
             pc[h] \in {"ek", "srk", "ak"}, s # "session"
      PROVE  LeakInv'
  <2>1. CASE loaded' = loaded \cup {<<h, o>>} /\ UNCHANGED leaked /\ Goto(h, s)
    <3>1. \A g \in Hosts : Session(g)' => Session(g)
      BY <2>1 DEF Session
    <3>2. QED BY <1>1, <1>4, <2>1, <3>1
  <2>2. CASE Return(h, f)
    BY <1>3, <1>4, <2>2
  <2>3. QED BY <1>4, <2>1, <2>2 DEF Load
<1>5. CASE TpmReadEkPub(h) \/ TpmCreateSrk(h) \/ TpmCreateAk(h)
  BY <1>4, <1>5 DEF TpmReadEkPub, TpmCreateSrk, TpmCreateAk
<1>6. CASE TpmReadEkCert(h) \/ TpmReadPublic(h)
  BY <1>2, <1>3, <1>6 DEF TpmReadEkCert, TpmReadPublic
<1>7. CASE PostEnroll(h) \/ PostActivate(h) \/ PostAttest(h)
  BY <1>2, <1>7 DEF PostEnroll, PostActivate, PostAttest
<1>8. CASE EnrollChallenged(h)
  <2>1. /\ Goto(h, "session") /\ UNCHANGED tpmVars /\ pc[h] = "enrolling"
        /\ Reply(h, "enroll", "challenge")
    BY <1>8 DEF EnrollChallenged
  <2>2. Owed(h)
    BY <2>1 DEF Owed, Reply, Challenged
  <2>3. QED BY <1>0, <2>1, <2>2, GotoLeaks DEF tpmVars, Session
<1>9. CASE EnrollAccepted(h) \/ EnrollRefused(h) \/ ActivateReplied(h)
           \/ AttestReplied(h) \/ HttpTimeout(h)
  BY <1>3, <1>9 DEF EnrollAccepted, EnrollRefused, ActivateReplied, AttestReplied,
                    HttpTimeout
<1>10. CASE EnrollPartial(h)
  BY <1>0, <1>10, FinishLeaks DEF EnrollPartial
<1>11. CASE TpmStartPolicySession(h)
  <2>1. \A g \in Hosts \ {h} : Session(g)' => Session(g)
    BY <1>11 DEF TpmStartPolicySession, Session
  <2>2. PICK s \in {"policy", "unactivated"} : Goto(h, s)
    BY <1>11 DEF TpmStartPolicySession
  <2>3. QED BY <1>0, <1>11, <2>1, <2>2, GotoLeaks DEF TpmStartPolicySession
<1>12. CASE TpmPolicySecret(h)
  BY <1>1, <1>12 DEF TpmPolicySecret, Session
<1>13. CASE TpmActivateCredential(h)
  BY <1>2, <1>13 DEF TpmActivateCredential
<1>14. CASE TpmQuote(h)
  BY <1>2, <1>3, <1>14 DEF TpmQuote
<1>15. CASE TpmPcrRead(h)
  BY <1>2, <1>15 DEF TpmPcrRead, AfterPcr
<1>16. QED
  BY <1>5, <1>6, <1>7, <1>8, <1>9, <1>10, <1>11, <1>12, <1>13, <1>14, <1>15
  DEF Step, Enrolling, Attesting

\* Requests open the TPM if nobody has it; the call of one has no challenge yet.
LEMMA RequestLeaks ==
  ASSUME TypeInv, LeakInv, Numbered', UNCHANGED managed, NEW h \in Hosts, Request(h)
  PROVE  LeakInv'
<1>0. /\ UNCHANGED replies /\ UNCHANGED Challenged /\ (Fault \/ NoFault)
      /\ \A g \in Hosts \ {h} : pc'[g] = pc[g] /\ id'[g] = id[g]
  BY HostSteps DEF Challenged
<1>1. pc[h] = "idle" /\ UNCHANGED tpmVars
  BY DEF Request, HandleIncomplete, HandleEnroll, RootHeraldEnroll, HandleAttest,
         RootHeraldAttest, HandleStatus, RootHeraldGetStatus, Open
<1>2. \/ pc'[h] = "idle"
      \/ CanOpen /\ id'[h] = calls + 1 /\ pc'[h] \in {"ekCert", "srk"}
  BY <1>1 DEF Request, HandleIncomplete, HandleEnroll, RootHeraldEnroll, HandleAttest,
              RootHeraldAttest, HandleStatus, RootHeraldGetStatus, Open, Answer, Finish,
              TypeInv, DriverTypeOK
<1>3. \A g \in Hosts : Session(g)' <=> Session(g)
  BY <1>1 DEF tpmVars, Session
<1>4. ~Session(h)
  BY <1>1 DEF TypeInv, ObjectsScoped, Session
<1>5. \A c \in Challenged : c.ak # calls + 1
  <2>1. \A c \in Challenged : c.ak \in Nat /\ c.ak <= calls
    BY DEF Challenged, LeakInv, Numbered, TypeInv, DriverTypeOK, Answers, Keys
  <2>2. QED BY <2>1, DriverConstants DEF TypeInv, DriverTypeOK
<1>6. ~Owed(h)'
  BY <1>0, <1>2, <1>5 DEF Owed, BeforeSession
<1>7. LeaksBounded'
  <2>1. faults' \in Nat /\ faults <= faults'
    BY <1>0, LeakNumbers, DriverConstants DEF Fault, NoFault
  <2>2. QED BY <1>0, <1>1, <2>1, LeakNumbers DEF LeakInv, LeaksBounded, tpmVars
<1>8. QED BY <1>0, <1>1, <1>2, <1>3, <1>4, <1>6, <1>7, LeakFrame DEF tpmVars

\* A challenge is one more that a session may be lost for; other answers are none.
LEMMA ServeLeaks ==
  ASSUME TypeInv, LeakInv, Numbered', UNCHANGED managed, NEW m \in posted, Serve(m)
  PROVE  LeakInv'
<1>1. PICK a : /\ Respond(m, a)
               /\ a = "challenge" => m.kind = "enroll"
  BY DEF Serve, ServerEnroll, ServerActivate, ServerAttest
<1>2. faults' \in Nat /\ faults <= faults'
  BY LeakNumbers, DriverConstants
     DEF Serve, ServerEnroll, ServerActivate, ServerAttest, Fault, NoFault
<1> DEFINE r == [kind |-> m.kind, ak |-> m.ak, answer |-> a]
<1>a. r.kind = m.kind /\ r.ak = m.ak /\ r.answer = a
  OBVIOUS
<1> HIDE DEF r
<1>3. /\ replies' = replies \cup {r} /\ r \notin replies
      /\ UNCHANGED <<pc, id, tpmVars>>
  BY <1>1, <1>a DEF Respond, Unanswered, r
<1>4. IsFiniteSet(replies')
  BY <1>3, FS_AddElement DEF LeakInv
<1>5. CASE a = "challenge"
  <2>1. Challenged' = Challenged \cup {r} /\ r \notin Challenged
    BY <1>1, <1>3, <1>5, <1>a DEF Challenged
  <2>2. Cardinality(Challenged') = Cardinality(Challenged) + 1
    BY <2>1, LeakNumbers, FS_AddElement
  <2>3. leaked["session"] < Cardinality(Challenged')
    BY <2>2, LeakNumbers DEF LeakInv, LeaksBounded
  <2>4. LeaksBounded'
    BY <1>2, <1>3, <2>2, <2>3, LeakNumbers DEF LeakInv, LeaksBounded, tpmVars
  <2>5. QED BY <1>3, <1>4, <2>3, <2>4 DEF LeakInv, tpmVars
<1>6. CASE a # "challenge"
  <2>1. UNCHANGED Challenged
    BY <1>3, <1>6, <1>a DEF Challenged
  <2>2. LeaksBounded'
    BY <1>2, <1>3, <2>1, LeakNumbers DEF LeakInv, LeaksBounded, tpmVars
  <2>3. \A h \in Hosts : (Owed(h)' <=> Owed(h)) /\ (Session(h)' <=> Session(h))
    BY <1>3, <2>1 DEF Owed, Session, tpmVars
  <2>4. QED BY <1>3, <1>4, <2>1, <2>2, <2>3 DEF LeakInv, tpmVars
<1>7. QED BY <1>5, <1>6

\* Every step keeps the account.
LEMMA LeakStep == TypeInv /\ TypeInv' /\ LeakInv /\ [Next]_vars => LeakInv'
<1> SUFFICES ASSUME TypeInv, TypeInv', LeakInv, [Next]_vars PROVE LeakInv'
  OBVIOUS
<1>0. Numbered' BY NumberStep DEF LeakInv
<1>1. ASSUME UNCHANGED <<managed, pc, id, replies, tpmVars, faults>> PROVE LeakInv'
  BY <1>0, <1>1 DEF LeakInv, LeaksBounded, Owed, Session, Challenged, tpmVars
<1>2. ASSUME NEW h \in Hosts, Request(h) \/ Step(h) \/ Kill(h), UNCHANGED managed
      PROVE  LeakInv'
  BY <1>0, <1>2, RequestLeaks, CallLeaks, KillLeaks
<1>3. CASE Measure /\ UNCHANGED managed
  BY <1>1, <1>3 DEF Measure, netVars
<1>4. ASSUME NEW m \in posted, Serve(m), UNCHANGED managed PROVE LeakInv'
  BY <1>0, <1>4, ServeLeaks
<1>5. CASE UNCHANGED vars
  BY <1>1, <1>5 DEF vars, netVars
<1>6. QED BY <1>2, <1>3, <1>4, <1>5 DEF Next

\* On a bare TPM only killed hosts cost keys, three each at most, and only
\* challenges cost sessions, one each at most.
THEOREM LeaksAlwaysBounded == Spec => []LeaksBounded
<1>1. Init => LeakInv
  <2>1. IsFiniteSet({}) /\ Cardinality({}) = 0
    BY FS_EmptySet
  <2>2. ASSUME Init PROVE /\ Challenged = {} /\ replies = {} /\ posted = {}
                          /\ \A h \in Hosts : id[h] <= calls /\ ~Owed(h) /\ ~Session(h)
    BY <2>2, DriverConstants
       DEF Init, Challenged, Owed, Session, BeforeSession, NoKey
  <2>3. QED BY <2>1, <2>2 DEF Init, LeakInv, LeaksBounded, Numbered, Kinds
<1>2. LeakInv => LeaksBounded
  BY DEF LeakInv
<1>3. QED BY <1>1, <1>2, LeakStep, TypeInvariant, PTL DEF Spec
=============================================================================
