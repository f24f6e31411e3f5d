-------------------------- MODULE EnrollmentProofs --------------------------
(***************************************************************************)
(* Theorems about the enrollment handshake, for every set of threads,      *)
(* handles and processes and every bound.                                  *)
(***************************************************************************)
EXTENDS EnrollmentProperties, FiniteSetTheorems, TLAPS

\* TypeOK is not inductive by itself: a step takes its provider and its challenge
\* from the thread, and the secrets of the challenges are counted.
ActiveCalls ==
  \A t \in Threads : /\ pc[t] # "idle" => this[t] \in Ids
                     /\ pc[t] \in CompleteSteps => arg[t] \in challenges
TypeInv == TypeOK /\ ActiveCalls /\ IsFiniteSet(challenges)

CallTypeOK ==
  /\ pc \in [Threads -> {"idle"} \cup BeginSteps \cup CompleteSteps]
  /\ this \in [Threads -> Ids \cup {NoProvider}]
  /\ arg \in [Threads -> Challenge \cup {Malformed}]
  /\ ret \in [Threads -> Status]
  /\ ActiveCalls

-----------------------------------------------------------------------------
(* Lemmas on the operators the actions are built from. *)

\* Every code the enrollment calls return maps to a status of the public ABI.
LEMMA StatusMapped ==
  ASSUME NEW r PROVE MapRootHeraldStatus(r) \in Status
BY DEF MapRootHeraldStatus, Status

\* A return leaves the thread idle, with no provider and a public status.
LEMMA ReturnType ==
  ASSUME TypeInv, NEW t \in Threads, NEW r, Return(t, r), challenges \subseteq challenges'
  PROVE  CallTypeOK'
BY StatusMapped DEF Return, CompleteSteps, TypeInv, TypeOK, ActiveCalls, CallTypeOK

\* A step within a call, the provider the same or dereferenced afresh.
LEMMA GotoType ==
  ASSUME TypeInv, NEW t \in Threads, NEW s \in BeginSteps \cup CompleteSteps,
         Goto(t, s), challenges \subseteq challenges',
         NEW i \in Ids, this' = [this EXCEPT ![t] = i],
         s \in CompleteSteps => pc[t] \in CompleteSteps
  PROVE  CallTypeOK'
BY DEF Goto, TypeInv, TypeOK, ActiveCalls, CallTypeOK

\* A thread that goes on with the provider it has keeps the types of the call.
LEMMA GotoSameType ==
  ASSUME TypeInv, NEW t \in Threads, NEW s \in BeginSteps \cup CompleteSteps,
         Goto(t, s), pc[t] # "idle", UNCHANGED this, challenges \subseteq challenges',
         s \in CompleteSteps => pc[t] \in CompleteSteps
  PROVE  CallTypeOK'
BY DEF Goto, TypeInv, TypeOK, ActiveCalls, CallTypeOK

\* The end of some processes keeps the types of all that it resets.
LEMMA ExitType ==
  ASSUME TypeInv, NEW S, Exit(S), challenges \subseteq challenges'
  PROVE  /\ CallTypeOK'
         /\ mock' \in [Handles -> BOOLEAN]
         /\ inflight' \in [Procs -> Ids \cup {NoProvider}]
         /\ loaded' \in SUBSET (Ids \X Objects)
BY DEF Exit, TypeInv, TypeOK, Status, CompleteSteps, ActiveCalls, CallTypeOK

\* The fault counter stays within its bound.
LEMMA FaultType ==
  ASSUME TypeInv, Fault \/ NoFault PROVE faults' \in 0..MaxFaults
BY ConstantsAssumption DEF Fault, NoFault, TypeInv, TypeOK

\* A thread calls on a handle, in a process.
LEMMA ProcType == ASSUME NEW t \in Threads PROVE Proc(t) \in Procs /\ HandleOf[t] \in Handles
BY ConstantsAssumption DEF Proc

\* A reset empties the global of the thread's process.
LEMMA ResetType ==
  ASSUME TypeInv, NEW t \in Threads, ResetGlobal(t)
  PROVE  /\ inflight' \in [Procs -> Ids \cup {NoProvider}]
         /\ loaded' \in SUBSET (Ids \X Objects)
BY ProcType DEF ResetGlobal, Destroyed, TypeInv, TypeOK

-----------------------------------------------------------------------------
(* Type correctness. *)

\* The entries of the calls keep the types.
LEMMA CallType ==
  ASSUME TypeInv, NEW t \in Threads, Call(t) PROVE TypeInv'
<1> USE ProcType, ReturnType, FaultType
<1> USE DEF TypeInv, TypeOK, CallTypeOK
<1>1. CASE BadArguments(t)      BY <1>1 DEF BadArguments, tpmVars, relayVars
<1>2. CASE EnrollMocked(t)      BY <1>2 DEF EnrollMocked, tpmVars, relayVars
<1>3. ASSUME NEW on \in BOOLEAN, SetMockTpm(t, on) PROVE TypeInv'
  BY <1>3 DEF SetMockTpm, callVars, tpmVars, relayVars, ActiveCalls
<1>4. CASE BeginUnelevated(t)   BY <1>4 DEF BeginUnelevated, tpmVars, relayVars
<1>5. CASE EnrollBegin(t)
  <2>1. nextId \in Ids /\ nextId' \in 1..(MaxBegins + 1)
    BY <1>5, ConstantsAssumption DEF EnrollBegin, Ids
  <2>2. this' = [this EXCEPT ![t] = nextId] /\ Goto(t, "gather") /\ UNCHANGED challenges
    BY <1>5 DEF EnrollBegin, relayVars
  <2>3. CallTypeOK'
    BY <2>1, <2>2 DEF Goto, ActiveCalls, BeginSteps, CompleteSteps
  <2>4. QED BY <1>5, <2>1, <2>2, <2>3 DEF EnrollBegin, tpmVars, relayVars
<1>6. CASE CompleteNoState(t)   BY <1>6 DEF CompleteNoState, tpmVars, relayVars
<1>7. CASE CompleteMalformed(t) BY <1>7 DEF CompleteMalformed, tpmVars, relayVars
<1>8. ASSUME NEW c \in challenges, EnrollComplete(t, c) PROVE TypeInv'
  <2>1. Global(t) \in Ids
    BY <1>8 DEF EnrollComplete, Global
  <2>2. CallTypeOK'
    BY <1>8, <2>1 DEF EnrollComplete, CompleteSteps, ActiveCalls, relayVars
  <2>3. QED BY <1>8, <2>2 DEF EnrollComplete, tpmVars, relayVars
<1>9. QED
  BY <1>1, <1>2, <1>3, <1>4, <1>5, <1>6, <1>7, <1>8 DEF Call

\* The steps inside EnrollBegin keep the types.
LEMMA BeginStepType ==
  ASSUME TypeInv, NEW t \in Threads,
         GatherEk(t) \/ CreateEk(t) \/ CreateAndLoadAk(t) \/ HoldProvider(t)
  PROVE  TypeInv'
<1> USE ProcType, ReturnType, GotoSameType, FaultType DEF CompleteSteps
<1>0. this[t] \in Ids
  BY DEF GatherEk, CreateEk, CreateAndLoadAk, HoldProvider, TypeInv, ActiveCalls
<1> USE DEF TypeInv, TypeOK, CallTypeOK
<1>1. CASE GatherEk(t) BY <1>1 DEF GatherEk, BeginSteps, tpmVars, relayVars
<1>2. CASE CreateEk(t)
  BY <1>0, <1>2 DEF CreateEk, Destroyed, BeginSteps, Objects, relayVars
<1>3. CASE CreateAndLoadAk(t)
  BY <1>0, <1>3 DEF CreateAndLoadAk, Destroyed, BeginSteps, Objects, relayVars
<1>4. CASE HoldProvider(t)
  <2>1. CallTypeOK' /\ faults' \in 0..MaxFaults
    BY <1>4 DEF HoldProvider
  <2>2. /\ inflight' \in [Procs -> Ids \cup {NoProvider}]
        /\ loaded' \in SUBSET (Ids \X Objects)
        /\ enrollBodies' \in SUBSET EnrollBody
    BY <1>0, <1>4 DEF HoldProvider, Destroyed, EnrollBody
  <2>3. QED BY <1>4, <2>1, <2>2 DEF HoldProvider
<1>5. QED BY <1>1, <1>2, <1>3, <1>4

\* The steps inside EnrollComplete keep the types.
LEMMA CompleteStepType ==
  ASSUME TypeInv, NEW t \in Threads,
         \/ StartAuthSession(t) \/ ActivateCredential(t) \/ RejectChallenge(t)
         \/ ProbeSlot(t) \/ ClearSlot(t) \/ EvictAk(t) \/ PersistFailed(t)
         \/ EmitActivation(t)
  PROVE  TypeInv'
<1> USE ProcType, FaultType
<1>0. this[t] \in Ids /\ Global(t) \in Ids \cup {NoProvider}
  BY DEF StartAuthSession, ActivateCredential, RejectChallenge, ProbeSlot, ClearSlot,
         EvictAk, PersistFailed, EmitActivation, TypeInv, TypeOK, ActiveCalls, Global
<1> USE DEF TypeInv, TypeOK, CallTypeOK
<1>1. CASE StartAuthSession(t)
  <2>1. Global(t) \in Ids /\ this' = [this EXCEPT ![t] = Global(t)]
    BY <1>0, <1>1 DEF StartAuthSession, Deref
  <2>2. CallTypeOK'
    BY <1>1, <2>1, GotoType DEF StartAuthSession, CompleteSteps, relayVars
  <2>3. loaded' \in SUBSET (Ids \X Objects) /\ faults' \in 0..MaxFaults
    BY <1>1, <2>1 DEF StartAuthSession, Objects
  <2>4. QED BY <1>1, <2>2, <2>3 DEF StartAuthSession, relayVars
<1>2. CASE ActivateCredential(t)
  BY <1>2, GotoSameType DEF ActivateCredential, CompleteSteps, relayVars
<1>3. CASE RejectChallenge(t)
  BY <1>3, ResetType, ReturnType DEF RejectChallenge, relayVars
<1>4. CASE ProbeSlot(t)
  <2>1. Global(t) \in Ids /\ this' = [this EXCEPT ![t] = Global(t)]
    BY <1>0, <1>4 DEF ProbeSlot, Deref
  <2>2. CallTypeOK'
    BY <1>4, <2>1, GotoType DEF ProbeSlot, CompleteSteps, relayVars
  <2>3. QED BY <1>4, <2>2 DEF ProbeSlot, relayVars, tpmVars
<1>5. CASE ClearSlot(t)
  BY <1>5, GotoSameType DEF ClearSlot, CompleteSteps, relayVars
<1>6. CASE EvictAk(t)
  BY <1>6, GotoSameType DEF EvictAk, CompleteSteps, relayVars
<1>7. CASE PersistFailed(t)
  BY <1>7, ResetType, ReturnType DEF PersistFailed, relayVars
<1>8. CASE EmitActivation(t)
  <2> USE <1>8 DEF EmitActivation, EmitBody
  <2>1. CallTypeOK' /\ faults' \in 0..MaxFaults
    BY ReturnType
  <2>2. arg[t].secret \in 1..MaxSecrets
    BY DEF ActiveCalls, CompleteSteps, Challenge
  <2>3. activateBodies' \in SUBSET ActivateBody
    BY <1>0, <2>2 DEF ActivateBody
  <2>4. QED BY <2>1, <2>3, ResetType
<1>9. QED BY <1>1, <1>2, <1>3, <1>4, <1>5, <1>6, <1>7, <1>8

\* The environment keeps the types.
LEMMA EnvironmentType ==
  ASSUME TypeInv,
         \/ \E t \in Threads : UseAfterReset(t)
         \/ \E p \in Procs : Crash(p)
         \/ TpmClear
         \/ Server
  PROVE  TypeInv'
<1> USE DEF TypeInv, TypeOK, CallTypeOK
<1>1. ASSUME NEW t \in Threads, UseAfterReset(t) PROVE TypeInv'
  BY <1>1, ExitType DEF UseAfterReset, relayVars
<1>2. ASSUME NEW p \in Procs, Crash(p) PROVE TypeInv'
  BY <1>2, ExitType, FaultType DEF Crash, relayVars
<1>3. CASE TpmClear
  BY <1>3, ExitType, ConstantsAssumption DEF TpmClear, relayVars, Keys
<1>4. ASSUME NEW m \in enrollBodies, ServerEnroll(m) PROVE TypeInv'
  <2> DEFINE s == Cardinality(challenges) + 1
  <2>1. s \in 1..MaxSecrets /\ m.ak \in Keys
    BY <1>4, FS_CardinalityType, ConstantsAssumption DEF ServerEnroll, EnrollBody
  <2>2. challenges' = challenges \cup {[ak |-> m.ak, secret |-> s]}
    BY <1>4 DEF ServerEnroll
  <2> HIDE DEF s
  <2>3. challenges' \in SUBSET Challenge /\ IsFiniteSet(challenges')
    <3>1. [ak |-> m.ak, secret |-> s] \in Challenge
      BY <2>1 DEF Challenge
    <3>2. IsFiniteSet(challenges \cup {[ak |-> m.ak, secret |-> s]})
      BY FS_AddElement
    <3>3. QED BY <2>2, <3>1, <3>2
  <2>4. ActiveCalls'
    <3>1. UNCHANGED <<pc, this, arg>> /\ challenges \subseteq challenges'
      BY <1>4, <2>2 DEF ServerEnroll, callVars
    <3>2. QED BY <3>1 DEF ActiveCalls
  <2>5. QED
    BY <1>4, <2>3, <2>4 DEF ServerEnroll, callVars, tpmVars
<1>5. ASSUME NEW m \in activateBodies, ServerActivate(m) PROVE TypeInv'
  BY <1>5 DEF ServerActivate, callVars, tpmVars, Challenge, ActiveCalls
<1>6. QED BY <1>1, <1>2, <1>3, <1>4, <1>5 DEF Server

\* Every step keeps the type invariant.
LEMMA TypeStep == TypeInv /\ [Next]_vars => TypeInv'
<1> SUFFICES ASSUME TypeInv, [Next]_vars PROVE TypeInv'
  OBVIOUS
<1>1. CASE UNCHANGED vars
  BY <1>1 DEF vars, callVars, tpmVars, relayVars, TypeInv, TypeOK, ActiveCalls
<1>2. ASSUME NEW t \in Threads, Call(t) \/ Step(t) PROVE TypeInv'
  BY <1>2, CallType, BeginStepType, CompleteStepType, EnvironmentType DEF Step
<1>3. CASE (\E p \in Procs : Crash(p)) \/ TpmClear \/ Server
  BY <1>3, EnvironmentType
<1>4. QED BY <1>1, <1>2, <1>3 DEF Next

\* It holds initially.
LEMMA TypeInit == Init => TypeInv
BY ConstantsAssumption, FS_EmptySet
   DEF Init, TypeInv, TypeOK, ActiveCalls, CompleteSteps, Status, Keys

\* The strengthening itself, for the theorems below.
LEMMA TypeInvariant == Spec => []TypeInv
BY TypeInit, TypeStep, PTL DEF Spec

\* The variables keep their types; in particular no call returns an internal
\* code, and no body or challenge is ever ill-formed.
THEOREM TypeCorrect == Spec => []TypeOK
<1>1. TypeInv => TypeOK
  BY DEF TypeInv
<1>2. QED BY <1>1, TypeInvariant, PTL

-----------------------------------------------------------------------------
(* The server enrolls only an AK that was persistent on the device. *)

\* A secret names the one challenge, hence the one AK, it was sealed for.
SecretsNameAks ==
  \A c, d \in challenges : /\ c.secret <= Cardinality(challenges)
                           /\ c.secret = d.secret => c = d

\* From the TPM's yielding the secret on, the challenge is known to be sealed to
\* the AK of the current seed, which is the one EvictControl makes persistent.
PersistsTheActivatedAk ==
  \A t \in Threads :
    /\ pc[t] \in {"probe", "clear", "evict"} => arg[t].ak = seed
    /\ pc[t] = "emit" => arg[t].ak \in persisted

\* A released secret is that of a challenge whose AK has been persistent.
ReleasedAkWasPersisted ==
  \A b \in activateBodies :
    \E c \in challenges : c.secret = b.secret /\ c.ak \in persisted

PersistInv ==
  /\ SecretsNameAks
  /\ PersistsTheActivatedAk
  /\ ReleasedAkWasPersisted
  /\ EnrolledAkWasPersisted

\* What a thread does with the relay's messages and the slot unchanged keeps the
\* invariant, unless it moves on to the persisting of the AK.
LEMMA PersistFrame ==
  ASSUME PersistInv, UNCHANGED <<challenges, activateBodies, serverAk, seed>>,
         persisted \subseteq persisted',
         \A t \in Threads :
           pc'[t] \in {"probe", "clear", "evict", "emit"}
             => pc'[t] = pc[t] /\ arg'[t] = arg[t]
  PROVE  PersistInv'
BY DEF PersistInv, SecretsNameAks, PersistsTheActivatedAk, ReleasedAkWasPersisted,
       EnrolledAkWasPersisted

\* Entries of calls and the steps of EnrollBegin are none of the above.
LEMMA PersistCall ==
  ASSUME TypeInv, PersistInv, NEW t \in Threads,
         \/ Call(t) \/ GatherEk(t) \/ CreateEk(t) \/ CreateAndLoadAk(t)
  PROVE  PersistInv'
<1> USE PersistFrame DEF TypeInv, TypeOK, tpmVars, relayVars
<1>1. CASE BadArguments(t)      BY <1>1 DEF BadArguments, Return
<1>2. CASE EnrollMocked(t)      BY <1>2 DEF EnrollMocked, Return
<1>3. ASSUME NEW on \in BOOLEAN, SetMockTpm(t, on) PROVE PersistInv'
  BY <1>3 DEF SetMockTpm, callVars
<1>4. CASE BeginUnelevated(t)   BY <1>4 DEF BeginUnelevated, Return
<1>5. CASE EnrollBegin(t)       BY <1>5 DEF EnrollBegin, Goto
<1>6. CASE CompleteNoState(t)   BY <1>6 DEF CompleteNoState, Return
<1>7. CASE CompleteMalformed(t) BY <1>7 DEF CompleteMalformed, Return
<1>8. ASSUME NEW c \in challenges, EnrollComplete(t, c) PROVE PersistInv'
  BY <1>8 DEF EnrollComplete
<1>9. CASE GatherEk(t)          BY <1>9 DEF GatherEk, Goto, Return
<1>10. CASE CreateEk(t)         BY <1>10 DEF CreateEk, Goto, Return
<1>11. CASE CreateAndLoadAk(t)  BY <1>11 DEF CreateAndLoadAk, Goto, Return
<1>12. QED
  BY <1>1, <1>2, <1>3, <1>4, <1>5, <1>6, <1>7, <1>8, <1>9, <1>10, <1>11 DEF Call

\* The steps that do not persist or release anything.
LEMMA PersistOther ==
  ASSUME TypeInv, PersistInv, NEW t \in Threads,
         \/ HoldProvider(t) \/ StartAuthSession(t) \/ RejectChallenge(t)
         \/ PersistFailed(t) \/ UseAfterReset(t)
  PROVE  PersistInv'
<1> USE PersistFrame DEF TypeInv, TypeOK, relayVars
<1>1. CASE HoldProvider(t)     BY <1>1 DEF HoldProvider, Return
<1>2. CASE StartAuthSession(t) BY <1>2 DEF StartAuthSession, Goto
<1>3. CASE RejectChallenge(t)  BY <1>3 DEF RejectChallenge, Return
<1>4. CASE PersistFailed(t)    BY <1>4 DEF PersistFailed, Return
<1>5. CASE UseAfterReset(t)    BY <1>5 DEF UseAfterReset, Exit
<1>6. QED BY <1>1, <1>2, <1>3, <1>4, <1>5

\* The steps from the TPM's yielding the secret to its release.
LEMMA PersistRelease ==
  ASSUME TypeInv, PersistInv, NEW t \in Threads,
         \/ ActivateCredential(t) \/ ProbeSlot(t) \/ ClearSlot(t) \/ EvictAk(t)
         \/ EmitActivation(t)
  PROVE  PersistInv'
<1> USE DEF TypeInv, TypeOK, relayVars, tpmVars
<1>1. CASE ActivateCredential(t)
  BY <1>1 DEF ActivateCredential, Goto, PersistInv, SecretsNameAks,
              PersistsTheActivatedAk, ReleasedAkWasPersisted, EnrolledAkWasPersisted
<1>2. CASE ProbeSlot(t)
  BY <1>2 DEF ProbeSlot, Goto, PersistInv, SecretsNameAks,
              PersistsTheActivatedAk, ReleasedAkWasPersisted, EnrolledAkWasPersisted
<1>3. CASE ClearSlot(t)
  BY <1>3 DEF ClearSlot, Goto, PersistInv, SecretsNameAks,
              PersistsTheActivatedAk, ReleasedAkWasPersisted, EnrolledAkWasPersisted
<1>4. CASE EvictAk(t)
  <2>1. /\ persisted \subseteq persisted'
        /\ UNCHANGED <<arg, challenges, activateBodies, serverAk, seed>>
    BY <1>4 DEF EvictAk, Goto
  <2>2. SecretsNameAks' /\ ReleasedAkWasPersisted' /\ EnrolledAkWasPersisted'
    BY <2>1 DEF PersistInv, SecretsNameAks, ReleasedAkWasPersisted, EnrolledAkWasPersisted
  <2>3. \/ pc' = [pc EXCEPT ![t] = "emit"] /\ arg[t].ak \in persisted'
        \/ pc' = [pc EXCEPT ![t] = "unpersisted"]
    BY <1>4 DEF EvictAk, Goto, PersistInv, PersistsTheActivatedAk
  <2>4. PersistsTheActivatedAk'
    BY <2>1, <2>3 DEF PersistInv, PersistsTheActivatedAk
  <2>5. QED BY <2>2, <2>4 DEF PersistInv
<1>5. CASE EmitActivation(t)
  <2>1. arg[t] \in challenges /\ arg[t].ak \in persisted
    BY <1>5 DEF EmitActivation, ActiveCalls, CompleteSteps, PersistInv, PersistsTheActivatedAk
  <2>2. /\ UNCHANGED <<challenges, serverAk, seed, persisted>>
        /\ \A b \in activateBodies' : b \in activateBodies \/ b.secret = arg[t].secret
        /\ pc' = [pc EXCEPT ![t] = "idle"]
        /\ arg' = [arg EXCEPT ![t] = Malformed]
    BY <1>5 DEF EmitActivation, EmitBody, Return
  <2>3. ReleasedAkWasPersisted'
    BY <2>1, <2>2 DEF PersistInv, ReleasedAkWasPersisted
  <2>4. PersistsTheActivatedAk'
    BY <2>2 DEF PersistInv, PersistsTheActivatedAk
  <2>5. SecretsNameAks' /\ EnrolledAkWasPersisted'
    BY <2>2 DEF PersistInv, SecretsNameAks, EnrolledAkWasPersisted
  <2>6. QED BY <2>3, <2>4, <2>5 DEF PersistInv
<1>6. QED BY <1>1, <1>2, <1>3, <1>4, <1>5

\* Crashes, TPM clears and the server.
LEMMA PersistEnvironment ==
  ASSUME TypeInv, PersistInv, (\E p \in Procs : Crash(p)) \/ TpmClear \/ Server
  PROVE  PersistInv'
<1> USE DEF TypeInv, TypeOK, relayVars, tpmVars
<1>1. ASSUME NEW p \in Procs, Crash(p) PROVE PersistInv'
  BY <1>1, PersistFrame DEF Crash, Exit
<1>2. CASE TpmClear
  <2>1. \A t \in Threads : pc'[t] = "idle"
    BY <1>2, ProcType DEF TpmClear, Exit
  <2>2. QED
    BY <1>2, <2>1 DEF TpmClear, PersistInv, SecretsNameAks, PersistsTheActivatedAk,
                      ReleasedAkWasPersisted, EnrolledAkWasPersisted
<1>3. ASSUME NEW m \in enrollBodies, ServerEnroll(m) PROVE PersistInv'
  <2> DEFINE s == Cardinality(challenges) + 1
             new == [ak |-> m.ak, secret |-> s]
  <2>1. challenges' = challenges \cup {new}
    BY <1>3 DEF ServerEnroll
  <2>2. Cardinality(challenges) \in Nat
    BY FS_CardinalityType
  <2>3. new \notin challenges
    BY <2>2 DEF PersistInv, SecretsNameAks, Challenge
  <2>4. Cardinality(challenges') = s
    BY <2>1, <2>3, FS_AddElement
  <2>5. UNCHANGED <<pc, arg, seed, persisted, activateBodies, serverAk>>
    BY <1>3 DEF ServerEnroll, callVars
  <2>6. \A c \in challenges : c.secret \in Nat /\ c.secret < new.secret
    BY <2>2 DEF PersistInv, SecretsNameAks, Challenge
  <2>7. new.secret = s /\ s \in Nat
    BY <2>2
  <2> HIDE DEF s, new
  <2>8. SecretsNameAks'
    <3>1. \A c \in challenges' : c.secret <= s
      BY <2>1, <2>6, <2>7
    <3>2. \A c, d \in challenges' : c.secret = d.secret => c = d
      BY <2>1, <2>6, <2>7 DEF PersistInv, SecretsNameAks
    <3>3. QED BY <2>4, <3>1, <3>2 DEF SecretsNameAks
  <2>9. ReleasedAkWasPersisted' /\ PersistsTheActivatedAk' /\ EnrolledAkWasPersisted'
    BY <2>1, <2>5 DEF PersistInv, ReleasedAkWasPersisted, PersistsTheActivatedAk,
                      EnrolledAkWasPersisted
  <2>10. QED BY <2>8, <2>9 DEF PersistInv
<1>4. ASSUME NEW m \in activateBodies, ServerActivate(m) PROVE PersistInv'
  <2>1. serverAk' \in persisted
    BY <1>4 DEF ServerActivate, PersistInv, ReleasedAkWasPersisted, SecretsNameAks
  <2>2. UNCHANGED <<pc, arg, seed, persisted, challenges, activateBodies>>
    BY <1>4 DEF ServerActivate, callVars
  <2>3. QED
    BY <2>1, <2>2 DEF PersistInv, SecretsNameAks, PersistsTheActivatedAk,
                      ReleasedAkWasPersisted, EnrolledAkWasPersisted
<1>5. QED BY <1>1, <1>2, <1>3, <1>4 DEF Server

\* The server enrolls no AK that was never persistent on the device, whatever
\* threads and processes race, commands fail, and messages are replayed.
THEOREM OnlyPersistedIsEnrolled == Spec => []EnrolledAkWasPersisted
<1>1. Init => PersistInv
  BY DEF Init, PersistInv, SecretsNameAks, PersistsTheActivatedAk,
         ReleasedAkWasPersisted, EnrolledAkWasPersisted
<1>2. TypeInv /\ PersistInv /\ [Next]_vars => PersistInv'
  <2> SUFFICES ASSUME TypeInv, PersistInv, [Next]_vars PROVE PersistInv'
    OBVIOUS
  <2>1. CASE UNCHANGED vars
    BY <2>1, PersistFrame DEF vars, callVars, tpmVars, relayVars
  <2>2. ASSUME NEW t \in Threads, Call(t) \/ Step(t) PROVE PersistInv'
    BY <2>2, PersistCall, PersistOther, PersistRelease DEF Step
  <2>3. CASE (\E p \in Procs : Crash(p)) \/ TpmClear \/ Server
    BY <2>3, PersistEnvironment
  <2>4. QED BY <2>1, <2>2, <2>3 DEF Next
<1>3. PersistInv => EnrolledAkWasPersisted
  BY DEF PersistInv
<1>4. QED BY <1>1, <1>2, <1>3, TypeInvariant, PTL DEF Spec

-----------------------------------------------------------------------------
(* A process that uses a single handle cannot have its handshake stolen. *)

\* The mutex of a handle admits one call at a time.
OneCallPerHandle ==
  \A t, u \in Threads :
    HandleOf[t] = HandleOf[u] /\ pc[t] # "idle" /\ pc[u] # "idle" => t = u

NotStolenInv == OneCallPerHandle /\ HandshakeNotStolen

\* A step of a call whose thread is the only one active in its process: it may
\* reset or replace the global, provided it then leaves EnrollComplete or goes on
\* with the provider that is now there.
LEMMA NotStolenStep ==
  ASSUME OneHandlePerProcess, TypeInv, NotStolenInv, NEW t \in Threads, pc[t] # "idle",
         \A u \in Threads \ {t} : pc'[u] = pc[u] /\ this'[u] = this[u],
         \A p \in Procs \ {Proc(t)} : inflight'[p] = inflight[p],
         pc'[t] \in CompleteSteps => this'[t] = inflight'[Proc(t)]
  PROVE  NotStolenInv'
<1>1. \A u \in Threads \ {t} : pc[u] # "idle" => Proc(u) # Proc(t)
  BY ProcType DEF OneHandlePerProcess, NotStolenInv, OneCallPerHandle, Proc
<1>2. OneCallPerHandle'
  BY <1>1 DEF NotStolenInv, OneCallPerHandle, Proc
<1>3. HandshakeNotStolen'
  BY <1>1, ProcType DEF NotStolenInv, HandshakeNotStolen, Global, CompleteSteps, Proc
<1>4. QED BY <1>2, <1>3 DEF NotStolenInv

\* Calls start on a handle nobody is in.
LEMMA NotStolenCall ==
  ASSUME TypeInv, NotStolenInv, NEW t \in Threads, Call(t) PROVE NotStolenInv'
<1> USE DEF TypeInv, TypeOK, NotStolenInv, OneCallPerHandle, HandshakeNotStolen,
            Global, CompleteSteps
<1>1. CASE BadArguments(t)      BY <1>1 DEF BadArguments, Return
<1>2. CASE EnrollMocked(t)      BY <1>2 DEF EnrollMocked, Enter, Return
<1>3. ASSUME NEW on \in BOOLEAN, SetMockTpm(t, on) PROVE NotStolenInv'
  BY <1>3 DEF SetMockTpm, callVars
<1>4. CASE BeginUnelevated(t)   BY <1>4 DEF BeginUnelevated, Enter, Return
<1>5. CASE EnrollBegin(t)       BY <1>5 DEF EnrollBegin, Enter, Goto, Locked
<1>6. CASE CompleteNoState(t)   BY <1>6 DEF CompleteNoState, Enter, Return
<1>7. CASE CompleteMalformed(t) BY <1>7 DEF CompleteMalformed, Enter, Return
<1>8. ASSUME NEW c \in challenges, EnrollComplete(t, c) PROVE NotStolenInv'
  BY <1>8 DEF EnrollComplete, Enter, Locked
<1>9. QED
  BY <1>1, <1>2, <1>3, <1>4, <1>5, <1>6, <1>7, <1>8 DEF Call

\* The end of some processes takes their threads and handshakes together.
LEMMA NotStolenExit ==
  ASSUME TypeInv, NotStolenInv, NEW S, Exit(S) PROVE NotStolenInv'
BY ProcType DEF Exit, TypeInv, TypeOK, NotStolenInv, OneCallPerHandle,
                HandshakeNotStolen, Global, CompleteSteps

\* A reset leaves the globals of the other processes alone.
LEMMA ResetFrame ==
  ASSUME TypeInv, NEW t \in Threads, ResetGlobal(t)
  PROVE  \A p \in Procs \ {Proc(t)} : inflight'[p] = inflight[p]
BY DEF ResetGlobal, TypeInv, TypeOK

\* The steps inside a call go on with the provider in flight, or leave the call.
LEMMA NotStolenWithin ==
  ASSUME OneHandlePerProcess, TypeInv, NotStolenInv, NEW t \in Threads, Step(t)
  PROVE  NotStolenInv'
<1> USE NotStolenStep
<1>0. pc[t] \in CompleteSteps => this[t] = inflight[Proc(t)]
  BY DEF NotStolenInv, HandshakeNotStolen, Global
<1> USE DEF TypeInv, TypeOK, CompleteSteps
<1>1. CASE GatherEk(t)           BY <1>1 DEF GatherEk, Goto, Return
<1>2. CASE CreateEk(t)           BY <1>2 DEF CreateEk, Goto, Return
<1>3. CASE CreateAndLoadAk(t)    BY <1>3 DEF CreateAndLoadAk, Goto, Return
<1>4. CASE HoldProvider(t)       BY <1>4 DEF HoldProvider, Return
<1>5. CASE StartAuthSession(t)
  BY <1>5 DEF StartAuthSession, Deref, Global, Goto
<1>6. CASE ActivateCredential(t) BY <1>0, <1>6 DEF ActivateCredential, Goto
<1>7. CASE RejectChallenge(t)    BY <1>7, ResetFrame DEF RejectChallenge, Return
<1>8. CASE ProbeSlot(t)          BY <1>8 DEF ProbeSlot, Deref, Global, Goto
<1>9. CASE ClearSlot(t)          BY <1>0, <1>9 DEF ClearSlot, Goto
<1>10. CASE EvictAk(t)           BY <1>0, <1>10 DEF EvictAk, Goto
<1>11. CASE PersistFailed(t)     BY <1>11, ResetFrame DEF PersistFailed, Return
<1>12. CASE EmitActivation(t)
  BY <1>12, ResetFrame DEF EmitActivation, EmitBody, Return
<1>13. CASE UseAfterReset(t)     BY <1>13, NotStolenExit DEF UseAfterReset
<1>14. QED
  BY <1>1, <1>2, <1>3, <1>4, <1>5, <1>6, <1>7, <1>8, <1>9, <1>10, <1>11, <1>12,
     <1>13 DEF Step

\* Every step keeps the two, if each process uses a single handle.
LEMMA NotStolenNext ==
  ASSUME OneHandlePerProcess, TypeInv, NotStolenInv, [Next]_vars PROVE NotStolenInv'
<1> USE DEF NotStolenInv, OneCallPerHandle, HandshakeNotStolen, Global
<1>1. CASE UNCHANGED vars
  BY <1>1 DEF vars, callVars
<1>2. ASSUME NEW t \in Threads, Call(t) \/ Step(t) PROVE NotStolenInv'
  BY <1>2, NotStolenCall, NotStolenWithin
<1>3. CASE (\E p \in Procs : Crash(p)) \/ TpmClear
  BY <1>3, NotStolenExit DEF Crash, TpmClear
<1>4. CASE Server
  BY <1>4 DEF Server, ServerEnroll, ServerActivate, callVars
<1>5. QED BY <1>1, <1>2, <1>3, <1>4 DEF Next

\* They hold initially.
LEMMA NotStolenInit == Init => NotStolenInv
BY DEF Init, NotStolenInv, OneCallPerHandle, HandshakeNotStolen, CompleteSteps

\* In a process that uses a single handle, however many threads share it, no call
\* replaces or destroys the provider another thread's EnrollComplete works on.
THEOREM HandshakesNotStolen ==
  ASSUME OneHandlePerProcess PROVE Spec => []HandshakeNotStolen
<1>1. TypeInv /\ NotStolenInv /\ [Next]_vars => NotStolenInv'
  BY NotStolenNext
<1>2. NotStolenInv => HandshakeNotStolen
  BY DEF NotStolenInv
<1>3. QED BY <1>1, <1>2, NotStolenInit, TypeInvariant, PTL DEF Spec
=============================================================================
