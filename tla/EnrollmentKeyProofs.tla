------------------------ MODULE EnrollmentKeyProofs ------------------------
(***************************************************************************)
(* Enrollments in processes that use a single handle each: the persistent  *)
(* AK is lost by faults only, what is loaded in the TPM has an owner, and  *)
(* a handshake in flight can be completed.                                 *)
(***************************************************************************)
EXTENDS EnrollmentProofs

\* A call that completes a handshake works on the provider in flight, so nobody
\* uses a provider that another thread destroyed.
LEMMA NobodyUsesAfterReset ==
  ASSUME TypeInv, HandshakeNotStolen, NEW t \in Threads
  PROVE  ~UseAfterReset(t)
BY DEF UseAfterReset, TypeInv, ActiveCalls, HandshakeNotStolen, CompleteSteps, Alive, Ids,
       NoProvider

-----------------------------------------------------------------------------
(* The persistent AK. *)

\* The slot holds the AK of the current seed or nothing, what it holds counts as
\* having been persistent, and no AK of a seed that is still to come does.
KeyInv ==
  /\ slot \in {NoKey, seed}
  /\ slot # NoKey => slot \in persisted
  /\ \A k \in persisted : k <= seed
  /\ AkLostOnlyByFault

\* Steps that leave the slot alone, and in which no thread stops evicting.
LEMMA KeyFrame ==
  ASSUME TypeInv, KeyInv, UNCHANGED <<slot, seed, persisted>>, Fault \/ NoFault,
         \A t \in Threads : pc[t] = "evict" => pc'[t] = "evict"
  PROVE  KeyInv'
BY DEF KeyInv, AkLostOnlyByFault, Fault, NoFault, TypeInv, TypeOK

\* A failure is what the invariant blames.
LEMMA KeyFault ==
  ASSUME TypeInv, KeyInv, Fault, seed' = seed, slot' \in {slot, NoKey, seed},
         persisted \subseteq persisted', persisted' \subseteq persisted \cup {seed},
         slot' \in {slot, NoKey} \/ seed \in persisted'
  PROVE  KeyInv'
BY DEF KeyInv, AkLostOnlyByFault, Fault, TypeInv, TypeOK, Keys

\* Calls start with the slot as it is.
LEMMA KeyCall ==
  ASSUME TypeInv, KeyInv, NEW t \in Threads, Call(t) PROVE KeyInv'
<1> USE KeyFrame DEF TypeInv, TypeOK, NoFault, tpmVars
<1>1. CASE BadArguments(t)      BY <1>1 DEF BadArguments, Return
<1>2. CASE EnrollMocked(t)      BY <1>2 DEF EnrollMocked, Enter, Return
<1>3. ASSUME NEW on \in BOOLEAN, SetMockTpm(t, on) PROVE KeyInv'
  BY <1>3 DEF SetMockTpm, callVars
<1>4. CASE BeginUnelevated(t)   BY <1>4 DEF BeginUnelevated, Enter, Return
<1>5. CASE EnrollBegin(t)       BY <1>5 DEF EnrollBegin, Enter, Goto
<1>6. CASE CompleteNoState(t)   BY <1>6 DEF CompleteNoState, Enter, Return
<1>7. CASE CompleteMalformed(t) BY <1>7 DEF CompleteMalformed, Enter, Return
<1>8. ASSUME NEW c \in challenges, EnrollComplete(t, c) PROVE KeyInv'
  BY <1>8 DEF EnrollComplete, Enter
<1>9. QED
  BY <1>1, <1>2, <1>3, <1>4, <1>5, <1>6, <1>7, <1>8 DEF Call

\* Within a call only EvictControl touches the slot, and without a failure it
\* never leaves it empty.
LEMMA KeyStep ==
  ASSUME TypeInv, HandshakeNotStolen, KeyInv, NEW t \in Threads, Step(t) PROVE KeyInv'
<1>0. ~UseAfterReset(t)
  BY NobodyUsesAfterReset
<1> USE KeyFrame DEF TypeInv, TypeOK
<1>1. CASE GatherEk(t)           BY <1>1 DEF GatherEk, Goto, Return, tpmVars
<1>2. CASE CreateEk(t)           BY <1>2 DEF CreateEk, Goto, Return
<1>3. CASE CreateAndLoadAk(t)    BY <1>3 DEF CreateAndLoadAk, Goto, Return
<1>4. CASE HoldProvider(t)       BY <1>4 DEF HoldProvider, Return
<1>5. CASE StartAuthSession(t)   BY <1>5 DEF StartAuthSession, Goto
<1>6. CASE ActivateCredential(t) BY <1>6 DEF ActivateCredential, Goto
<1>7. CASE RejectChallenge(t)    BY <1>7 DEF RejectChallenge, Return, NoFault
<1>8. CASE ProbeSlot(t)          BY <1>8 DEF ProbeSlot, Goto, tpmVars
<1>9. CASE ClearSlot(t)
  <2>1. CASE NoFault /\ slot # NoKey /\ slot' = NoKey /\ Goto(t, "evict")
    BY <1>9, <2>1 DEF ClearSlot, Goto, KeyInv, AkLostOnlyByFault
  <2>2. CASE NoFault /\ slot = NoKey /\ UNCHANGED slot /\ Goto(t, "unpersisted")
    BY <1>9, <2>2 DEF ClearSlot, Goto
  <2>3. CASE Fault /\ slot' \in {slot, NoKey}
    BY <1>9, <2>3, KeyFault DEF ClearSlot
  <2>4. QED BY <1>9, <2>1, <2>2, <2>3 DEF ClearSlot
<1>10. CASE EvictAk(t)
  <2>1. CASE NoFault /\ slot = NoKey /\ slot' = seed /\ persisted' = persisted \cup {seed}
    BY <1>10, <2>1 DEF EvictAk, KeyInv, AkLostOnlyByFault, Keys
  <2>2. CASE NoFault /\ slot # NoKey /\ UNCHANGED <<slot, persisted>>
    BY <1>10, <2>2 DEF EvictAk, KeyInv, AkLostOnlyByFault
  <2>3. CASE Fault
    BY <1>10, <2>3, KeyFault DEF EvictAk
  <2>4. QED BY <1>10, <2>1, <2>2, <2>3 DEF EvictAk
<1>11. CASE PersistFailed(t)     BY <1>11 DEF PersistFailed, Return, NoFault
<1>12. CASE EmitActivation(t)    BY <1>12 DEF EmitActivation, EmitBody, Return
<1>13. QED
  BY <1>0, <1>1, <1>2, <1>3, <1>4, <1>5, <1>6, <1>7, <1>8, <1>9, <1>10, <1>11, <1>12
  DEF Step

\* Every step keeps the invariant.
LEMMA KeyNext ==
  ASSUME TypeInv, HandshakeNotStolen, KeyInv, [Next]_vars PROVE KeyInv'
<1>1. CASE UNCHANGED vars
  BY <1>1, KeyFrame DEF vars, callVars, tpmVars, NoFault
<1>2. ASSUME NEW t \in Threads, Call(t) \/ Step(t) PROVE KeyInv'
  BY <1>2, KeyCall, KeyStep
<1>3. ASSUME NEW p \in Procs, Crash(p) PROVE KeyInv'
  BY <1>3, KeyFault DEF Crash
<1>4. CASE TpmClear
  BY <1>4, ConstantsAssumption DEF TpmClear, KeyInv, AkLostOnlyByFault, TypeInv, TypeOK, Keys
<1>5. CASE Server
  BY <1>5, KeyFrame DEF Server, ServerEnroll, ServerActivate, callVars, tpmVars, NoFault
<1>6. QED BY <1>1, <1>2, <1>3, <1>4, <1>5 DEF Next

\* It holds initially.
LEMMA KeyInit == Init => KeyInv
BY DEF Init, KeyInv, AkLostOnlyByFault

\* A process that uses a single handle loses the AK it persisted by a failure, a
\* crash or a TPM clear only, whatever other processes enroll meanwhile.
THEOREM AkKept ==
  ASSUME OneHandlePerProcess PROVE Spec => []AkLostOnlyByFault
<1>1. TypeInv /\ HandshakeNotStolen /\ KeyInv /\ [Next]_vars => KeyInv'
  BY KeyNext
<1>2. KeyInv => AkLostOnlyByFault
  BY DEF KeyInv
<1>3. QED BY <1>1, <1>2, KeyInit, TypeInvariant, HandshakesNotStolen, PTL DEF Spec

-----------------------------------------------------------------------------
(* Who holds a provider, and what is loaded for it. *)

\* A provider that EnrollBegin has yet to create has left no trace.
ProvidersFresh ==
  /\ \A t \in Threads : this[t] < nextId
  /\ \A p \in Procs : inflight[p] < nextId
  /\ \A o \in loaded : o[1] < nextId

\* Two threads never work on the same provider, two processes never have the same
\* one in flight, and the one an EnrollBegin is creating is in flight nowhere.
ProvidersApart ==
  /\ \A t \in Threads : pc[t] = "idle" => this[t] = NoProvider
  /\ \A t, u \in Threads : this[t] # NoProvider /\ this[t] = this[u] => t = u
  /\ \A p, q \in Procs : inflight[p] # NoProvider /\ inflight[p] = inflight[q] => p = q
  /\ \A t \in Threads, p \in Procs : pc[t] \in BeginSteps => inflight[p] # this[t]

\* What an EnrollBegin has loaded when it reaches each of its steps.
BeginLoads ==
  \A t \in Threads :
    /\ pc[t] = "gather" => \A o \in loaded : o[1] # this[t]
    /\ pc[t] = "createAk" => <<this[t], "ek">> \in loaded
    /\ pc[t] = "hold" => {this[t]} \X {"ek", "ak"} \subseteq loaded

HeldInv == ProvidersFresh /\ ProvidersApart /\ BeginLoads
ProviderInv == HeldInv /\ TransientsOwned /\ SessionsScoped /\ InFlightCanComplete

-----------------------------------------------------------------------------
(* Each kind of step keeps the invariant. *)

\* Steps that leave threads, providers and loaded objects as they are.
LEMMA ProviderFrame ==
  ASSUME ProviderInv, UNCHANGED <<pc, this, inflight, nextId, loaded, seed>>,
         enrollBodies \subseteq enrollBodies'
  PROVE  ProviderInv'
BY DEF ProviderInv, HeldInv, ProvidersFresh, ProvidersApart, BeginLoads, TransientsOwned,
       SessionsScoped, InFlightCanComplete, Global

\* A call that returns at once leaves its thread as it was.
LEMMA ReturnAtOnce ==
  ASSUME TypeInv, ProviderInv, NEW t \in Threads, NEW r, pc[t] = "idle", Return(t, r)
  PROVE  UNCHANGED <<pc, this>>
BY DEF Return, TypeInv, TypeOK, ProviderInv, HeldInv, ProvidersApart

\* Calls start.
LEMMA ProviderCall ==
  ASSUME OneHandlePerProcess, TypeInv, HandshakeNotStolen, ProviderInv,
         NEW t \in Threads, Call(t)
  PROVE  ProviderInv'
<1> USE ProviderFrame, ReturnAtOnce DEF tpmVars, relayVars
<1>1. CASE BadArguments(t)      BY <1>1 DEF BadArguments
<1>2. CASE EnrollMocked(t)      BY <1>2 DEF EnrollMocked, Enter
<1>3. ASSUME NEW on \in BOOLEAN, SetMockTpm(t, on) PROVE ProviderInv'
  BY <1>3 DEF SetMockTpm, callVars
<1>4. CASE BeginUnelevated(t)   BY <1>4 DEF BeginUnelevated, Enter
<1>5. CASE EnrollBegin(t)
  <2>1. /\ pc[t] = "idle" /\ pc' = [pc EXCEPT ![t] = "gather"]
        /\ this' = [this EXCEPT ![t] = nextId] /\ nextId' = nextId + 1 /\ nextId \in Ids
        /\ UNCHANGED <<inflight, loaded, seed, enrollBodies>>
    BY <1>5 DEF EnrollBegin, Enter, Goto
  <2> USE <2>1 DEF TypeInv, TypeOK, ProviderInv, HeldInv, Ids, BeginSteps, CompleteSteps
  <2>2. ProvidersFresh'  BY DEF ProvidersFresh, NoProvider
  <2>3. ProvidersApart'  BY DEF ProvidersApart, ProvidersFresh
  <2>4. BeginLoads'      BY DEF BeginLoads, ProvidersFresh
  <2>5. TransientsOwned' /\ SessionsScoped'
    BY DEF TransientsOwned, SessionsScoped
  <2>6. InFlightCanComplete' BY DEF InFlightCanComplete
  <2>7. QED BY <2>2, <2>3, <2>4, <2>5, <2>6
<1>6. CASE CompleteNoState(t)   BY <1>6 DEF CompleteNoState, Enter
<1>7. CASE CompleteMalformed(t) BY <1>7 DEF CompleteMalformed, Enter
<1>8. ASSUME NEW c \in challenges, EnrollComplete(t, c) PROVE ProviderInv'
  <2>1. /\ pc[t] = "idle" /\ pc' = [pc EXCEPT ![t] = "session"]
        /\ this' = [this EXCEPT ![t] = Global(t)] /\ Global(t) # NoProvider
        /\ UNCHANGED <<inflight, nextId, loaded, seed, enrollBodies>>
    BY <1>8 DEF EnrollComplete, Enter
  <2>2. \A u \in Threads \ {t} : pc[u] # "idle" => Proc(u) # Proc(t)
    BY <1>8, ProcType DEF EnrollComplete, Enter, Locked, OneHandlePerProcess, Proc
  <2>3. \A u \in Threads \ {t} : this[u] # Global(t)
    <3> SUFFICES ASSUME NEW u \in Threads \ {t}, this[u] = Global(t) PROVE FALSE
      OBVIOUS
    <3>1. pc[u] \in CompleteSteps
      BY <2>1, ProcType DEF TypeInv, TypeOK, ProviderInv, HeldInv, ProvidersApart, Global
    <3>2. Proc(u) = Proc(t)
      BY <2>1, <3>1, ProcType
         DEF HandshakeNotStolen, ProviderInv, HeldInv, ProvidersApart, Global
    <3>3. QED BY <2>2, <3>1, <3>2 DEF CompleteSteps
  <2> USE <2>1, ProcType DEF TypeInv, TypeOK, ProviderInv, HeldInv, BeginSteps, CompleteSteps
  <2>4. ProvidersFresh'  BY DEF ProvidersFresh, Global
  <2>5. ProvidersApart'  BY <2>3 DEF ProvidersApart
  <2>6. BeginLoads'      BY DEF BeginLoads
  <2>7. TransientsOwned' /\ SessionsScoped'
    BY DEF TransientsOwned, SessionsScoped
  <2>8. InFlightCanComplete' BY DEF InFlightCanComplete
  <2>9. QED BY <2>4, <2>5, <2>6, <2>7, <2>8
<1>9. QED
  BY <1>1, <1>2, <1>3, <1>4, <1>5, <1>6, <1>7, <1>8 DEF Call

\* What is loaded for the provider of an EnrollBegin is of no other thread and in
\* flight nowhere, and no session is among it.
LEMMA BeginOwns ==
  ASSUME TypeInv, ProviderInv, NEW t \in Threads, pc[t] \in BeginSteps
  PROVE  /\ this[t] \in Ids
         /\ \A u \in Threads \ {t} : this[u] # this[t]
         /\ \A p \in Procs : inflight[p] # this[t]
         /\ \A o \in loaded : o[1] = this[t] => o[2] # "session"
BY DEF TypeInv, TypeOK, ActiveCalls, BeginSteps, CompleteSteps, Ids, NoProvider,
       ProviderInv, HeldInv, ProvidersApart, SessionsScoped

\* An EnrollBegin goes on, having loaded objects that are not sessions.
LEMMA BeginGoesOn ==
  ASSUME TypeInv, ProviderInv, NEW t \in Threads, NEW s \in BeginSteps,
         pc[t] \in BeginSteps, pc' = [pc EXCEPT ![t] = s],
         UNCHANGED <<this, inflight, nextId, seed, enrollBodies>>,
         loaded \subseteq loaded',
         \A o \in loaded' : o \in loaded \/ o = <<this[t], "ek">> \/ o = <<this[t], "ak">>,
         s # "gather",
         s = "createAk" => <<this[t], "ek">> \in loaded',
         s = "hold" => {this[t]} \X {"ek", "ak"} \subseteq loaded'
  PROVE  ProviderInv'
<1> USE BeginOwns DEF TypeInv, TypeOK, ProviderInv, HeldInv, BeginSteps, CompleteSteps
<1>1. ProvidersFresh'  BY DEF ProvidersFresh
<1>2. ProvidersApart'  BY DEF ProvidersApart
<1>3. BeginLoads'      BY DEF BeginLoads
<1>4. TransientsOwned' BY DEF TransientsOwned
<1>5. SessionsScoped'  BY DEF SessionsScoped
<1>6. InFlightCanComplete' BY DEF InFlightCanComplete
<1>7. QED BY <1>1, <1>2, <1>3, <1>4, <1>5, <1>6

\* An EnrollBegin gives up, and its provider goes.
LEMMA BeginGivesUp ==
  ASSUME TypeInv, ProviderInv, NEW t \in Threads, NEW r,
         pc[t] \in BeginSteps, Return(t, r), loaded' = Destroyed(this[t]),
         UNCHANGED <<inflight, nextId, seed, enrollBodies>>
  PROVE  ProviderInv'
<1>1. /\ pc' = [pc EXCEPT ![t] = "idle"] /\ this' = [this EXCEPT ![t] = NoProvider]
      /\ \A o \in loaded : o \in loaded' <=> o[1] # this[t]
      /\ loaded' \subseteq loaded
  BY DEF Return, Destroyed, OwnedBy, TypeInv, TypeOK
<1> USE <1>1, BeginOwns DEF TypeInv, TypeOK, ProviderInv, HeldInv, BeginSteps, CompleteSteps
<1>2. ProvidersFresh'  BY DEF ProvidersFresh, Ids, NoProvider
<1>3. ProvidersApart'  BY DEF ProvidersApart
<1>4. BeginLoads'      BY DEF BeginLoads, Ids, NoProvider
<1>5. TransientsOwned' BY DEF TransientsOwned
<1>6. SessionsScoped'  BY DEF SessionsScoped
<1>7. InFlightCanComplete' BY DEF InFlightCanComplete
<1>8. QED BY <1>2, <1>3, <1>4, <1>5, <1>6, <1>7

\* An EnrollComplete goes on with the provider in flight, whose objects only it
\* loads and flushes.
LEMMA CompleteGoesOn ==
  ASSUME TypeInv, HandshakeNotStolen, ProviderInv, NEW t \in Threads,
         NEW s \in CompleteSteps, pc[t] \in CompleteSteps,
         pc' = [pc EXCEPT ![t] = s],
         UNCHANGED <<this, inflight, nextId, seed, enrollBodies>>,
         \A o \in loaded : o \in loaded' \/ o[1] = this[t],
         \A o \in loaded' : o \in loaded \/ o[1] = this[t]
  PROVE  ProviderInv'
<1>1. this[t] = inflight[Proc(t)] /\ this[t] \in Ids /\ Proc(t) \in Procs
  BY ProcType DEF HandshakeNotStolen, Global, TypeInv, ActiveCalls, CompleteSteps
<1> USE <1>1 DEF TypeInv, TypeOK, ProviderInv, HeldInv, BeginSteps, CompleteSteps
<1>2. ProvidersFresh'  BY DEF ProvidersFresh
<1>3. ProvidersApart'  BY DEF ProvidersApart
<1>4. BeginLoads'      BY DEF BeginLoads, ProvidersApart
<1>5. TransientsOwned' BY DEF TransientsOwned
<1>6. SessionsScoped'  BY DEF SessionsScoped
<1>7. InFlightCanComplete'
  <2> SUFFICES ASSUME NEW p \in Procs, inflight[p] # NoProvider,
                      \A u \in Threads : Proc(u) = p => pc'[u] \notin CompleteSteps
               PROVE  /\ {inflight[p]} \X {"ek", "ak"} \subseteq loaded'
                      /\ [from |-> inflight[p], ak |-> seed] \in enrollBodies
    BY DEF InFlightCanComplete
  <2>1. p # Proc(t)
    OBVIOUS
  <2>2. inflight[p] # this[t]
    BY <2>1 DEF ProvidersApart
  <2>3. QED BY <2>1, <2>2 DEF InFlightCanComplete
<1>8. QED BY <1>2, <1>3, <1>4, <1>5, <1>6, <1>7

\* An EnrollComplete ends, and the provider in flight goes with it.
LEMMA CompleteEnds ==
  ASSUME TypeInv, HandshakeNotStolen, ProviderInv, NEW t \in Threads, NEW r,
         pc[t] \in CompleteSteps, ResetGlobal(t), Return(t, r),
         UNCHANGED <<nextId, seed, enrollBodies>>
  PROVE  ProviderInv'
<1>1. this[t] = inflight[Proc(t)] /\ this[t] \in Ids /\ Proc(t) \in Procs
  BY ProcType DEF HandshakeNotStolen, Global, TypeInv, ActiveCalls, CompleteSteps
<1>2. /\ pc' = [pc EXCEPT ![t] = "idle"] /\ this' = [this EXCEPT ![t] = NoProvider]
      /\ inflight' = [inflight EXCEPT ![Proc(t)] = NoProvider]
      /\ \A o \in loaded : o \in loaded' <=> o[1] # this[t]
      /\ loaded' \subseteq loaded
  BY <1>1 DEF Return, ResetGlobal, Global, Destroyed, OwnedBy, TypeInv, TypeOK
<1> USE <1>1, <1>2 DEF TypeInv, TypeOK, ProviderInv, HeldInv, BeginSteps, CompleteSteps
<1>3. ProvidersFresh'  BY DEF ProvidersFresh, Ids, NoProvider
<1>4. ProvidersApart'  BY DEF ProvidersApart, ActiveCalls, Ids, NoProvider
<1>5. BeginLoads'      BY DEF BeginLoads, ProvidersApart
<1>6. TransientsOwned' BY DEF TransientsOwned
<1>7. SessionsScoped'  BY DEF SessionsScoped
<1>8. InFlightCanComplete'
  <2> SUFFICES ASSUME NEW p \in Procs, p # Proc(t), inflight[p] # NoProvider,
                      \A u \in Threads : Proc(u) = p => pc'[u] \notin CompleteSteps
               PROVE  /\ {inflight[p]} \X {"ek", "ak"} \subseteq loaded'
                      /\ [from |-> inflight[p], ak |-> seed] \in enrollBodies
    BY DEF InFlightCanComplete
  <2>1. inflight[p] # this[t]
    BY DEF ProvidersApart
  <2>2. QED BY <2>1 DEF InFlightCanComplete
<1>9. QED BY <1>3, <1>4, <1>5, <1>6, <1>7, <1>8

\* An EnrollBegin ends well: its provider is in flight, the one before it gone.
LEMMA BeginEnds ==
  ASSUME TypeInv, HandshakeNotStolen, HandshakeNotStolen', ProviderInv, NEW t \in Threads,
         pc[t] = "hold", Return(t, "OK"),
         enrollBodies' = enrollBodies \cup {[from |-> this[t], ak |-> seed]},
         inflight' = [inflight EXCEPT ![Proc(t)] = this[t]],
         loaded' = Destroyed(Global(t)), UNCHANGED <<nextId, seed>>
  PROVE  ProviderInv'
<1>0. pc[t] \in BeginSteps /\ Proc(t) \in Procs
  BY ProcType DEF BeginSteps
<1> DEFINE old == inflight[Proc(t)]
<1>1. /\ pc' = [pc EXCEPT ![t] = "idle"] /\ this' = [this EXCEPT ![t] = NoProvider]
      /\ \A o \in loaded : o \in loaded' <=> o[1] # old
      /\ loaded' \subseteq loaded
  BY DEF Return, Global, Destroyed, OwnedBy, TypeInv, TypeOK
<1>2. old # this[t]
  BY <1>0, BeginOwns
<1>3. \A u \in Threads : this[u] = old /\ old # NoProvider => pc[u] \in CompleteSteps /\ Proc(u) = Proc(t)
  BY <1>0, ProcType DEF ProviderInv, HeldInv, ProvidersApart, TypeInv, TypeOK, HandshakeNotStolen, Global
<1>4. \A u \in Threads \ {t} : pc[u] \in CompleteSteps => this[u] = inflight'[Proc(u)]
  BY <1>1 DEF HandshakeNotStolen, Global, TypeInv, TypeOK
<1>5. \A u \in Threads : this[u] = old => old = NoProvider
  BY <1>0, <1>2, <1>3, <1>4 DEF BeginSteps, CompleteSteps, TypeInv, TypeOK
<1>6. \A o \in loaded : o[1] # NoProvider
  BY DEF TypeInv, TypeOK, Ids, NoProvider
<1> HIDE DEF old
<1> USE <1>0, <1>1, <1>2, <1>5, <1>6, BeginOwns
    DEF TypeInv, TypeOK, ProviderInv, HeldInv, BeginSteps, CompleteSteps
<1>7. ProvidersFresh'  BY DEF ProvidersFresh, Ids, NoProvider
<1>8. ProvidersApart'  BY DEF ProvidersApart
<1>9. BeginLoads'      BY DEF BeginLoads, ProvidersApart
<1>10. TransientsOwned' BY DEF TransientsOwned, old
<1>11. SessionsScoped'  BY DEF SessionsScoped
<1>12. InFlightCanComplete'
  <2>1. /\ {this[t]} \X {"ek", "ak"} \subseteq loaded'
        /\ [from |-> this[t], ak |-> seed] \in enrollBodies'
    BY DEF BeginLoads
  <2>2. ASSUME NEW p \in Procs, p # Proc(t), inflight[p] # NoProvider,
               \A u \in Threads : Proc(u) = p => pc'[u] \notin CompleteSteps
        PROVE  /\ {inflight[p]} \X {"ek", "ak"} \subseteq loaded'
               /\ [from |-> inflight[p], ak |-> seed] \in enrollBodies'
    <3>1. inflight[p] # old
      BY <2>2 DEF ProvidersApart, old
    <3>2. QED BY <2>2, <3>1 DEF InFlightCanComplete
  <2>3. QED BY <2>1, <2>2 DEF InFlightCanComplete
<1>13. QED BY <1>7, <1>8, <1>9, <1>10, <1>11, <1>12

\* The end of some processes takes their providers and all that was loaded for
\* them, and nothing of the others.
LEMMA ProviderExit ==
  ASSUME TypeInv, HandshakeNotStolen, ProviderInv, NEW S \in SUBSET Procs, Exit(S),
         UNCHANGED <<nextId, enrollBodies>>, S # Procs => UNCHANGED seed
  PROVE  ProviderInv'
<1> DEFINE dead(u) == Proc(u) \in S
           gone == {inflight[p] : p \in S} \cup {this[u] : u \in {v \in Threads : dead(v)}}
<1>1. /\ \A u \in Threads : IF dead(u) THEN pc'[u] = "idle" /\ this'[u] = NoProvider
                                       ELSE pc'[u] = pc[u] /\ this'[u] = this[u]
      /\ \A p \in Procs : inflight'[p] = IF p \in S THEN NoProvider ELSE inflight[p]
      /\ loaded' \subseteq loaded
      /\ \A o \in loaded : o \in loaded' <=> o[1] \notin gone
  BY DEF Exit, TypeInv, TypeOK
<1>2. \A u \in Threads : Proc(u) \in Procs /\ (pc[u] \in CompleteSteps => this[u] = inflight[Proc(u)])
  BY ProcType DEF HandshakeNotStolen, Global
<1>3. \A u \in Threads : pc[u] = "idle" \/ pc[u] \in BeginSteps \/ pc[u] \in CompleteSteps
  BY DEF TypeInv, TypeOK
<1>4. \A p \in Procs : inflight[p] \in gone => p \in S \/ inflight[p] = NoProvider
  BY <1>2, <1>3 DEF ProviderInv, HeldInv, ProvidersApart
<1>5. \A u \in Threads : this[u] \in gone => dead(u) \/ this[u] = NoProvider
  BY <1>2, <1>3 DEF ProviderInv, HeldInv, ProvidersApart
<1>6. \A o \in loaded : o[1] # NoProvider
  BY DEF TypeInv, TypeOK, Ids, NoProvider
<1>7. \A u \in Threads : pc[u] # "idle" => this[u] # NoProvider
  BY DEF TypeInv, ActiveCalls, Ids, NoProvider
<1>8. \A p \in S : inflight[p] \in gone
  OBVIOUS
<1>9. \A u \in Threads : dead(u) => this[u] \in gone
  OBVIOUS
<1> HIDE DEF gone
<1> USE <1>1, <1>4, <1>5, <1>6, <1>7, <1>8, <1>9
    DEF ProviderInv, HeldInv, BeginSteps, CompleteSteps
<1>10. ProvidersFresh'  BY DEF ProvidersFresh, TypeInv, TypeOK, NoProvider
<1>11. ProvidersApart'  BY DEF ProvidersApart
<1>12. BeginLoads'      BY DEF BeginLoads
<1>13. TransientsOwned' BY DEF TransientsOwned
<1>14. SessionsScoped'  BY DEF SessionsScoped
<1>15. InFlightCanComplete'
  <2> SUFFICES ASSUME NEW p \in Procs \ S, inflight[p] # NoProvider,
                      \A u \in Threads : Proc(u) = p => pc[u] \notin CompleteSteps
               PROVE  /\ {inflight[p]} \X {"ek", "ak"} \subseteq loaded'
                      /\ [from |-> inflight[p], ak |-> seed'] \in enrollBodies'
    BY DEF InFlightCanComplete
  <2>1. inflight[p] \notin gone
    OBVIOUS
  <2>2. QED BY <2>1 DEF InFlightCanComplete
<1>16. QED BY <1>10, <1>11, <1>12, <1>13, <1>14, <1>15

\* The steps within a call.
LEMMA ProviderStep ==
  ASSUME TypeInv, HandshakeNotStolen, HandshakeNotStolen', ProviderInv,
         NEW t \in Threads, Step(t)
  PROVE  ProviderInv'
<1>0. ~UseAfterReset(t)
  BY NobodyUsesAfterReset
<1>a. this[t] = Global(t) /\ this' = [this EXCEPT ![t] = Global(t)] => UNCHANGED this
  BY DEF TypeInv, TypeOK
<1>b. pc[t] \in CompleteSteps => this[t] = Global(t)
  BY DEF HandshakeNotStolen
<1> USE DEF BeginSteps, CompleteSteps
<1>1. CASE GatherEk(t)
  <2>1. CASE Goto(t, "createEk") /\ UNCHANGED this
    BY <1>1, <2>1, BeginGoesOn DEF GatherEk, Goto, tpmVars, relayVars
  <2>2. CASE Return(t, "ENROLLMENT_FAILED")
    <3>1. Destroyed(this[t]) = loaded
      BY <1>1 DEF GatherEk, Destroyed, OwnedBy, ProviderInv, HeldInv, BeginLoads
    <3>2. QED BY <1>1, <2>2, <3>1, BeginGivesUp DEF GatherEk, tpmVars, relayVars
  <2>3. QED BY <1>1, <2>1, <2>2 DEF GatherEk
<1>2. CASE CreateEk(t)
  <2>1. CASE Goto(t, "createAk") /\ loaded' = loaded \cup {<<this[t], "ek">>} /\ UNCHANGED this
    BY <1>2, <2>1, BeginGoesOn DEF CreateEk, Goto, relayVars
  <2>2. CASE Return(t, "ENROLLMENT_FAILED") /\ loaded' = Destroyed(this[t])
    BY <1>2, <2>2, BeginGivesUp DEF CreateEk, relayVars
  <2>3. QED BY <1>2, <2>1, <2>2 DEF CreateEk
<1>3. CASE CreateAndLoadAk(t)
  <2>1. CASE Goto(t, "hold") /\ loaded' = loaded \cup {<<this[t], "ak">>} /\ UNCHANGED this
    <3>1. {this[t]} \X {"ek", "ak"} \subseteq loaded'
      BY <1>3, <2>1 DEF CreateAndLoadAk, ProviderInv, HeldInv, BeginLoads
    <3>2. QED BY <1>3, <2>1, <3>1, BeginGoesOn DEF CreateAndLoadAk, Goto, relayVars
  <2>2. CASE Return(t, "ENROLLMENT_FAILED") /\ loaded' = Destroyed(this[t])
    BY <1>3, <2>2, BeginGivesUp DEF CreateAndLoadAk, relayVars
  <2>3. QED BY <1>3, <2>1, <2>2 DEF CreateAndLoadAk
<1>4. CASE HoldProvider(t)
  <2>1. CASE Return(t, "OK")
             /\ enrollBodies' = enrollBodies \cup {[from |-> this[t], ak |-> seed]}
             /\ inflight' = [inflight EXCEPT ![Proc(t)] = this[t]]
             /\ loaded' = Destroyed(Global(t))
    BY <1>4, <2>1, BeginEnds DEF HoldProvider
  <2>2. CASE Return(t, "INTERNAL") /\ loaded' = Destroyed(this[t])
             /\ UNCHANGED <<enrollBodies, inflight>>
    BY <1>4, <2>2, BeginGivesUp DEF HoldProvider
  <2>3. QED BY <1>4, <2>1, <2>2 DEF HoldProvider
<1>5. CASE StartAuthSession(t)
  <2>1. /\ pc[t] = "session" /\ UNCHANGED <<this, inflight, nextId, seed, enrollBodies>>
        /\ \/ pc' = [pc EXCEPT ![t] = "activate"]
           \/ pc' = [pc EXCEPT ![t] = "reject"]
    BY <1>a, <1>b, <1>5 DEF StartAuthSession, Deref, Goto, relayVars
  <2>2. /\ \A o \in loaded : o \in loaded'
        /\ \A o \in loaded' : o \in loaded \/ o[1] = this[t]
    BY <1>b, <1>5 DEF StartAuthSession
  <2>3. QED BY <2>1, <2>2, CompleteGoesOn
<1>6. CASE ActivateCredential(t)
  BY <1>6, CompleteGoesOn DEF ActivateCredential, Goto, relayVars
<1>7. CASE RejectChallenge(t)
  BY <1>7, CompleteEnds DEF RejectChallenge, relayVars
<1>8. CASE ProbeSlot(t)
  <2>1. /\ pc[t] = "probe" /\ UNCHANGED <<this, inflight, nextId, seed, enrollBodies, loaded>>
        /\ pc' = [pc EXCEPT ![t] = "clear"] \/ pc' = [pc EXCEPT ![t] = "evict"]
    BY <1>a, <1>b, <1>8 DEF ProbeSlot, Deref, Goto, relayVars, tpmVars
  <2>2. QED BY <2>1, CompleteGoesOn
<1>9. CASE ClearSlot(t)
  BY <1>9, CompleteGoesOn DEF ClearSlot, Goto, relayVars
<1>10. CASE EvictAk(t)
  BY <1>10, CompleteGoesOn DEF EvictAk, Goto, relayVars
<1>11. CASE PersistFailed(t)
  BY <1>11, CompleteEnds DEF PersistFailed, relayVars
<1>12. CASE EmitActivation(t)
  BY <1>12, CompleteEnds DEF EmitActivation, EmitBody
<1>13. QED
  BY <1>0, <1>1, <1>2, <1>3, <1>4, <1>5, <1>6, <1>7, <1>8, <1>9, <1>10, <1>11, <1>12
  DEF Step

\* In processes that use a single handle each, providers are kept apart and what
\* is loaded has an owner.
LEMMA ProviderInvariant ==
  ASSUME OneHandlePerProcess PROVE Spec => []ProviderInv
<1>1. Init => ProviderInv
  BY DEF Init, ProviderInv, HeldInv, ProvidersFresh, ProvidersApart, BeginLoads,
         TransientsOwned, SessionsScoped, InFlightCanComplete, NoProvider, BeginSteps
<1>2. TypeInv /\ HandshakeNotStolen /\ HandshakeNotStolen' /\ ProviderInv /\ [Next]_vars
        => ProviderInv'
  <2> SUFFICES ASSUME TypeInv, HandshakeNotStolen, HandshakeNotStolen', ProviderInv,
                      [Next]_vars
               PROVE  ProviderInv'
    OBVIOUS
  <2>1. CASE UNCHANGED vars
    BY <2>1, ProviderFrame DEF vars, callVars, tpmVars, relayVars
  <2>2. ASSUME NEW t \in Threads, Call(t) \/ Step(t) PROVE ProviderInv'
    BY <2>2, ProviderCall, ProviderStep
  <2>3. ASSUME NEW p \in Procs, Crash(p) PROVE ProviderInv'
    BY <2>3, ProviderExit DEF Crash, relayVars
  <2>4. CASE TpmClear
    BY <2>4, ProviderExit DEF TpmClear, relayVars
  <2>5. CASE Server
    BY <2>5, ProviderFrame DEF Server, ServerEnroll, ServerActivate, callVars, tpmVars
  <2>6. QED BY <2>1, <2>2, <2>3, <2>4, <2>5 DEF Next
<1>3. QED BY <1>1, <1>2, TypeInvariant, HandshakesNotStolen, PTL DEF Spec

\* Whatever fails or crashes, nothing stays loaded in the TPM for a provider that
\* nobody holds: a long-lived device does not run out of transient slots.
THEOREM TransientsAlwaysOwned ==
  ASSUME OneHandlePerProcess PROVE Spec => []TransientsOwned
BY ProviderInvariant, PTL DEF ProviderInv

\* No policy session outlives the EnrollComplete that started it, even if its
\* flush or the answer that names it is lost.
THEOREM SessionsAlwaysScoped ==
  ASSUME OneHandlePerProcess PROVE Spec => []SessionsScoped
BY ProviderInvariant, PTL DEF ProviderInv

\* A handshake left in flight, by whatever calls came before, can be completed.
THEOREM InFlightAlwaysCompletable ==
  ASSUME OneHandlePerProcess PROVE Spec => []InFlightCanComplete
BY ProviderInvariant, PTL DEF ProviderInv
=============================================================================
