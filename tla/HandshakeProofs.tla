-------------------------- MODULE HandshakeProofs --------------------------
(***************************************************************************)
(* Module Enrollment implements module Handshake, in processes that use a  *)
(* single handle each.                                                     *)
(***************************************************************************)
EXTENDS EnrollmentKeyProofs

\* What the relay has seen of each handshake: the one in flight has an enroll body
\* and no activation body, the one being begun has neither.
RelayInv ==
  /\ \A p \in Procs : inflight[p] # NoProvider => Begun(inflight[p]) /\ ~Proved(inflight[p])
  /\ \A b \in enrollBodies : b.from < nextId
  /\ \A t \in Threads : pc[t] \in BeginSteps => ~Begun(this[t])
  /\ \A b \in activateBodies : Begun(b.from)

\* The invariants the refinement rests on.
Known == TypeInv /\ HandshakeNotStolen /\ ProviderInv /\ RelayInv

\* A thread about to release its secret works on the handshake in flight.
LEMMA EmitsInFlight ==
  ASSUME Known, NEW t \in Threads, pc[t] \in CompleteSteps
  PROVE  this[t] \in Ids /\ this[t] = inflight[Proc(t)] /\ Proc(t) \in Procs
BY ProcType DEF Known, TypeInv, ActiveCalls, CompleteSteps, HandshakeNotStolen, Global

-----------------------------------------------------------------------------
(* Steps that module Handshake does not see. *)

Quiet ==
  /\ UNCHANGED <<enrollBodies, activateBodies, inflight, serverAk>>
  /\ nextId' \in {nextId, nextId + 1}
  /\ \A t \in Threads :
       /\ pc'[t] = "emit" <=> pc[t] = "emit"
       /\ pc[t] = "emit" => this'[t] = this[t]
       /\ pc'[t] \in BeginSteps /\ ~(pc[t] \in BeginSteps /\ this'[t] = this[t])
            => this'[t] = nextId

\* A quiet step is a stuttering step of the abstract handshakes.
LEMMA QuietStutters ==
  ASSUME Known, Quiet
  PROVE  RelayInv' /\ UNCHANGED <<HandshakePhase, serverAk # NoKey>>
<1>1. \A i : Begun(i)' = Begun(i) /\ Proved(i)' = Proved(i) /\ Open(i)' = Open(i)
  BY DEF Quiet, Begun, Proved, Open
<1>2. \A i : Durable(i)' <=> Durable(i)
  BY DEF Quiet, Durable
<1>3. HandshakePhase' = HandshakePhase
  BY <1>1, <1>2 DEF HandshakePhase, PhaseOf
<1>4. RelayInv'
  <2>1. nextId \in Nat /\ \A b \in enrollBodies : b.from \in Nat
    BY DEF Known, TypeInv, TypeOK, EnrollBody, Ids
  <2>2. ~Begun(nextId)
    BY <2>1 DEF Known, RelayInv, Begun
  <2>3. QED BY <1>1, <2>1, <2>2 DEF Known, RelayInv, Quiet
<1>5. QED BY <1>3, <1>4 DEF Quiet

\* The entries of calls are quiet.
LEMMA CallsQuiet ==
  ASSUME Known, NEW t \in Threads, Call(t) PROVE Quiet
<1> USE DEF Known, TypeInv, TypeOK, Quiet, BeginSteps, CompleteSteps, relayVars
<1>1. CASE BadArguments(t)      BY <1>1 DEF BadArguments, Return
<1>2. CASE EnrollMocked(t)      BY <1>2 DEF EnrollMocked, Enter, Return
<1>3. ASSUME NEW on \in BOOLEAN, SetMockTpm(t, on) PROVE Quiet
  BY <1>3 DEF SetMockTpm, callVars
<1>4. CASE BeginUnelevated(t)   BY <1>4 DEF BeginUnelevated, Enter, Return
<1>5. CASE EnrollBegin(t)       BY <1>5 DEF EnrollBegin, Enter, Goto
<1>6. CASE CompleteNoState(t)   BY <1>6 DEF CompleteNoState, Enter, Return
<1>7. CASE CompleteMalformed(t) BY <1>7 DEF CompleteMalformed, Enter, Return
<1>8. ASSUME NEW c \in challenges, EnrollComplete(t, c) PROVE Quiet
  BY <1>8 DEF EnrollComplete, Enter
<1>9. QED
  BY <1>1, <1>2, <1>3, <1>4, <1>5, <1>6, <1>7, <1>8 DEF Call

\* So are the steps of EnrollBegin up to its end, and of EnrollComplete up to the
\* AK's becoming persistent.
LEMMA StepsQuiet ==
  ASSUME Known, NEW t \in Threads,
         \/ GatherEk(t) \/ CreateEk(t) \/ CreateAndLoadAk(t)
         \/ HoldProvider(t) /\ UNCHANGED inflight /\ UNCHANGED enrollBodies
         \/ StartAuthSession(t) \/ ActivateCredential(t) \/ ProbeSlot(t) \/ ClearSlot(t)
         \/ EvictAk(t) /\ pc'[t] # "emit"
  PROVE  Quiet
<1> USE DEF Known, TypeInv, TypeOK, Quiet, BeginSteps, CompleteSteps, relayVars
<1>1. CASE GatherEk(t)           BY <1>1 DEF GatherEk, Goto, Return
<1>2. CASE CreateEk(t)           BY <1>2 DEF CreateEk, Goto, Return
<1>3. CASE CreateAndLoadAk(t)    BY <1>3 DEF CreateAndLoadAk, Goto, Return
<1>4. CASE HoldProvider(t) /\ UNCHANGED inflight /\ UNCHANGED enrollBodies
  BY <1>4 DEF HoldProvider, Return
<1>5. CASE StartAuthSession(t)   BY <1>5 DEF StartAuthSession, Deref, Goto
<1>6. CASE ActivateCredential(t) BY <1>6 DEF ActivateCredential, Goto
<1>7. CASE ProbeSlot(t)          BY <1>7 DEF ProbeSlot, Deref, Goto
<1>8. CASE ClearSlot(t)          BY <1>8 DEF ClearSlot, Goto
<1>9. CASE EvictAk(t) /\ pc'[t] # "emit" BY <1>9 DEF EvictAk, Goto
<1>10. QED BY <1>1, <1>2, <1>3, <1>4, <1>5, <1>6, <1>7, <1>8, <1>9

-----------------------------------------------------------------------------
(* Steps that close handshakes. *)

\* The handshakes in flight in the processes of S end without a proof.
Closes(S) ==
  /\ UNCHANGED <<enrollBodies, activateBodies, serverAk, nextId>>
  /\ \A p \in Procs : inflight'[p] = IF p \in S THEN NoProvider ELSE inflight[p]
  /\ \A t \in Threads :
       /\ pc'[t] = "emit" <=> pc[t] = "emit" /\ Proc(t) \notin S
       /\ pc'[t] = "emit" => this'[t] = this[t]
       /\ pc'[t] \in BeginSteps => pc[t] \in BeginSteps /\ this'[t] = this[t]

\* Such a step abandons the open and the durable ones of them.
LEMMA ClosingAbandons ==
  ASSUME Known, NEW S \in SUBSET Procs, Closes(S)
  PROVE  RelayInv' /\ Abstract!Abandon
<1> DEFINE ended == {i \in Ids : \E p \in S : inflight[p] = i}
<1>1. \A i : Begun(i)' = Begun(i) /\ Proved(i)' = Proved(i)
  BY DEF Closes, Begun, Proved
<1>2. \A p \in Procs : inflight[p] \in Ids \cup {NoProvider} /\ NoProvider \notin Ids
  BY DEF Known, TypeInv, TypeOK, Ids, NoProvider
<1>3. \A p, q \in Procs : inflight[p] \in Ids /\ inflight[p] = inflight[q] => p = q
  BY <1>2 DEF Known, ProviderInv, HeldInv, ProvidersApart
<1>4. \A t \in Threads : pc[t] = "emit" => this[t] = inflight[Proc(t)] /\ Proc(t) \in Procs
  BY EmitsInFlight DEF CompleteSteps
<1>5. ASSUME NEW i \in ended
      PROVE  PhaseOf(i) \in {"open", "durable"} /\ PhaseOf(i)' = "closed"
  <2>1. Begun(i) /\ ~Proved(i) /\ Open(i)
    BY <1>2 DEF Known, RelayInv, Open
  <2>2. ~Open(i)'
    BY <1>2, <1>3 DEF Closes, Open
  <2>3. ~Durable(i)'
    BY <1>3, <1>4 DEF Closes, Durable
  <2>4. QED BY <1>1, <2>1, <2>2, <2>3 DEF PhaseOf
<1>6. ASSUME NEW i \in Ids \ ended PROVE PhaseOf(i)' = PhaseOf(i)
  <2>1. Open(i)' <=> Open(i)
    BY <1>2 DEF Closes, Open
  <2>2. Durable(i)' <=> Durable(i)
    BY <1>4 DEF Closes, Durable
  <2>3. QED BY <1>1, <2>1, <2>2 DEF PhaseOf
<1>7. Abstract!Abandon
  <2>1. ended \in SUBSET Abstract!In({"open", "durable"})
    BY <1>5 DEF Abstract!In, HandshakePhase
  <2>2. HandshakePhase' = Abstract!Closing(ended)
    BY <1>5, <1>6 DEF Abstract!Closing, HandshakePhase
  <2>3. UNCHANGED (serverAk # NoKey)
    BY DEF Closes
  <2>4. QED BY <2>1, <2>2, <2>3 DEF Abstract!Abandon
<1>8. RelayInv'
  BY <1>1, <1>2 DEF Known, RelayInv, Closes
<1>9. QED BY <1>7, <1>8

\* The failures of EnrollComplete close the handshake in flight.
LEMMA FailuresClose ==
  ASSUME Known, HandshakeNotStolen', NEW t \in Threads, pc[t] \in CompleteSteps,
         NEW r, ResetGlobal(t), Return(t, r),
         UNCHANGED <<enrollBodies, activateBodies, serverAk, nextId>>
  PROVE  Closes({Proc(t)})
<1>1. /\ pc' = [pc EXCEPT ![t] = "idle"] /\ this' = [this EXCEPT ![t] = NoProvider]
      /\ inflight' = [inflight EXCEPT ![Proc(t)] = NoProvider]
  BY DEF Return, ResetGlobal
<1>2. \A u \in Threads \ {t} : pc[u] \in CompleteSteps => Proc(u) # Proc(t)
  <2> SUFFICES ASSUME NEW u \in Threads \ {t}, pc[u] \in CompleteSteps, Proc(u) = Proc(t)
               PROVE  FALSE
    OBVIOUS
  <2>1. this'[u] = inflight'[Proc(u)] /\ this'[u] = this[u]
    BY <1>1 DEF HandshakeNotStolen, Global, Known, TypeInv, TypeOK
  <2>2. this[u] \in Ids /\ Proc(u) \in Procs
    BY EmitsInFlight
  <2>3. QED BY <1>1, <2>1, <2>2 DEF Known, TypeInv, TypeOK, Ids, NoProvider
<1>3. QED
  BY <1>1, <1>2, ProcType DEF Closes, Known, TypeInv, TypeOK, BeginSteps, CompleteSteps

\* The end of processes closes theirs.
LEMMA ExitCloses ==
  ASSUME Known, NEW S \in SUBSET Procs, Exit(S),
         UNCHANGED <<enrollBodies, activateBodies, serverAk, nextId>>
  PROVE  Closes(S)
BY DEF Exit, Closes, Known, TypeInv, TypeOK, BeginSteps

-----------------------------------------------------------------------------
(* Steps of a handshake's own life. *)

\* An EnrollBegin that ends well begins a handshake, and closes the one before it
\* in its process.
LEMMA HoldBegins ==
  ASSUME Known, HandshakeNotStolen', NEW t \in Threads, NEW i \in Ids, i = this[t],
         HoldProvider(t), Return(t, "OK"),
         enrollBodies' = enrollBodies \cup {[from |-> i, ak |-> seed]},
         inflight' = [inflight EXCEPT ![Proc(t)] = i]
  PROVE  RelayInv' /\ Abstract!Begin(i)
<1> DEFINE old == inflight[Proc(t)]
           superseded == {j \in Ids : j = old}
<1>1. pc[t] = "hold" /\ pc[t] \in BeginSteps /\ Proc(t) \in Procs
  BY ProcType DEF HoldProvider, BeginSteps
<1>2. /\ pc' = [pc EXCEPT ![t] = "idle"] /\ this' = [this EXCEPT ![t] = NoProvider]
      /\ UNCHANGED <<activateBodies, serverAk, nextId>>
  BY DEF HoldProvider, Return
<1>3. /\ i \in Ids
      /\ \A u \in Threads \ {t} : this[u] # i
      /\ \A p \in Procs : inflight[p] # i
  BY <1>1, BeginOwns DEF Known
<1>4. \A p \in Procs : inflight[p] \in Ids \cup {NoProvider} /\ NoProvider \notin Ids
  BY DEF Known, TypeInv, TypeOK, Ids, NoProvider
<1>5. \A p, q \in Procs : inflight[p] \in Ids /\ inflight[p] = inflight[q] => p = q
  BY <1>4 DEF Known, ProviderInv, HeldInv, ProvidersApart
<1>6. \A u \in Threads : pc[u] = "emit" => /\ u # t /\ Proc(u) \in Procs
                                           /\ this[u] \in Ids /\ this[u] = inflight[Proc(u)]
  BY <1>1, EmitsInFlight DEF CompleteSteps
<1>7. \A u \in Threads : pc[u] = "emit" => Proc(u) # Proc(t)
  <2> SUFFICES ASSUME NEW u \in Threads, pc[u] = "emit", Proc(u) = Proc(t) PROVE FALSE
    OBVIOUS
  <2>1. u # t /\ pc'[u] \in CompleteSteps /\ this'[u] = this[u]
    BY <1>2, <1>6 DEF Known, TypeInv, TypeOK, CompleteSteps
  <2>2. this'[u] = inflight'[Proc(u)]
    BY <2>1 DEF HandshakeNotStolen, Global
  <2>3. QED BY <1>1, <1>3, <2>1, <2>2 DEF Known, TypeInv, TypeOK
<1>8. \A j : /\ Durable(j)' <=> Durable(j)
             /\ Proved(j)' <=> Proved(j)
             /\ Begun(j)' <=> Begun(j) \/ j = i
  <2>1. \A j : Durable(j)' <=> Durable(j)
    BY <1>1, <1>2 DEF Durable, Known, TypeInv, TypeOK
  <2>2. \A j : Proved(j)' <=> Proved(j)
    BY <1>2 DEF Proved
  <2>3. \A j : Begun(j)' <=> Begun(j) \/ j = i
    <3>1. PICK b0 : b0.from = i /\ enrollBodies' = enrollBodies \cup {b0}
      OBVIOUS
    <3>2. QED BY <3>1 DEF Begun
  <2>4. QED BY <2>1, <2>2, <2>3
<1>9. PhaseOf(i) = "unused" /\ PhaseOf(i)' = "open"
  <2>1. ~Begun(i) /\ ~Proved(i)
    BY <1>1 DEF Known, RelayInv, Proved, Begun
  <2>2. ~Durable(i)
    BY <1>3, <1>6 DEF Durable
  <2>3. ~Open(i) /\ Open(i)'
    BY <1>1, <1>3 DEF Open, Known, TypeInv, TypeOK
  <2>4. QED BY <1>8, <2>1, <2>2, <2>3 DEF PhaseOf
<1>10. ASSUME NEW j \in superseded PROVE PhaseOf(j) = "open" /\ PhaseOf(j)' = "closed"
  <2>1. Begun(j) /\ ~Proved(j) /\ Open(j)
    BY <1>1, <1>4 DEF Known, RelayInv, Open
  <2>2. ~Durable(j)
    BY <1>1, <1>5, <1>6, <1>7 DEF Durable
  <2>3. ~Open(j)'
    BY <1>1, <1>3, <1>5 DEF Open, Known, TypeInv, TypeOK
  <2>4. QED BY <1>8, <2>1, <2>2, <2>3 DEF PhaseOf
<1>11. ASSUME NEW j \in Ids \ superseded, j # i PROVE PhaseOf(j)' = PhaseOf(j)
  <2>1. Open(j)' <=> Open(j)
    BY <1>1, <1>11 DEF Open, Known, TypeInv, TypeOK
  <2>2. QED BY <1>8, <1>11, <2>1 DEF PhaseOf
<1>12. Abstract!Begin(i)
  <2>1. HandshakePhase[i] = "unused" /\ superseded \in SUBSET Abstract!In({"open"})
    BY <1>3, <1>9, <1>10 DEF HandshakePhase, Abstract!In
  <2>2. HandshakePhase' = [Abstract!Closing(superseded) EXCEPT ![i] = "open"]
    BY <1>3, <1>9, <1>10, <1>11 DEF HandshakePhase, Abstract!Closing
  <2>3. UNCHANGED (serverAk # NoKey)
    BY <1>2
  <2>4. QED BY <2>1, <2>2, <2>3 DEF Abstract!Begin
<1>13. RelayInv'
  <2>1. (\A p \in Procs : inflight[p] # NoProvider => Begun(inflight[p]) /\ ~Proved(inflight[p]))'
    <3>1. ~Proved(i)
      BY <1>1 DEF Known, RelayInv, Proved, Begun
    <3>2. \A p \in Procs : inflight'[p] = i \/ inflight'[p] = inflight[p]
      BY <1>1 DEF Known, TypeInv, TypeOK
    <3>3. QED BY <1>8, <3>1, <3>2 DEF Known, RelayInv
  <2>2. (\A b \in enrollBodies : b.from < nextId)'
    BY <1>2 DEF Known, RelayInv, ProviderInv, HeldInv, ProvidersFresh
  <2>3. (\A u \in Threads : pc[u] \in BeginSteps => ~Begun(this[u]))'
    BY <1>2, <1>3, <1>8 DEF Known, RelayInv, TypeInv, TypeOK, BeginSteps, CompleteSteps
  <2>4. (\A b \in activateBodies : Begun(b.from))'
    BY <1>2, <1>8 DEF Known, RelayInv
  <2>5. QED BY <2>1, <2>2, <2>3, <2>4 DEF RelayInv
<1>14. QED BY <1>12, <1>13

\* A step on one handshake that is the only one whose phase it changes.
LEMMA OnePhase ==
  ASSUME NEW i \in Ids, \A j \in Ids \ {i} : PhaseOf(j)' = PhaseOf(j), NEW ph, PhaseOf(i)' = ph
  PROVE  HandshakePhase[i] = PhaseOf(i) /\ HandshakePhase' = [HandshakePhase EXCEPT ![i] = ph]
BY DEF HandshakePhase

\* The AK's becoming persistent makes the handshake durable.
LEMMA EvictMakesDurable ==
  ASSUME Known, NEW t \in Threads, NEW i \in Ids, i = this[t],
         EvictAk(t), pc'[t] = "emit"
  PROVE  RelayInv' /\ Abstract!MakeDurable(i)
<1>1. /\ pc[t] = "evict" /\ pc' = [pc EXCEPT ![t] = "emit"]
      /\ UNCHANGED <<this, inflight, enrollBodies, activateBodies, serverAk, nextId>>
  BY DEF EvictAk, Goto, relayVars, Known, TypeInv, TypeOK
<1>2. i \in Ids /\ i = inflight[Proc(t)] /\ Proc(t) \in Procs /\ i # NoProvider
  BY <1>1, EmitsInFlight DEF CompleteSteps, Ids, NoProvider
<1>3. \A j : Begun(j)' = Begun(j) /\ Proved(j)' = Proved(j) /\ Open(j)' = Open(j)
  BY <1>1 DEF Begun, Proved, Open
<1>4. \A j : Durable(j)' <=> Durable(j) \/ j = i
  BY <1>1 DEF Durable, Known, TypeInv, TypeOK
<1>5. ~Durable(i)
  <2>1. \A u \in Threads : this[u] = i => u = t
    BY <1>2 DEF Known, ProviderInv, HeldInv, ProvidersApart
  <2>2. QED BY <1>1, <2>1 DEF Durable
<1>6. ~Proved(i) /\ Open(i)
  BY <1>2 DEF Known, RelayInv, Open
<1>7. PhaseOf(i) = "open" /\ PhaseOf(i)' = "durable"
  BY <1>3, <1>4, <1>5, <1>6 DEF PhaseOf
<1>8. \A j \in Ids \ {i} : PhaseOf(j)' = PhaseOf(j)
  BY <1>3, <1>4 DEF PhaseOf
<1>9. Abstract!MakeDurable(i)
  BY <1>1, <1>2, <1>7, <1>8, OnePhase DEF Abstract!MakeDurable
<1>10. RelayInv'
  BY <1>1, <1>3 DEF Known, RelayInv, TypeInv, TypeOK, BeginSteps
<1>11. QED BY <1>9, <1>10

\* The activation body is the proof.
LEMMA EmissionProves ==
  ASSUME Known, NEW t \in Threads, NEW i \in Ids, i = this[t],
         EmitActivation(t), Return(t, "OK"),
         activateBodies' = activateBodies \cup
                             {[from |-> i, secret |-> arg[t].secret]}
  PROVE  RelayInv' /\ Abstract!Prove(i)
<1>1. /\ pc[t] = "emit" /\ pc' = [pc EXCEPT ![t] = "idle"]
      /\ this' = [this EXCEPT ![t] = NoProvider]
      /\ inflight' = [inflight EXCEPT ![Proc(t)] = NoProvider]
      /\ UNCHANGED <<enrollBodies, serverAk, nextId>>
  BY DEF EmitActivation, EmitBody, ResetGlobal, Return
<1>2. i \in Ids /\ i = inflight[Proc(t)] /\ Proc(t) \in Procs /\ i # NoProvider
  BY <1>1, EmitsInFlight DEF CompleteSteps, Ids, NoProvider
<1>3. \A j : (Begun(j)' <=> Begun(j)) /\ (Proved(j)' <=> Proved(j) \/ j = i)
  <2>1. \A j : Begun(j)' <=> Begun(j)
    BY <1>1 DEF Begun
  <2>2. PICK b0 : b0.from = i /\ activateBodies' = activateBodies \cup {b0}
    OBVIOUS
  <2>3. \A j : Proved(j)' <=> Proved(j) \/ j = i
    BY <2>2 DEF Proved
  <2>4. QED BY <2>1, <2>3
<1>4. \A j \in Ids \ {i} : (Durable(j)' <=> Durable(j)) /\ (Open(j)' <=> Open(j))
  <2>1. \A j \in Ids \ {i} : Durable(j)' <=> Durable(j)
    BY <1>1 DEF Durable, Known, TypeInv, TypeOK
  <2>2. \A j \in Ids \ {i} : Open(j)' <=> Open(j)
    BY <1>1, <1>2 DEF Open, Known, TypeInv, TypeOK, Ids, NoProvider
  <2>3. QED BY <2>1, <2>2
<1>5. ~Proved(i) /\ Durable(i)
  BY <1>1, <1>2 DEF Known, RelayInv, Durable
<1>6. PhaseOf(i) = "durable" /\ PhaseOf(i)' = "proved"
  BY <1>3, <1>5 DEF PhaseOf
<1>7. \A j \in Ids \ {i} : PhaseOf(j)' = PhaseOf(j)
  BY <1>3, <1>4 DEF PhaseOf
<1>8. Abstract!Prove(i)
  BY <1>1, <1>2, <1>6, <1>7, OnePhase DEF Abstract!Prove
<1>9. RelayInv'
  <2>1. \A p \in Procs : inflight'[p] # NoProvider => inflight'[p] = inflight[p] /\ inflight[p] # i
    BY <1>1, <1>2 DEF Known, ProviderInv, HeldInv, ProvidersApart, TypeInv, TypeOK
  <2>2. Begun(i)
    BY <1>2 DEF Known, RelayInv
  <2>3. QED
    BY <1>1, <1>3, <2>1, <2>2 DEF Known, RelayInv, TypeInv, TypeOK, BeginSteps, CompleteSteps
<1>10. QED BY <1>8, <1>9

\* The server's enrolling of an AK follows a proof.
LEMMA ActivationEnrolls ==
  ASSUME Known, NEW m \in activateBodies, ServerActivate(m)
  PROVE  RelayInv' /\ Abstract!Enroll
<1>1. UNCHANGED <<pc, this, inflight, enrollBodies, activateBodies, nextId>> /\ serverAk' # NoKey
  BY DEF ServerActivate, callVars, Known, TypeInv, TypeOK, Challenge, Keys, NoKey
<1>2. \A j : /\ Begun(j)' = Begun(j) /\ Proved(j)' = Proved(j)
             /\ Open(j)' = Open(j) /\ Durable(j)' = Durable(j)
  BY <1>1 DEF Begun, Proved, Open, Durable
<1>3. m.from \in Ids /\ Proved(m.from)
  BY DEF Known, TypeInv, TypeOK, ActivateBody, Proved
<1>4. m.from \in Abstract!In({"proved"})
  BY <1>3 DEF Abstract!In, HandshakePhase, PhaseOf
<1>5. UNCHANGED HandshakePhase
  BY <1>2 DEF HandshakePhase, PhaseOf
<1>6. (serverAk # NoKey)' = TRUE
  BY <1>1 DEF NoKey
<1>7. Abstract!Enroll
  BY <1>4, <1>5, <1>6 DEF Abstract!Enroll
<1>8. RelayInv'
  BY <1>1, <1>2 DEF Known, RelayInv
<1>9. QED BY <1>7, <1>8

-----------------------------------------------------------------------------
(* The refinement. *)

AbstractStep == [Abstract!Next]_<<HandshakePhase, serverAk # NoKey>>

\* Every step within a call is a step of the abstract handshakes, or none.
LEMMA StepRefines ==
  ASSUME Known, HandshakeNotStolen', NEW t \in Threads, Step(t)
  PROVE  RelayInv' /\ AbstractStep
<1> USE DEF Abstract!Next, AbstractStep
<1>0. ~UseAfterReset(t)
  BY NobodyUsesAfterReset DEF Known
<1>q. Quiet => RelayInv' /\ AbstractStep
  BY QuietStutters
<1>c. Closes({Proc(t)}) => RelayInv' /\ AbstractStep
  BY ClosingAbandons, ProcType
<1>1. CASE GatherEk(t) \/ CreateEk(t) \/ CreateAndLoadAk(t)
  BY <1>1, <1>q, StepsQuiet
<1>2. CASE HoldProvider(t)
  <2>1. CASE Return(t, "OK")
             /\ enrollBodies' = enrollBodies \cup {[from |-> this[t], ak |-> seed]}
             /\ inflight' = [inflight EXCEPT ![Proc(t)] = this[t]]
    <3>1. this[t] \in Ids
      BY <1>2 DEF HoldProvider, Known, TypeInv, ActiveCalls
    <3>2. QED BY <1>2, <2>1, <3>1, HoldBegins
  <2>2. CASE UNCHANGED <<enrollBodies, inflight>>
    BY <1>2, <2>2, <1>q, StepsQuiet
  <2>3. QED BY <1>2, <2>1, <2>2 DEF HoldProvider
<1>3. CASE StartAuthSession(t) \/ ActivateCredential(t) \/ ProbeSlot(t) \/ ClearSlot(t)
  BY <1>3, <1>q, StepsQuiet
<1>4. CASE EvictAk(t)
  <2>1. CASE pc'[t] = "emit"
    <3>1. this[t] \in Ids
      BY <1>4 DEF EvictAk, Known, TypeInv, ActiveCalls
    <3>2. QED BY <1>4, <2>1, <3>1, EvictMakesDurable
  <2>2. CASE pc'[t] # "emit"
    BY <1>4, <2>2, <1>q, StepsQuiet
  <2>3. QED BY <2>1, <2>2
<1>5. CASE RejectChallenge(t)
  <2>1. Closes({Proc(t)})
    BY <1>5, FailuresClose DEF RejectChallenge, relayVars, CompleteSteps
  <2>2. QED BY <2>1, <1>c
<1>6. CASE PersistFailed(t)
  <2>1. Closes({Proc(t)})
    BY <1>6, FailuresClose DEF PersistFailed, relayVars, CompleteSteps
  <2>2. QED BY <2>1, <1>c
<1>7. CASE EmitActivation(t)
  <2>1. CASE Return(t, "OK") /\ activateBodies' = activateBodies \cup
                                  {[from |-> this[t], secret |-> arg[t].secret]}
    <3>1. this[t] \in Ids
      BY <1>7 DEF EmitActivation, Known, TypeInv, ActiveCalls
    <3>2. QED BY <1>7, <2>1, <3>1, EmissionProves
  <2>2. CASE Return(t, "INTERNAL") /\ UNCHANGED activateBodies
    <3>1. Closes({Proc(t)})
      BY <1>7, <2>2, FailuresClose DEF EmitActivation, EmitBody, CompleteSteps
    <3>2. QED BY <3>1, <1>c
  <2>3. QED BY <1>7, <2>1, <2>2 DEF EmitActivation, EmitBody
<1>8. QED
  BY <1>0, <1>1, <1>2, <1>3, <1>4, <1>5, <1>6, <1>7 DEF Step

\* So is every step of the whole.
LEMMA NextRefines ==
  ASSUME Known, HandshakeNotStolen', [Next]_vars
  PROVE  RelayInv' /\ AbstractStep
<1> USE DEF Abstract!Next, AbstractStep
<1>1. CASE UNCHANGED vars
  <2>1. Quiet
    BY <1>1 DEF vars, callVars, relayVars, Quiet
  <2>2. QED BY <2>1, QuietStutters
<1>2. ASSUME NEW t \in Threads, Call(t) PROVE RelayInv' /\ AbstractStep
  BY <1>2, CallsQuiet, QuietStutters
<1>3. ASSUME NEW t \in Threads, Step(t) PROVE RelayInv' /\ AbstractStep
  BY <1>3, StepRefines
<1>4. ASSUME NEW p \in Procs, Crash(p) PROVE RelayInv' /\ AbstractStep
  <2>1. Closes({p})
    BY <1>4, ExitCloses DEF Crash, relayVars
  <2>2. QED BY <2>1, ClosingAbandons
<1>5. CASE TpmClear
  <2>1. Closes(Procs)
    BY <1>5, ExitCloses DEF TpmClear, relayVars
  <2>2. QED BY <2>1, ClosingAbandons
<1>6. ASSUME NEW m \in enrollBodies, ServerEnroll(m) PROVE RelayInv' /\ AbstractStep
  <2>1. Quiet
    BY <1>6 DEF ServerEnroll, callVars, Quiet
  <2>2. QED BY <2>1, QuietStutters
<1>7. ASSUME NEW m \in activateBodies, ServerActivate(m) PROVE RelayInv' /\ AbstractStep
  BY <1>7, ActivationEnrolls
<1>8. QED BY <1>1, <1>2, <1>3, <1>4, <1>5, <1>6, <1>7 DEF Next, Server

\* In processes that use a single handle each, the enrollment calls implement the
\* abstract handshake: a handshake releases at most one proof, only once its AK is
\* durable, none once it is superseded or has failed, and the server enrolls
\* nothing without one.
THEOREM EnrollmentImplementsHandshake ==
  ASSUME OneHandlePerProcess PROVE Spec => ImplementsHandshake
<1>1. Init => RelayInv /\ Abstract!Init
  BY DEF Init, RelayInv, Abstract!Init, HandshakePhase, PhaseOf, Begun, Proved, Open, Durable,
         BeginSteps, Ids, NoProvider
<1>2. TypeInv /\ HandshakeNotStolen /\ HandshakeNotStolen' /\ ProviderInv /\ RelayInv /\ [Next]_vars
        => RelayInv' /\ [Abstract!Next]_<<HandshakePhase, serverAk # NoKey>>
  BY NextRefines DEF Known, AbstractStep
<1>3. QED
  BY <1>1, <1>2, TypeInvariant, HandshakesNotStolen, ProviderInvariant, PTL
  DEF Spec, ImplementsHandshake, Abstract!Spec

-----------------------------------------------------------------------------
(* What the abstract handshake says to the backend that relays it. *)

Lives == {<<"unused", "open">>, <<"open", "durable">>, <<"durable", "proved">>,
          <<"open", "closed">>, <<"durable", "closed">>}

\* A handshake lives once: a proof is the last thing that happens to it, and comes
\* after its AK was durable; one that was closed stays closed.
LivesOnce == \A i \in Ids : \/ HandshakePhase'[i] = HandshakePhase[i]
                           \/ <<HandshakePhase[i], HandshakePhase'[i]>> \in Lives

\* Whatever challenges are replayed, and however calls race, fail or crash, no
\* handshake gives a second proof or one before its AK is at the persistent
\* handle, and none comes back to life.
THEOREM HandshakesLiveOnce ==
  ASSUME OneHandlePerProcess PROVE Spec => [][LivesOnce]_HandshakePhase
<1>1. [Abstract!Next]_<<HandshakePhase, serverAk # NoKey>> => [LivesOnce]_HandshakePhase
  <2> SUFFICES ASSUME [Abstract!Next]_<<HandshakePhase, serverAk # NoKey>>,
                      HandshakePhase' # HandshakePhase, NEW i \in Ids
               PROVE  \/ HandshakePhase'[i] = HandshakePhase[i]
                      \/ <<HandshakePhase[i], HandshakePhase'[i]>> \in Lives
    BY DEF LivesOnce
  <2>1. DOMAIN HandshakePhase = Ids /\ HandshakePhase = [j \in Ids |-> HandshakePhase[j]]
    BY DEF HandshakePhase
  <2>2. ASSUME NEW j \in Ids, Abstract!Begin(j)
        PROVE  \/ HandshakePhase'[i] = HandshakePhase[i]
               \/ <<HandshakePhase[i], HandshakePhase'[i]>> \in Lives
    BY <2>1, <2>2 DEF Abstract!Begin, Abstract!Closing, Abstract!In, Lives
  <2>3. ASSUME NEW j \in Ids, Abstract!MakeDurable(j) \/ Abstract!Prove(j)
        PROVE  \/ HandshakePhase'[i] = HandshakePhase[i]
               \/ <<HandshakePhase[i], HandshakePhase'[i]>> \in Lives
    BY <2>1, <2>3 DEF Abstract!MakeDurable, Abstract!Prove, Lives
  <2>4. ASSUME Abstract!Abandon
        PROVE  \/ HandshakePhase'[i] = HandshakePhase[i]
               \/ <<HandshakePhase[i], HandshakePhase'[i]>> \in Lives
    BY <2>1, <2>4 DEF Abstract!Abandon, Abstract!Closing, Abstract!In, Lives
  <2>5. CASE Abstract!Enroll
    BY <2>5 DEF Abstract!Enroll
  <2>6. QED BY <2>2, <2>3, <2>4, <2>5 DEF Abstract!Next
<1>2. QED
  BY <1>1, EnrollmentImplementsHandshake, PTL DEF ImplementsHandshake, Abstract!Spec

\* The server holds an AK of the device only when some handshake was proved, and it
\* goes on doing so whatever becomes of later handshakes.
THEOREM EnrolledByAProof ==
  ASSUME OneHandlePerProcess
  PROVE  Spec => [](serverAk # NoKey => \E i \in Ids : HandshakePhase[i] = "proved")
<1> DEFINE ByProof == serverAk # NoKey => \E i \in Ids : HandshakePhase[i] = "proved"
<1>1. Abstract!Init => ByProof
  BY DEF Abstract!Init
<1>2. ByProof /\ [LivesOnce]_HandshakePhase /\ [Abstract!Next]_<<HandshakePhase, serverAk # NoKey>>
        => ByProof'
  <2> SUFFICES ASSUME ByProof, [LivesOnce]_HandshakePhase,
                      [Abstract!Next]_<<HandshakePhase, serverAk # NoKey>>, serverAk' # NoKey
               PROVE  \E i \in Ids : HandshakePhase'[i] = "proved"
    OBVIOUS
  <2>1. \E i \in Ids : HandshakePhase[i] = "proved"
    <3>1. CASE serverAk # NoKey
      BY <3>1
    <3>2. CASE ~(serverAk # NoKey)
      <4>1. (serverAk' # NoKey) # (serverAk # NoKey)
        BY <3>2
      <4>2. Abstract!Enroll
        BY <4>1 DEF Abstract!Next, Abstract!Begin, Abstract!MakeDurable, Abstract!Prove, Abstract!Abandon
      <4>3. QED BY <4>2 DEF Abstract!Enroll, Abstract!In
    <3>3. QED BY <3>1, <3>2
  <2>2. PICK i \in Ids : HandshakePhase[i] = "proved"
    BY <2>1
  <2>3. HandshakePhase'[i] = "proved"
    BY <2>2 DEF LivesOnce, Lives
  <2>4. QED BY <2>3
<1>3. QED
  BY <1>1, <1>2, EnrollmentImplementsHandshake, HandshakesLiveOnce, PTL
  DEF ImplementsHandshake, Abstract!Spec
=============================================================================
