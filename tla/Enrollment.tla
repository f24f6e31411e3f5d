----------------------------- MODULE Enrollment -----------------------------
(***************************************************************************)
(* The keyless enrollment handshake of the Windows SDK: EnrollBegin and    *)
(* EnrollComplete of rootherald_client.cpp / rootherald_win.cpp over the   *)
(* raw-TBS key provider (tbs_key_provider.cpp, tpm_commands.cpp).          *)
(*                                                                         *)
(* A call holds the mutex of its client handle from entry to return.  The  *)
(* in-flight provider g_enrollProvider belongs to the PROCESS, the         *)
(* persistent AK slot and the loaded objects belong to the TPM, shared by  *)
(* all processes.  One action is one TPM command (or the code around it).  *)
(*                                                                         *)
(* AK and EK are primary keys of a constant template: the AK is a function *)
(* of the TPM's owner seed, so a key is named by the seed it derives from. *)
(***************************************************************************)
EXTENDS Naturals, FiniteSets

CONSTANTS
  Threads, Handles, Procs,  \* threads, client handles, processes
  HandleOf, ProcOf,         \* the handle a thread calls on, the process of it
  ElevatedProcs,            \* the processes IsProcessElevated() is true in
  MockAllowed,              \* may the embedder call SetMockTpm?
  MaxBegins,                \* bound: EnrollBegin calls that reach a provider
  MaxSecrets,               \* bound: challenges the server issues
  MaxSeeds,                 \* bound: TPM clears, plus one
  MaxFaults                 \* bound: failed commands, allocations and crashes

ASSUME ConstantsAssumption ==
  /\ HandleOf \in [Threads -> Handles]
  /\ ProcOf \in [Handles -> Procs]
  /\ ElevatedProcs \subseteq Procs
  /\ MockAllowed \in BOOLEAN
  /\ MaxBegins \in Nat /\ MaxSecrets \in Nat /\ MaxFaults \in Nat
  /\ MaxSeeds \in Nat \ {0}

VARIABLES
  pc,             \* where each thread is inside its call, "idle" outside
  this,           \* provider (Begin's local, or the callee's object), per thread
  arg,            \* challenge the running EnrollComplete was given
  ret,            \* public status each thread's last call returned
  mock,           \* RootHeraldClientImpl.mockTpm, per handle
  inflight,       \* g_enrollProvider, per process
  nextId,         \* next provider identity
  loaded,         \* TPM: <<provider, object>> loaded through its TBS context
  slot,           \* TPM: AK at the persistent handle, or NoKey
  seed,           \* TPM: owner seed, names the AK it derives
  faults,         \* failures so far
  enrollBodies,   \* /devices/enroll bodies handed to the embedder
  challenges,     \* answers of the server, in the embedder's hands
  activateBodies, \* /devices/activate bodies handed to the embedder
  serverAk,       \* server: AK stored at enrollment
  persisted       \* history: AKs that have been at the persistent handle

callVars  == <<pc, this, arg, ret>>
tpmVars   == <<loaded, slot, seed, persisted>>
relayVars == <<enrollBodies, challenges, activateBodies, serverAk>>
vars == <<callVars, mock, inflight, nextId, tpmVars, faults, relayVars>>

NoKey      == 0
NoProvider == 0
Keys       == 1..MaxSeeds
Ids        == 1..MaxBegins
Objects    == {"ek", "ak", "session"}
Malformed  == [ak |-> NoKey, secret |-> 0]  \* a required field is missing

BeginSteps    == {"gather", "createEk", "createAk", "hold"}
CompleteSteps == {"session", "activate", "reject", "probe", "clear", "evict",
                  "unpersisted", "emit"}

Proc(t)   == ProcOf[HandleOf[t]]
Global(t) == inflight[Proc(t)]              \* g_enrollProvider as t reads it
OwnedBy(i) == {i} \X Objects

\* Mutant: the facade forgets its lock_guard.
Locked_NoMutex(h) == FALSE

\* The handle's std::mutex, held by a lock_guard for the whole call.
Locked(h) == \E t \in Threads : HandleOf[t] = h /\ pc[t] # "idle"

Fault   == faults < MaxFaults /\ faults' = faults + 1
NoFault == UNCHANGED faults

Status == {"OK", "INVALID_ARG", "NOT_ENROLLED", "SERVER", "INTERNAL",
           "TPM_UNAVAILABLE", "NETWORK", "ELEVATION_REQUIRED"}

\* Mutant: the RH_PROTO_ code is returned as if it were a public status.
MapRootHeraldStatus_Raw(r) == r

\* MapRootHeraldStatus, RH_PROTO_ code to public status.
MapRootHeraldStatus(r) ==
  CASE r \in {"OK", "ALREADY_ENROLLED"}                  -> "OK"
    [] r \in {"ATTESTATION_FAILED", "ENROLLMENT_FAILED"} -> "SERVER"
    [] r = "INVALID_PARAM"                               -> "INVALID_ARG"
    [] r = "NO_TPM"                                      -> "TPM_UNAVAILABLE"
    [] r \in {"NOT_ENROLLED", "NETWORK", "ELEVATION_REQUIRED"} -> r
    [] OTHER                                             -> "INTERNAL"

Init ==
  /\ pc = [t \in Threads |-> "idle"]
  /\ this = [t \in Threads |-> NoProvider]
  /\ arg = [t \in Threads |-> Malformed]
  /\ ret = [t \in Threads |-> "OK"]
  /\ mock = [h \in Handles |-> FALSE]
  /\ inflight = [p \in Procs |-> NoProvider]
  /\ nextId = 1
  /\ loaded = {} /\ slot = NoKey /\ seed = 1 /\ persisted = {}
  /\ faults = 0
  /\ enrollBodies = {} /\ challenges = {} /\ activateBodies = {}
  /\ serverAk = NoKey

-----------------------------------------------------------------------------
(* Calls. *)

Goto(t, step) == /\ pc' = [pc EXCEPT ![t] = step]
                 /\ UNCHANGED <<arg, ret>>

Return(t, r) == /\ pc' = [pc EXCEPT ![t] = "idle"]
                /\ this' = [this EXCEPT ![t] = NoProvider]
                /\ arg' = [arg EXCEPT ![t] = Malformed]
                /\ ret' = [ret EXCEPT ![t] = MapRootHeraldStatus(r)]

\* Mutant: the destructor does not close the TBS context.
Destroyed_KeepsContext(i) == loaded

\* ~TbsKeyProvider: flush the handles, close the TBS context; with the context
\* TBS drops whatever was loaded through it.
Destroyed(i) == loaded \ OwnedBy(i)

\* g_enrollProvider.reset()
ResetGlobal(t) == /\ inflight' = [inflight EXCEPT ![Proc(t)] = NoProvider]
                  /\ loaded' = Destroyed(Global(t))

\* Null arguments are refused before the mutex is taken.
BadArguments(t) ==
  /\ pc[t] = "idle"
  /\ Return(t, "INVALID_PARAM")
  /\ UNCHANGED <<mock, inflight, nextId, tpmVars, faults, relayVars>>

SetMockTpm(t, on) ==
  /\ MockAllowed /\ pc[t] = "idle" /\ ~Locked(HandleOf[t])
  /\ mock' = [mock EXCEPT ![HandleOf[t]] = on]
  /\ UNCHANGED <<callVars, inflight, nextId, tpmVars, faults, relayVars>>

\* The entry of either enrollment call, its mutex taken.
Enter(t) == pc[t] = "idle" /\ ~Locked(HandleOf[t])

\* Mock mode: a canned body, which no server accepts, and no TPM.
EnrollMocked(t) ==
  /\ Enter(t) /\ mock[HandleOf[t]]
  /\ \/ NoFault /\ Return(t, "OK")
     \/ Fault /\ Return(t, "INTERNAL")
  /\ UNCHANGED <<mock, inflight, nextId, tpmVars, relayVars>>

-----------------------------------------------------------------------------
(* RootHeraldEnrollBegin. *)

BeginUnelevated(t) ==
  /\ Enter(t) /\ ~mock[HandleOf[t]] /\ Proc(t) \notin ElevatedProcs
  /\ Return(t, "ELEVATION_REQUIRED")
  /\ UNCHANGED <<mock, inflight, nextId, tpmVars, faults, relayVars>>

EnrollBegin(t) ==
  /\ Enter(t) /\ ~mock[HandleOf[t]] /\ Proc(t) \in ElevatedProcs
  /\ nextId \in Ids
  /\ this' = [this EXCEPT ![t] = nextId]
  /\ nextId' = nextId + 1
  /\ Goto(t, "gather")
  /\ UNCHANGED <<mock, inflight, tpmVars, faults, relayVars>>

\* GatherEkEnrollData, then provider->Open().
GatherEk(t) ==
  /\ pc[t] = "gather"
  /\ \/ NoFault /\ Goto(t, "createEk") /\ UNCHANGED this
     \/ Fault /\ Return(t, "ENROLLMENT_FAILED")
  /\ UNCHANGED <<mock, inflight, nextId, tpmVars, relayVars>>

\* Mutant: a new key is created only once the old persistent one is deleted.
CreateEk_DeletesPersisted(t) ==
  /\ pc[t] = "createEk" /\ NoFault /\ Goto(t, "createAk")
  /\ loaded' = loaded \cup {<<this[t], "ek">>} /\ slot' = NoKey
  /\ UNCHANGED <<this, mock, inflight, nextId, seed, persisted, relayVars>>

CreateEk(t) ==
  /\ pc[t] = "createEk"
  /\ \/ /\ NoFault /\ Goto(t, "createAk")
        /\ loaded' = loaded \cup {<<this[t], "ek">>}
        /\ UNCHANGED this
     \/ /\ Fault /\ Return(t, "ENROLLMENT_FAILED")
        /\ loaded' = Destroyed(this[t])
  /\ UNCHANGED <<mock, inflight, nextId, slot, seed, persisted, relayVars>>

CreateAndLoadAk(t) ==
  /\ pc[t] = "createAk"
  /\ \/ /\ NoFault /\ Goto(t, "hold")
        /\ loaded' = loaded \cup {<<this[t], "ak">>}
        /\ UNCHANGED this
     \/ /\ Fault /\ Return(t, "ENROLLMENT_FAILED")
        /\ loaded' = Destroyed(this[t])
  /\ UNCHANGED <<mock, inflight, nextId, slot, seed, persisted, relayVars>>

\* Emit the body and make the provider the in-flight one; the move destroys
\* the provider that was in flight before.
HoldProvider(t) ==
  /\ pc[t] = "hold"
  /\ \/ /\ NoFault /\ Return(t, "OK")
        /\ enrollBodies' = enrollBodies \cup {[from |-> this[t], ak |-> seed]}
        /\ inflight' = [inflight EXCEPT ![Proc(t)] = this[t]]
        /\ loaded' = Destroyed(Global(t))
     \/ /\ Fault /\ Return(t, "INTERNAL")
        /\ loaded' = Destroyed(this[t])
        /\ UNCHANGED <<enrollBodies, inflight>>
  /\ UNCHANGED <<mock, nextId, slot, seed, persisted,
                 challenges, activateBodies, serverAk>>

-----------------------------------------------------------------------------
(* RootHeraldEnrollComplete. *)

CompleteNoState(t) ==
  /\ Enter(t) /\ ~mock[HandleOf[t]] /\ Global(t) = NoProvider
  /\ Return(t, "NOT_ENROLLED")
  /\ UNCHANGED <<mock, inflight, nextId, tpmVars, faults, relayVars>>

\* Mutant: a malformed challenge ends the handshake.
CompleteMalformed_Resets(t) ==
  /\ Enter(t) /\ ~mock[HandleOf[t]] /\ Global(t) # NoProvider
  /\ ResetGlobal(t)
  /\ Return(t, "INVALID_PARAM")
  /\ UNCHANGED <<mock, nextId, slot, seed, persisted, faults, relayVars>>

\* The provider stays in flight: the caller may retry with a whole challenge.
CompleteMalformed(t) ==
  /\ Enter(t) /\ ~mock[HandleOf[t]] /\ Global(t) # NoProvider
  /\ Return(t, "INVALID_PARAM")
  /\ UNCHANGED <<mock, inflight, nextId, tpmVars, faults, relayVars>>

EnrollComplete(t, c) ==
  /\ Enter(t) /\ ~mock[HandleOf[t]] /\ Global(t) # NoProvider
  /\ pc' = [pc EXCEPT ![t] = "session"]
  /\ arg' = [arg EXCEPT ![t] = c]
  /\ this' = [this EXCEPT ![t] = Global(t)]
  /\ UNCHANGED <<ret, mock, inflight, nextId, tpmVars, faults, relayVars>>

\* A member call starts: g_enrollProvider-> is dereferenced afresh.
Deref(t) == Global(t) # NoProvider /\ this' = [this EXCEPT ![t] = Global(t)]

\* A member call goes on, its object still alive.
Alive(t) == this[t] = Global(t)

StartAuthSession(t) ==
  /\ pc[t] = "session" /\ Deref(t)
  /\ \/ /\ NoFault
        /\ {Global(t)} \X {"ek", "ak"} \subseteq loaded
        /\ loaded' = loaded \cup {<<Global(t), "session">>}
        /\ Goto(t, "activate")
     \/ /\ NoFault
        /\ ~({Global(t)} \X {"ek", "ak"} \subseteq loaded)
        /\ UNCHANGED loaded
        /\ Goto(t, "reject")
     \/ /\ Fault  \* the response may be lost after the session was made
        /\ loaded' \in {loaded, loaded \cup {<<Global(t), "session">>}}
        /\ Goto(t, "reject")
  /\ UNCHANGED <<mock, inflight, nextId, slot, seed, persisted, relayVars>>

\* PolicySecret, ActivateCredential, and the flush of the session on every
\* path.  The TPM yields the secret only if the challenge was sealed to the
\* Name of the loaded AK.  The flush's own failure goes unnoticed.
ActivateCredential(t) ==
  /\ pc[t] = "activate" /\ Alive(t)
  /\ \/ /\ arg[t].ak = seed /\ Goto(t, "probe")
        /\ \/ NoFault /\ loaded' = loaded \ {<<this[t], "session">>}
           \/ Fault /\ UNCHANGED loaded
     \/ /\ Goto(t, "reject")
        /\ \/ NoFault /\ arg[t].ak # seed
           \/ Fault
        /\ loaded' = loaded \ {<<this[t], "session">>}
  /\ UNCHANGED <<this, mock, inflight, nextId, slot, seed, persisted, relayVars>>

\* Mutant: DeleteAk, but no reset.
RejectChallenge_KeepsProvider(t) ==
  /\ pc[t] = "reject" /\ Global(t) # NoProvider
  /\ loaded' = loaded \ ({Global(t)} \X {"ek", "ak"})
  /\ Return(t, "ATTESTATION_FAILED")
  /\ UNCHANGED <<mock, inflight, nextId, slot, seed, persisted, faults, relayVars>>

\* ActivateCredential returned nothing: DeleteAk, reset.  DeleteAk leaves the
\* persistent slot alone.
RejectChallenge(t) ==
  /\ pc[t] = "reject" /\ Global(t) # NoProvider
  /\ ResetGlobal(t)
  /\ Return(t, "ATTESTATION_FAILED")
  /\ UNCHANGED <<mock, nextId, slot, seed, persisted, faults, relayVars>>

\* Mutant: an occupied slot is waited for instead of being cleared.
ProbeSlot_AwaitsEmpty(t) ==
  /\ pc[t] = "probe" /\ Deref(t) /\ slot = NoKey
  /\ NoFault /\ Goto(t, "evict")
  /\ UNCHANGED <<mock, inflight, nextId, tpmVars, relayVars>>

\* PersistAk -> EvictControl: IsPersistentPresent.  A probe that fails reads as
\* an empty slot.
ProbeSlot(t) ==
  /\ pc[t] = "probe" /\ Deref(t)
  /\ \/ NoFault /\ Goto(t, IF slot # NoKey THEN "clear" ELSE "evict")
     \/ Fault /\ Goto(t, "evict")
  /\ UNCHANGED <<mock, inflight, nextId, tpmVars, relayVars>>

\* TPM2_EvictControl with the slot as object.  A command that fails for this
\* process may have been executed, its response lost.
ClearSlot(t) ==
  /\ pc[t] = "clear" /\ Alive(t)
  /\ \/ NoFault /\ slot # NoKey /\ slot' = NoKey /\ Goto(t, "evict")
     \/ NoFault /\ slot = NoKey /\ UNCHANGED slot /\ Goto(t, "unpersisted")
     \/ Fault /\ slot' \in {slot, NoKey} /\ Goto(t, "unpersisted")
  /\ UNCHANGED <<this, mock, inflight, nextId, loaded, seed, persisted, relayVars>>

\* TPM2_EvictControl of the transient AK, refused while the slot is occupied.
EvictAk(t) ==
  /\ pc[t] = "evict" /\ Alive(t)
  /\ \/ /\ NoFault /\ slot = NoKey
        /\ slot' = seed /\ persisted' = persisted \cup {seed}
        /\ loaded' = loaded \ ({this[t]} \X {"ek", "ak"})
        /\ Goto(t, "emit")
     \/ /\ NoFault /\ slot # NoKey
        /\ UNCHANGED <<slot, persisted, loaded>> /\ Goto(t, "unpersisted")
     \/ /\ Fault /\ UNCHANGED loaded /\ Goto(t, "unpersisted")
        /\ \/ UNCHANGED <<slot, persisted>>
           \/ slot = NoKey /\ slot' = seed /\ persisted' = persisted \cup {seed}
  /\ UNCHANGED <<this, mock, inflight, nextId, seed, relayVars>>

\* The provider goes, the body goes out; if it cannot be allocated the secret
\* is lost although the AK is already persistent.
EmitBody(t) ==
  /\ ResetGlobal(t)
  /\ \/ /\ NoFault /\ Return(t, "OK")
        /\ activateBodies' = activateBodies \cup
                               {[from |-> this[t], secret |-> arg[t].secret]}
     \/ Fault /\ Return(t, "INTERNAL") /\ UNCHANGED activateBodies
  /\ UNCHANGED <<mock, nextId, slot, seed, persisted,
                 enrollBodies, challenges, serverAk>>

\* Mutant: the result of PersistAk is not looked at.
PersistFailed_Ignored(t) == pc[t] = "unpersisted" /\ EmitBody(t)

PersistFailed(t) ==
  /\ pc[t] = "unpersisted"
  /\ ResetGlobal(t)
  /\ Return(t, "ENROLLMENT_FAILED")
  /\ UNCHANGED <<mock, nextId, slot, seed, persisted, faults, relayVars>>

EmitActivation(t) == pc[t] = "emit" /\ EmitBody(t)

-----------------------------------------------------------------------------
(* Environment: process exit, TPM clear, the server behind the relay. *)

\* The processes of S are gone: threads, in-flight providers, TBS contexts.
Exit(S) ==
  LET dead(t) == Proc(t) \in S
      providers == {inflight[p] : p \in S} \cup {this[t] : t \in {u \in Threads : dead(u)}}
  IN  /\ pc' = [t \in Threads |-> IF dead(t) THEN "idle" ELSE pc[t]]
      /\ this' = [t \in Threads |-> IF dead(t) THEN NoProvider ELSE this[t]]
      /\ arg' = [t \in Threads |-> IF dead(t) THEN Malformed ELSE arg[t]]
      /\ ret' = [t \in Threads |-> IF dead(t) THEN "OK" ELSE ret[t]]
      /\ mock' = [h \in Handles |-> IF ProcOf[h] \in S THEN FALSE ELSE mock[h]]
      /\ inflight' = [p \in Procs |-> IF p \in S THEN NoProvider ELSE inflight[p]]
      /\ loaded' = loaded \ (providers \X Objects)

Crash(p) == /\ Fault /\ Exit({p})
            /\ UNCHANGED <<nextId, slot, seed, persisted, relayVars>>

\* A member call on no object, or on one another thread destroyed meanwhile, is
\* undefined behaviour; here the process dies of it.
UseAfterReset(t) ==
  /\ \/ pc[t] \in {"session", "reject", "probe"} /\ Global(t) = NoProvider
     \/ pc[t] \in {"activate", "clear", "evict"} /\ ~Alive(t)
  /\ Exit({Proc(t)})
  /\ UNCHANGED <<nextId, slot, seed, persisted, faults, relayVars>>

\* TPM2_Clear from the firmware: a new owner seed, an empty slot, a reboot.
TpmClear ==
  /\ seed < MaxSeeds
  /\ Exit(Procs)
  /\ seed' = seed + 1 /\ slot' = NoKey
  /\ UNCHANGED <<persisted, nextId, faults, relayVars>>

\* /devices/enroll: MakeCredential seals a fresh secret to the EK and the AK Name.
ServerEnroll(m) ==
  LET s == Cardinality(challenges) + 1
  IN  /\ s <= MaxSecrets
      /\ challenges' = challenges \cup {[ak |-> m.ak, secret |-> s]}
      /\ UNCHANGED <<callVars, mock, inflight, nextId, tpmVars, faults,
                     enrollBodies, activateBodies, serverAk>>

\* /devices/activate: the returned secret identifies the AK it was sealed to.
ServerActivate(m) ==
  /\ \E c \in challenges : c.secret = m.secret /\ serverAk' = c.ak
  /\ UNCHANGED <<callVars, mock, inflight, nextId, tpmVars, faults,
                 enrollBodies, challenges, activateBodies>>

-----------------------------------------------------------------------------
Call(t) ==
  \/ BadArguments(t) \/ EnrollMocked(t)
  \/ \E on \in BOOLEAN : SetMockTpm(t, on)
  \/ BeginUnelevated(t) \/ EnrollBegin(t)
  \/ CompleteNoState(t) \/ CompleteMalformed(t)
  \/ \E c \in challenges : EnrollComplete(t, c)

Step(t) ==
  \/ GatherEk(t) \/ CreateEk(t) \/ CreateAndLoadAk(t) \/ HoldProvider(t)
  \/ StartAuthSession(t) \/ ActivateCredential(t) \/ RejectChallenge(t)
  \/ ProbeSlot(t) \/ ClearSlot(t) \/ EvictAk(t) \/ PersistFailed(t)
  \/ EmitActivation(t) \/ UseAfterReset(t)

Server == \/ \E m \in enrollBodies : ServerEnroll(m)
          \/ \E m \in activateBodies : ServerActivate(m)

Next ==
  \/ \E t \in Threads : Call(t) \/ Step(t)
  \/ \E p \in Procs : Crash(p)
  \/ TpmClear
  \/ Server

Spec == Init /\ [][Next]_vars
=============================================================================
