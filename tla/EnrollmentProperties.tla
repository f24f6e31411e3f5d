------------------------ MODULE EnrollmentProperties ------------------------
(***************************************************************************)
(* What the enrollment handshake of module Enrollment must satisfy.        *)
(***************************************************************************)
EXTENDS Enrollment

EnrollBody   == [from : Ids, ak : Keys]
Challenge    == [ak : Keys, secret : 1..MaxSecrets]
ActivateBody == [from : Ids, secret : 1..MaxSecrets]

\* The type of every variable; ret, in particular, only ever holds a code of the
\* public ABI (rootherald.h), never one of the internal protocol.h codes.
TypeOK ==
  /\ pc \in [Threads -> {"idle"} \cup BeginSteps \cup CompleteSteps]
  /\ this \in [Threads -> Ids \cup {NoProvider}]
  /\ arg \in [Threads -> Challenge \cup {Malformed}]
  /\ ret \in [Threads -> Status]
  /\ mock \in [Handles -> BOOLEAN]
  /\ inflight \in [Procs -> Ids \cup {NoProvider}]
  /\ nextId \in 1..(MaxBegins + 1)
  /\ loaded \in SUBSET (Ids \X Objects)
  /\ slot \in Keys \cup {NoKey}
  /\ seed \in Keys
  /\ faults \in 0..MaxFaults
  /\ enrollBodies \in SUBSET EnrollBody
  /\ challenges \in SUBSET Challenge
  /\ activateBodies \in SUBSET ActivateBody
  /\ serverAk \in Keys \cup {NoKey}
  /\ persisted \in SUBSET Keys

\* INTEGRATING.md lets workers share one handle, or have one each.  Whichever
\* they do, while an EnrollComplete runs, the provider in flight in its process
\* stays the one it found at entry: no other call replaces or destroys it
\* (g_enrollProvider, rootherald_win.cpp).
HandshakeNotStolen ==
  \A t \in Threads : pc[t] \in CompleteSteps => this[t] = Global(t)

\* The deployment in which the code owes HandshakeNotStolen: of the two that
\* INTEGRATING.md offers the one with a shared handle, whose mutex serializes the
\* calls of the process.  With a handle per worker, the other one, it is violated.
OneHandlePerProcess ==
  \A h1, h2 \in Handles : ProcOf[h1] = ProcOf[h2] => h1 = h2

\* The server never enrolls an AK that was not first made persistent on the
\* device: EnrollComplete releases the decrypted secret only after PersistAk,
\* whatever calls race, challenges are replayed or commands fail.
EnrolledAkWasPersisted == serverAk # NoKey => serverAk \in persisted

\* A handshake in flight can be completed: unless an EnrollComplete is at work
\* on it, its EK and AK are loaded, and its enroll body names the loaded AK.
InFlightCanComplete ==
  \A p \in Procs :
    \/ inflight[p] = NoProvider
    \/ \E t \in Threads : Proc(t) = p /\ pc[t] \in CompleteSteps
    \/ /\ {inflight[p]} \X {"ek", "ak"} \subseteq loaded
       /\ [from |-> inflight[p], ak |-> seed] \in enrollBodies

\* Nothing stays loaded in the TPM for a provider nobody holds: each object is of
\* a provider in flight or of the EnrollBegin that is creating it.
TransientsOwned ==
  \A o \in loaded :
    \/ \E p \in Procs : inflight[p] = o[1]
    \/ \E t \in Threads : this[t] = o[1] /\ pc[t] \in BeginSteps

\* No policy session outlives the EnrollComplete that started it, even when its
\* flush failed or the response that names it was lost.
SessionsScoped ==
  \A o \in loaded : o[2] = "session" =>
    \E t \in Threads : this[t] = o[1] /\ pc[t] \in CompleteSteps

\* A device whose current AK was persisted loses it only through a failure, a
\* crash or a TPM clear: re-enrollment, rejected challenges and concurrent
\* enrollments of several processes leave it at the persistent handle, but for
\* the moment between the two commands of EvictControl.
AkLostOnlyByFault ==
  \/ slot = seed
  \/ seed \notin persisted
  \/ faults > 0
  \/ \E t \in Threads : pc[t] = "evict"

-----------------------------------------------------------------------------
\* The handshakes of this module, as module Handshake sees them.
Proved(i)  == \E b \in activateBodies : b.from = i
Durable(i) == \E t \in Threads : pc[t] = "emit" /\ this[t] = i
Open(i)    == \E p \in Procs : inflight[p] = i
Begun(i)   == \E b \in enrollBodies : b.from = i

PhaseOf(i) == IF Proved(i) THEN "proved"
              ELSE IF Durable(i) THEN "durable"
              ELSE IF Open(i) THEN "open"
              ELSE IF Begun(i) THEN "closed"
              ELSE "unused"

HandshakePhase == [i \in Ids |-> PhaseOf(i)]

Abstract == INSTANCE Handshake WITH
  phase <- HandshakePhase, enrolled <- serverAk # NoKey

\* The handshake keeps the promise of module Handshake: one proof per begun
\* handshake, only once its AK is durable, none from a closed one, and no
\* enrollment without a proof.
ImplementsHandshake == Abstract!Spec

-----------------------------------------------------------------------------
(* Liveness.  A thread inside a call is never suspended for ever and every *)
(* TPM command is answered or fails (Tbsip_Submit_Command returns).        *)

CallFairness == \A t \in Threads : WF_vars(Step(t))

CallSpec == Spec /\ CallFairness

\* Every enrollment call that has begun ends: it returns, or its process exits.
\* Failed commands, a slot occupied by another enrollment and a provider that a
\* call on another handle of the process has reset leave none of them at work.
\* (A thread that waits for the mutex of its handle has not begun its call;
\* whether it ever gets the mutex is not claimed.)
CallsReturn == \A t \in Threads : pc[t] # "idle" ~> pc[t] = "idle"

\* The embedder and its backend relay both legs: INTEGRATING.md's recipe.  A
\* thread's EnrollComplete competes for the mutex, hence strong fairness.
RelayFairness ==
  /\ WF_vars(\E m \in enrollBodies : ServerEnroll(m))
  /\ WF_vars(\E m \in activateBodies : ServerActivate(m))
  /\ \A t \in Threads : SF_vars(\E c \in challenges : EnrollComplete(t, c))

RelaySpec == CallSpec /\ RelayFairness

\* Without failures, once a handshake is in flight, and however malformed
\* challenges, repeated begins and replays interleave, the device ends up
\* enrolled, with the enrolled AK at its persistent handle.
HandshakeConverges ==
  \A p \in Procs : inflight[p] # NoProvider ~> serverAk = seed /\ slot = seed
=============================================================================
