------------------------- MODULE EvidenceProperties -------------------------
(***************************************************************************)
(* What CollectEvidence (module Evidence) must satisfy.                    *)
(***************************************************************************)
EXTENDS Evidence, EnrollmentProperties

QuoteType == [ak : Keys \cup {NoKey}, nonce : Nonces \cup {EmptyNonce}, pcrs : PcrValues]

\* The type of every variable of the collection; again no internal code is
\* returned, and no call reads more PCRs than it quotes.
EvidenceTypeOK ==
  /\ TypeOK
  /\ pcr \in PcrValues
  /\ cpc \in [Collectors -> {"idle"} \cup CollectSteps]
  /\ nonce \in [Collectors -> Nonces \cup {EmptyNonce}]
  /\ \A c \in Collectors : /\ Len(reported[c]) <= NumPcrs
                           /\ \A i \in DOMAIN reported[c] : reported[c][i] \in 0..MaxMeasurements
  /\ quote \in [Collectors -> QuoteType]
  /\ cret \in [Collectors -> Status]
  /\ \A c \in Collectors : evidence[c].quote \in QuoteType

Emitted == {c \in Collectors : evidence[c] # NoEvidence}

\* The three views of the PCRs in one blob (values read, values quoted, values the
\* event log replays to) were taken at different times and may differ, but only
\* if software was measured during the call, and then only forward: what was read
\* first is never ahead of what was quoted, nor that of what the log shows.
EvidenceCoherent ==
  \A c \in Emitted :
    LET e == evidence[c] IN
      \A i \in Pcrs :
        /\ e.reported[i] <= e.quote.pcrs[i]
        /\ e.replayed # NoLog => e.quote.pcrs[i] <= e.replayed[i]
        /\ e.calm => /\ e.reported[i] = e.quote.pcrs[i]
                     /\ e.replayed # NoLog => e.replayed[i] = e.quote.pcrs[i]

\* On a device that holds its AK when the call starts, and where nothing fails,
\* NOT_ENROLLED and the quote's failure mean that an enrollment was swapping the
\* AK at the persistent handle during the call, and nothing else.
RefusedOnlyDuringSwap ==
  \A c \in Collectors :
    cret[c] \in {"NOT_ENROLLED", "SERVER"} /\ window[c].held /\ faults = 0
      => window[c].swap \/ cpc[c] # "idle"

-----------------------------------------------------------------------------
(* Liveness.  The embedder of the recovery INTEGRATING.md describes: it      *)
(* collects again with each nonce, enrolls on NOT_ENROLLED, and its backend  *)
(* relays.  Commands return; nothing fails.                                  *)

CollectFairness ==
  \A c \in Collectors :
    /\ WF_evidenceVars(Collect(c) /\ Watch)
    /\ SF_evidenceVars(\E n \in Nonces : CollectEvidence(c, n))

EnrollOnDemand ==
  \E t \in Threads : /\ EnrollBegin(t)
                     /\ \E c \in Collectors : cret[c] = "NOT_ENROLLED"
                     /\ UNCHANGED <<pcr, collectorVars>> /\ Watch

RelayAgain ==
  LET With(A) == A /\ UNCHANGED <<pcr, collectorVars>> /\ Watch
  IN  /\ SF_evidenceVars(EnrollOnDemand)
      /\ \A t \in Threads : WF_evidenceVars(With(Step(t)))
      /\ SF_evidenceVars(With(\E m \in enrollBodies : ServerEnroll(m)))
      /\ WF_evidenceVars(With(\E m \in activateBodies : ServerActivate(m)))
      /\ \A t \in Threads :
           SF_evidenceVars(With(\E c \in challenges : EnrollComplete(t, c)))

RecoverySpec == EvidenceSpec /\ CollectFairness /\ RelayAgain

\* A collector that was told NOT_ENROLLED, before an enrollment or in the middle
\* of one, gets its evidence in the end.
NotEnrolledRecovers ==
  \A c \in Collectors :
    cret[c] = "NOT_ENROLLED" ~> c \in Emitted /\ cret[c] = "OK"
=============================================================================
