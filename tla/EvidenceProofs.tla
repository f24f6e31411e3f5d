--------------------------- MODULE EvidenceProofs ---------------------------
(***************************************************************************)
(* Evidence collected beside enrollments: what one blob shows of the PCRs  *)
(* is coherent, and NOT_ENROLLED on an enrolled device is due to an        *)
(* enrollment at work during the call.                                     *)
(***************************************************************************)
EXTENDS EvidenceProperties, EnrollmentKeyProofs, SequenceTheorems

Readings == 0..MaxMeasurements
Evidences == [quote : QuoteType, reported : Seq(Readings),
              replayed : PcrValues \cup {NoLog}, calm : BOOLEAN]

\* The types of the collection's variables, as functions.
CollectorsTyped ==
  /\ cpc \in [Collectors -> {"idle"} \cup CollectSteps]
  /\ nonce \in [Collectors -> Nonces \cup {EmptyNonce}]
  /\ reported \in [Collectors -> Seq(Readings)]
  /\ \A c \in Collectors : Len(reported[c]) <= NumPcrs
  /\ quote \in [Collectors -> QuoteType]
  /\ cret \in [Collectors -> Status]
  /\ evidence \in [Collectors -> Evidences]

Windows == [held : BOOLEAN, swap : BOOLEAN, measured : BOOLEAN]

CollectionTyped ==
  pcr \in PcrValues /\ CollectorsTyped /\ window \in [Collectors -> Windows]

\* What a collector knows: the values it has read and quoted are old values of the
\* PCRs, and the present ones if nothing was measured since its call began.
ReadsBehind(c) ==
  cpc[c] = "pcrs" =>
    \A i \in 1..Len(reported[c]) :
      /\ reported[c][i] <= pcr[i]
      /\ ~window[c].measured => reported[c][i] = pcr[i]

QuoteBetween(c) ==
  cpc[c] = "log" =>
    \A i \in Pcrs :
      /\ reported[c][i] <= quote[c].pcrs[i] /\ quote[c].pcrs[i] <= pcr[i]
      /\ ~window[c].measured => /\ reported[c][i] = quote[c].pcrs[i]
                                /\ quote[c].pcrs[i] = pcr[i]

\* A call that has read nothing yet has nothing to report, one that quotes has
\* read every PCR.
ReadInOrder(c) ==
  /\ cpc[c] \in {"idle", "probe", "open"} => reported[c] = <<>>
  /\ cpc[c] = "log" => Len(reported[c]) = NumPcrs

ViewsInv ==
  /\ \A c \in Collectors : ReadsBehind(c) /\ QuoteBetween(c) /\ ReadInOrder(c)
  /\ EvidenceCoherent

\* A call that began with the AK in place finds it there, fails, or has seen an
\* enrollment swap it.
AkSeen(c) ==
  cpc[c] # "idle" /\ window[c].held =>
    /\ seed \in persisted
    /\ slot = seed \/ window[c].swap \/ faults > 0

-----------------------------------------------------------------------------
(* The steps. *)

\* What the collection does with the enrollments' variables is to fail commands.
FailsOnly ==
  /\ UNCHANGED <<callVars, mock, inflight, nextId, tpmVars, relayVars>>
  /\ Fault \/ NoFault

\* A step of one collector.
CollectorStep(c) ==
  \/ \E n \in Nonces \cup {EmptyNonce} : CollectEvidence(c, n)
  \/ Collect(c) /\ Watch

\* Such a step only fails commands, and measures nothing.
LEMMA CollectorsFailOnly ==
  ASSUME NEW c \in Collectors, CollectorStep(c) PROVE FailsOnly /\ UNCHANGED pcr
<1> USE DEF At
<1>1. ASSUME NEW n, CollectEvidence(c, n) PROVE FailsOnly /\ UNCHANGED pcr
  BY <1>1 DEF CollectEvidence, FailsOnly
<1>2. CASE SelectEnrolledProvider(c) BY <1>2 DEF SelectEnrolledProvider, FailsOnly
<1>3. CASE OpenTpm(c)                BY <1>3 DEF OpenTpm, FailsOnly
<1>4. CASE PcrRead(c)                BY <1>4 DEF PcrRead, FailsOnly
<1>5. CASE Quote(c)                  BY <1>5 DEF Quote, FailsOnly
<1>6. CASE EmitEvidence(c)
  BY <1>6 DEF EmitEvidence, FailsOnly, Fault, NoFault
<1>7. QED
  BY <1>1, <1>2, <1>3, <1>4, <1>5, <1>6 DEF CollectorStep, Collect

\* Every step is one of a collector, a measurement, a reboot or an enrollment's.
LEMMA EvidenceSteps ==
  ASSUME [EvidenceNext]_evidenceVars
  PROVE  \/ \E c \in Collectors : CollectorStep(c)
         \/ (\E i \in Pcrs : Measure(i)) /\ Watch
         \/ Reboot /\ Watch
         \/ EnrollmentNext /\ Watch
         \/ UNCHANGED evidenceVars
BY DEF EvidenceNext, CollectorStep

\* Seen from the enrollments, the collection is a source of failures.
LEMMA SeenFromEnrollments ==
  ASSUME [EvidenceNext]_evidenceVars PROVE [Next]_vars \/ FailsOnly
<1>1. ASSUME NEW c \in Collectors, CollectorStep(c) PROVE FailsOnly
  BY <1>1, CollectorsFailOnly
<1>2. ASSUME NEW i \in Pcrs, Measure(i) PROVE UNCHANGED vars
  BY <1>2 DEF Measure
<1>3. CASE Reboot          BY <1>3 DEF Reboot, Next
<1>4. CASE EnrollmentNext  BY <1>4 DEF EnrollmentNext, Next
<1>5. CASE UNCHANGED evidenceVars BY <1>5 DEF evidenceVars
<1>6. QED BY <1>1, <1>2, <1>3, <1>4, <1>5, EvidenceSteps

-----------------------------------------------------------------------------
(* Types. *)

\* The enrollments keep their types beside a collection.
LEMMA EnrollmentTypeStep ==
  ASSUME TypeInv, [EvidenceNext]_evidenceVars PROVE TypeInv'
<1>1. CASE FailsOnly
  BY <1>1, FaultType
     DEF FailsOnly, callVars, tpmVars, relayVars, TypeInv, TypeOK, ActiveCalls
<1>2. QED BY <1>1, TypeStep, SeenFromEnrollments

\* The initial collection.
LEMMA CollectionInit == EvidenceInit => CollectionTyped
<1> SUFFICES ASSUME EvidenceInit PROVE CollectionTyped
  OBVIOUS
<1>1. <<>> \in Seq(Readings) /\ Len(<<>>) = 0
  OBVIOUS
<1>2. [i \in Pcrs |-> 0] \in PcrValues
  BY EvidenceAssumption DEF PcrValues, Readings
<1>3. NoQuote \in QuoteType
  BY <1>2 DEF NoQuote, QuoteType
<1>4. NoEvidence \in Evidences
  BY <1>1, <1>3 DEF NoEvidence, Evidences
<1>5. QED
  BY <1>1, <1>2, <1>3, <1>4, EvidenceAssumption
     DEF EvidenceInit, CollectionTyped, CollectorsTyped, Windows, Status

\* An answer ends the call with a status of the public ABI.
LEMMA AnswerType ==
  ASSUME CollectorsTyped, NEW c \in Collectors, NEW r, Answer(c, r),
         evidence' \in [Collectors -> Evidences]
  PROVE  CollectorsTyped'
<1>1. <<>> \in Seq(Readings) /\ Len(<<>>) = 0
  OBVIOUS
<1>2. NoQuote \in QuoteType
  BY EvidenceAssumption DEF NoQuote, QuoteType, PcrValues
<1>3. cret' \in [Collectors -> Status]
  BY StatusMapped DEF Answer, CollectorsTyped
<1>4. QED
  BY <1>1, <1>2, <1>3, EvidenceAssumption DEF Answer, Leave, CollectorsTyped

\* Watching keeps the type of the history.
LEMMA WatchType ==
  ASSUME window \in [Collectors -> Windows], Watch
  PROVE  window' \in [Collectors -> Windows]
<1>1. Swapping' \in BOOLEAN
  BY DEF Swapping
<1>2. QED BY <1>1 DEF Watch, Windows

\* Every step of a collector keeps its types.
LEMMA CollectorTypeStep ==
  ASSUME TypeInv, CollectionTyped, NEW c \in Collectors, CollectorStep(c)
  PROVE  CollectorsTyped'
<1> USE DEF CollectionTyped, CollectorsTyped, CollectSteps, GoOn
<1>1. ASSUME NEW n \in Nonces \cup {EmptyNonce}, CollectEvidence(c, n)
      PROVE  CollectorsTyped'
  BY <1>1 DEF CollectEvidence
<1>2. CASE SelectEnrolledProvider(c)
  BY <1>2, AnswerType DEF SelectEnrolledProvider, Refuse
<1>3. CASE OpenTpm(c)
  BY <1>3, AnswerType DEF OpenTpm, Refuse
<1>4. CASE PcrRead(c)
  <2>1. CASE /\ reported' = [reported EXCEPT ![c] = Append(@, pcr[Len(@) + 1])]
             /\ GoOn(c, "pcrs") /\ UNCHANGED <<nonce, quote>>
    <3>1. Len(reported[c]) \in Nat /\ Len(reported[c]) < NumPcrs
      BY <1>4 DEF PcrRead
    <3>2. pcr[Len(reported[c]) + 1] \in Readings
      BY <3>1, EvidenceAssumption DEF PcrValues, Pcrs, Readings
    <3>3. /\ Append(reported[c], pcr[Len(reported[c]) + 1]) \in Seq(Readings)
          /\ Len(Append(reported[c], pcr[Len(reported[c]) + 1])) = Len(reported[c]) + 1
      BY <3>2, AppendProperties
    <3>4. \A d \in Collectors : reported'[d] \in Seq(Readings) /\ Len(reported'[d]) <= NumPcrs
      BY <2>1, <3>1, <3>3, EvidenceAssumption
    <3>5. QED BY <2>1, <3>4
  <2>2. CASE Refuse(c, "ATTESTATION_FAILED")
    BY <2>2, AnswerType DEF Refuse
  <2>3. QED BY ONLY <1>4, <2>1, <2>2 DEF PcrRead, GoOn
<1>5. CASE Quote(c)
  <2>1. [ak |-> slot, nonce |-> nonce[c], pcrs |-> pcr] \in QuoteType
    BY DEF QuoteType, TypeInv, TypeOK
  <2>2. CASE Refuse(c, "ATTESTATION_FAILED")
    BY <2>2, AnswerType DEF Refuse
  <2>3. QED BY <1>5, <2>1, <2>2 DEF Quote
<1>6. CASE EmitEvidence(c)
  <2>1. CASE Refuse(c, "INTERNAL")
    BY <2>1, AnswerType DEF Refuse
  <2>2. ASSUME NEW l \in {pcr, NoLog}, Answer(c, "OK"),
               evidence' = [evidence EXCEPT ![c] =
                 [quote |-> quote[c], reported |-> reported[c], replayed |-> l,
                  calm |-> ~window[c].measured]]
        PROVE  CollectorsTyped'
    <3>1. window[c].measured \in BOOLEAN
      BY DEF Windows
    <3>2. [quote |-> quote[c], reported |-> reported[c], replayed |-> l,
           calm |-> ~window[c].measured] \in Evidences
      BY <3>1 DEF Evidences
    <3>3. evidence' \in [Collectors -> Evidences]
      BY <2>2, <3>2
    <3>4. QED BY <2>2, <3>3, AnswerType
  <2>3. QED BY <1>6, <2>1, <2>2 DEF EmitEvidence
<1>7. QED
  BY <1>1, <1>2, <1>3, <1>4, <1>5, <1>6 DEF CollectorStep, Collect

\* So does every step.
LEMMA CollectionTypeStep ==
  ASSUME TypeInv, CollectionTyped, [EvidenceNext]_evidenceVars PROVE CollectionTyped'
<1> USE DEF CollectionTyped
<1>1. ASSUME NEW c \in Collectors, CollectorStep(c) PROVE CollectionTyped'
  <2>1. CASE Watch
    BY <1>1, <2>1, WatchType, CollectorTypeStep, CollectorsFailOnly
  <2>2. ASSUME NEW n, CollectEvidence(c, n) PROVE CollectionTyped'
    <3>1. (slot = seed) \in BOOLEAN /\ Swapping \in BOOLEAN
      BY DEF Swapping
    <3>2. window' \in [Collectors -> Windows]
      BY <2>2, <3>1 DEF CollectEvidence, Windows
    <3>3. QED BY <1>1, <3>2, CollectorTypeStep, CollectorsFailOnly
  <2>3. QED BY <1>1, <2>1, <2>2 DEF CollectorStep
<1>2. ASSUME NEW i \in Pcrs, Measure(i), Watch PROVE CollectionTyped'
  <2>1. pcr' \in PcrValues
    BY <1>2, EvidenceAssumption DEF Measure, PcrValues
  <2>2. QED BY <1>2, <2>1, WatchType DEF Measure, collectorVars, CollectorsTyped
<1>3. CASE Reboot /\ Watch
  <2>1. <<>> \in Seq(Readings) /\ Len(<<>>) = 0
    OBVIOUS
  <2>2. pcr' \in PcrValues /\ NoQuote \in QuoteType
    BY <1>3, EvidenceAssumption DEF Reboot, PcrValues, NoQuote, QuoteType
  <2>3. CollectorsTyped'
    BY <1>3, <2>1, <2>2, EvidenceAssumption DEF Reboot, Leave, CollectorsTyped, Status
  <2>4. QED BY <1>3, <2>2, <2>3, WatchType
<1>4. CASE EnrollmentNext /\ Watch
  BY <1>4, WatchType DEF EnrollmentNext, collectorVars, CollectorsTyped
<1>5. CASE UNCHANGED evidenceVars
  BY <1>5 DEF evidenceVars, collectorVars, CollectorsTyped
<1>6. QED BY <1>1, <1>2, <1>3, <1>4, <1>5, EvidenceSteps

\* What the strengthening says of the functions, the invariant says of each value.
LEMMA TypedIsTypeOK == ASSUME TypeInv, CollectionTyped PROVE EvidenceTypeOK
<1>1. \A c \in Collectors : \A i \in DOMAIN reported[c] : reported[c][i] \in Readings
  BY LenProperties DEF CollectionTyped, CollectorsTyped
<1>2. \A c \in Collectors : evidence[c].quote \in QuoteType
  BY DEF CollectionTyped, CollectorsTyped, Evidences
<1>3. QED
  BY <1>1, <1>2 DEF TypeInv, CollectionTyped, CollectorsTyped, EvidenceTypeOK, Readings

\* The strengthened types hold always.
LEMMA CollectionTypes == EvidenceSpec => [](TypeInv /\ CollectionTyped)
<1>1. EvidenceInit => TypeInv /\ CollectionTyped
  BY TypeInit, CollectionInit DEF EvidenceInit
<1>2. TypeInv /\ CollectionTyped /\ [EvidenceNext]_evidenceVars
        => (TypeInv /\ CollectionTyped)'
  BY EnrollmentTypeStep, CollectionTypeStep
<1>3. QED BY <1>1, <1>2, PTL DEF EvidenceSpec

\* Beside enrollments the collection keeps its types: it returns public codes
\* only and never holds more readings than there are PCRs.
THEOREM EvidenceTypeCorrect == EvidenceSpec => []EvidenceTypeOK
BY CollectionTypes, TypedIsTypeOK, PTL

-----------------------------------------------------------------------------
(* The three views of the PCRs. *)

\* The blob e is coherent.
Coherent(e) ==
  \A i \in Pcrs :
    /\ e.reported[i] <= e.quote.pcrs[i]
    /\ e.replayed # NoLog => e.quote.pcrs[i] <= e.replayed[i]
    /\ e.calm => /\ e.reported[i] = e.quote.pcrs[i]
                 /\ e.replayed # NoLog => e.replayed[i] = e.quote.pcrs[i]

\* What one collector knows and has handed out.
CollectorViews(c) ==
  /\ ReadsBehind(c) /\ QuoteBetween(c) /\ ReadInOrder(c)
  /\ evidence[c] # NoEvidence => Coherent(evidence[c])

\* The invariant, collector by collector.
LEMMA ViewsByCollector == ViewsInv <=> \A c \in Collectors : CollectorViews(c)
BY DEF ViewsInv, CollectorViews, EvidenceCoherent, Emitted, Coherent

\* What watching notes during a call.
LEMMA WatchNotes ==
  ASSUME CollectionTyped, Watch, NEW c \in Collectors
  PROVE  /\ window'[c].held = window[c].held
         /\ cpc[c] = "idle" => window'[c] = window[c]
         /\ cpc[c] # "idle" => /\ window'[c].swap <=> window[c].swap \/ Swapping'
                               /\ window'[c].measured <=> window[c].measured \/ pcr' # pcr
<1>1. window[c] \in Windows
  BY DEF CollectionTyped
<1>2. CASE cpc[c] = "idle"
  BY <1>1, <1>2 DEF Watch
<1>3. CASE cpc[c] # "idle"
  <2>1. window'[c] = [window[c] EXCEPT !.swap = @ \/ Swapping', !.measured = @ \/ pcr' # pcr]
    BY <1>3 DEF Watch
  <2>2. QED BY <1>1, <1>3, <2>1 DEF Windows
<1>4. QED BY <1>2, <1>3

\* A step of one collector is none of another's business.
LEMMA OtherCollectors ==
  ASSUME CollectionTyped, NEW c \in Collectors, NEW d \in Collectors \ {c}, CollectorStep(c)
  PROVE  /\ cpc'[d] = cpc[d] /\ reported'[d] = reported[d] /\ quote'[d] = quote[d]
         /\ cret'[d] = cret[d] /\ evidence'[d] = evidence[d]
         /\ Watch \/ (window'[d] = window[d] /\ UNCHANGED faults)
<1> USE DEF CollectionTyped, CollectorsTyped, GoOn, Refuse, Answer, Leave
<1>1. ASSUME NEW n, CollectEvidence(c, n)
      PROVE  /\ cpc'[d] = cpc[d] /\ UNCHANGED <<reported, quote, cret, evidence, faults>>
             /\ window'[d] = window[d]
  BY <1>1 DEF CollectEvidence, NoFault
<1> DEFINE Same == /\ cpc'[d] = cpc[d] /\ reported'[d] = reported[d] /\ quote'[d] = quote[d]
                   /\ cret'[d] = cret[d] /\ evidence'[d] = evidence[d]
<1>2. ASSUME SelectEnrolledProvider(c) PROVE Same  BY <1>2 DEF SelectEnrolledProvider
<1>3. ASSUME OpenTpm(c) PROVE Same  BY <1>3 DEF OpenTpm
<1>4. ASSUME PcrRead(c) PROVE Same  BY <1>4 DEF PcrRead
<1>5. ASSUME Quote(c) PROVE Same  BY <1>5 DEF Quote
<1>6. ASSUME EmitEvidence(c) PROVE Same  BY <1>6 DEF EmitEvidence
<1>7. QED BY <1>1, <1>2, <1>3, <1>4, <1>5, <1>6 DEF CollectorStep, Collect

\* The end of a call forgets what was read.
LEMMA AnswerViews ==
  ASSUME CollectionTyped, NEW c \in Collectors, NEW r, Answer(c, r), CollectorViews(c),
         evidence'[c] = evidence[c] \/ Coherent(evidence'[c])
  PROVE  CollectorViews(c)'
<1>1. cpc'[c] = "idle" /\ reported'[c] = <<>>
  BY DEF Answer, Leave
<1>2. (evidence[c] # NoEvidence => Coherent(evidence[c]))'
  BY DEF CollectorViews, Coherent
<1>3. QED
  BY <1>1, <1>2 DEF CollectorViews, ReadsBehind, QuoteBetween, ReadInOrder

\* Every step of a call keeps what its collector knows of the PCRs.
LEMMA ViewsWithinCall ==
  ASSUME TypeInv, CollectionTyped, NEW c \in Collectors, CollectorViews(c), CollectorStep(c)
  PROVE  CollectorViews(c)'
<1>0. UNCHANGED pcr
  BY CollectorsFailOnly
<1> DEFINE Told == (evidence[c] # NoEvidence => Coherent(evidence[c]))'
<1>1. evidence'[c] = evidence[c] => Told
  BY DEF CollectorViews, Coherent
<1>2. ASSUME NEW n, CollectEvidence(c, n) PROVE CollectorViews(c)'
  <2>1. cpc'[c] = "probe" /\ reported'[c] = <<>> /\ Told
    BY <1>1, <1>2
       DEF CollectEvidence, At, GoOn, CollectorViews, ReadInOrder, CollectionTyped, CollectorsTyped
  <2>2. QED BY <2>1 DEF CollectorViews, ReadsBehind, QuoteBetween, ReadInOrder
<1>3. CASE SelectEnrolledProvider(c)
  <2>1. CASE GoOn(c, "open") /\ UNCHANGED reported /\ cpc[c] = "probe"
    <3>1. cpc'[c] = "open" /\ reported'[c] = <<>> /\ Told
      BY <1>1, <2>1 DEF GoOn, CollectorViews, ReadInOrder, CollectionTyped, CollectorsTyped
    <3>2. QED BY <3>1 DEF CollectorViews, ReadsBehind, QuoteBetween, ReadInOrder
  <2>2. CASE Refuse(c, "NOT_ENROLLED")
    BY <2>2, AnswerViews DEF Refuse
  <2>3. QED BY <1>3, <2>1, <2>2 DEF SelectEnrolledProvider, At
<1>4. CASE OpenTpm(c)
  <2>1. CASE GoOn(c, "pcrs") /\ UNCHANGED reported /\ cpc[c] = "open"
    <3>1. cpc'[c] = "pcrs" /\ reported'[c] = <<>> /\ Told
      BY <1>1, <2>1 DEF GoOn, CollectorViews, ReadInOrder, CollectionTyped, CollectorsTyped
    <3>2. QED BY <3>1 DEF CollectorViews, ReadsBehind, QuoteBetween, ReadInOrder
  <2>2. CASE \E r : Refuse(c, r)
    BY <2>2, AnswerViews DEF Refuse
  <2>3. QED BY <1>4, <2>1, <2>2 DEF OpenTpm, At
<1>5. ASSUME PcrRead(c), Watch PROVE CollectorViews(c)'
  <2>1. CASE /\ reported' = [reported EXCEPT ![c] = Append(@, pcr[Len(@) + 1])]
             /\ GoOn(c, "pcrs") /\ cpc[c] = "pcrs" /\ Len(reported[c]) < NumPcrs
    <3> DEFINE n == Len(reported[c])
    <3>1. n \in Nat /\ n + 1 \in Pcrs
      BY <2>1, EvidenceAssumption DEF CollectionTyped, CollectorsTyped, Pcrs
    <3>2. /\ reported'[c] = Append(reported[c], pcr[n + 1])
          /\ cpc'[c] = "pcrs" /\ evidence'[c] = evidence[c]
      BY <2>1 DEF GoOn, CollectionTyped, CollectorsTyped
    <3>3. /\ reported[c] \in Seq(Readings) /\ pcr[n + 1] \in Readings
      BY <3>1 DEF CollectionTyped, CollectorsTyped, PcrValues, Readings
    <3>4. /\ Len(reported'[c]) = n + 1 /\ reported'[c][n + 1] = pcr[n + 1]
          /\ \A i \in 1..n : reported'[c][i] = reported[c][i]
      BY <3>2, <3>3, AppendProperties
    <3>5. window'[c].measured <=> window[c].measured
      BY <1>0, <1>5, <2>1, WatchNotes
    <3>6. ReadsBehind(c)'
      <4> SUFFICES ASSUME NEW i \in 1..(n + 1)
                   PROVE  /\ reported'[c][i] <= pcr[i]
                          /\ ~window'[c].measured => reported'[c][i] = pcr[i]
        BY <1>0, <3>4 DEF ReadsBehind
      <4>1. CASE i = n + 1
        BY <3>3, <3>4, <4>1 DEF Readings
      <4>2. CASE i \in 1..n
        BY <2>1, <3>4, <3>5, <4>2 DEF CollectorViews, ReadsBehind
      <4>3. QED BY <3>1, <4>1, <4>2
    <3>7. QED BY <1>1, <3>2, <3>6 DEF CollectorViews, QuoteBetween, ReadInOrder
  <2>2. CASE Refuse(c, "ATTESTATION_FAILED")
    BY <2>2, AnswerViews DEF Refuse
  <2>3. QED BY <1>5, <2>1, <2>2 DEF PcrRead, At
<1>6. ASSUME Quote(c), Watch PROVE CollectorViews(c)'
  <2>1. CASE /\ quote' = [quote EXCEPT ![c] = [ak |-> slot, nonce |-> nonce[c], pcrs |-> pcr]]
             /\ GoOn(c, "log") /\ UNCHANGED reported
             /\ cpc[c] = "pcrs" /\ Len(reported[c]) = NumPcrs
    <3>1. /\ quote'[c].pcrs = pcr /\ reported'[c] = reported[c]
          /\ cpc'[c] = "log" /\ evidence'[c] = evidence[c]
      BY <2>1 DEF GoOn, CollectionTyped, CollectorsTyped
    <3>2. window'[c].measured <=> window[c].measured
      BY <1>0, <1>6, <2>1, WatchNotes
    <3>3. \A i \in Pcrs : reported[c][i] <= pcr[i] /\ pcr[i] <= pcr[i]
      BY <2>1 DEF CollectorViews, ReadsBehind, Pcrs, CollectionTyped, PcrValues
    <3>4. QuoteBetween(c)'
      BY <1>0, <2>1, <3>1, <3>2, <3>3 DEF CollectorViews, ReadsBehind, QuoteBetween, Pcrs
    <3>5. QED BY <1>1, <2>1, <3>1, <3>4 DEF CollectorViews, ReadsBehind, ReadInOrder
  <2>2. CASE Refuse(c, "ATTESTATION_FAILED")
    BY <2>2, AnswerViews DEF Refuse
  <2>3. QED BY <1>6, <2>1, <2>2 DEF Quote, At
<1>7. CASE EmitEvidence(c)
  <2>1. ASSUME NEW l \in {pcr, NoLog}, Answer(c, "OK"), cpc[c] = "log",
               evidence' = [evidence EXCEPT ![c] =
                 [quote |-> quote[c], reported |-> reported[c], replayed |-> l,
                  calm |-> ~window[c].measured]]
        PROVE  CollectorViews(c)'
    <3>1. Coherent([quote |-> quote[c], reported |-> reported[c], replayed |-> l,
                    calm |-> ~window[c].measured])
      BY <2>1 DEF Coherent, CollectorViews, QuoteBetween
    <3>2. evidence'[c] = [quote |-> quote[c], reported |-> reported[c], replayed |-> l,
                          calm |-> ~window[c].measured]
      BY <2>1 DEF CollectionTyped, CollectorsTyped
    <3>3. QED BY <2>1, <3>1, <3>2, AnswerViews
  <2>2. CASE Refuse(c, "INTERNAL")
    BY <2>2, AnswerViews DEF Refuse
  <2>3. QED BY <1>7, <2>1, <2>2 DEF EmitEvidence, At
<1>8. QED
  BY <1>2, <1>3, <1>4, <1>5, <1>6, <1>7 DEF CollectorStep, Collect

\* What is measured meanwhile only moves the PCRs on, and is noted.
LEMMA ViewsMeasure ==
  ASSUME CollectionTyped, NEW i \in Pcrs, Measure(i), Watch,
         NEW c \in Collectors, CollectorViews(c)
  PROVE  CollectorViews(c)'
<1>1. /\ cpc'[c] = cpc[c] /\ reported'[c] = reported[c] /\ quote'[c] = quote[c]
      /\ evidence'[c] = evidence[c]
  BY DEF Measure, collectorVars
<1>2. \A j \in Pcrs : pcr[j] \in Nat /\ pcr'[j] \in Nat /\ pcr[j] <= pcr'[j]
  BY EvidenceAssumption DEF Measure, CollectionTyped, PcrValues
<1>3. cpc[c] # "idle" /\ ~window'[c].measured => ~window[c].measured /\ pcr' = pcr
  BY WatchNotes
<1>4. ReadsBehind(c)'
  <2> SUFFICES ASSUME cpc[c] = "pcrs", NEW j \in 1..Len(reported[c])
               PROVE  /\ reported[c][j] <= pcr'[j]
                      /\ ~window'[c].measured => reported[c][j] = pcr'[j]
    BY <1>1 DEF ReadsBehind
  <2>1. j \in Pcrs /\ reported[c][j] \in Nat
    BY LenProperties, EvidenceAssumption DEF CollectionTyped, CollectorsTyped, Pcrs, Readings
  <2>2. reported[c][j] <= pcr[j] /\ (~window[c].measured => reported[c][j] = pcr[j])
    BY DEF CollectorViews, ReadsBehind
  <2>3. QED BY <1>2, <1>3, <2>1, <2>2
<1>5. QuoteBetween(c)'
  <2> SUFFICES ASSUME cpc[c] = "log", NEW j \in Pcrs
               PROVE  /\ reported[c][j] <= quote[c].pcrs[j] /\ quote[c].pcrs[j] <= pcr'[j]
                      /\ ~window'[c].measured => /\ reported[c][j] = quote[c].pcrs[j]
                                                 /\ quote[c].pcrs[j] = pcr'[j]
    BY <1>1 DEF QuoteBetween
  <2>1. quote[c].pcrs[j] \in Nat
    BY DEF CollectionTyped, CollectorsTyped, QuoteType, PcrValues
  <2>2. QED BY <1>2, <1>3, <2>1 DEF CollectorViews, QuoteBetween
<1>6. QED BY <1>1, <1>4, <1>5 DEF CollectorViews, ReadInOrder, Coherent

\* Every step keeps what every collector knows and has handed out.
LEMMA ViewsStep ==
  ASSUME TypeInv, CollectionTyped, ViewsInv, [EvidenceNext]_evidenceVars PROVE ViewsInv'
<1> SUFFICES ASSUME NEW d \in Collectors PROVE CollectorViews(d)'
  BY DEF ViewsInv, CollectorViews, EvidenceCoherent, Emitted, Coherent
<1>0. CollectorViews(d)
  BY ViewsByCollector
<1>1. ASSUME NEW c \in Collectors, CollectorStep(c) PROVE CollectorViews(d)'
  <2>1. CASE d = c
    BY <1>0, <1>1, <2>1, ViewsWithinCall
  <2>2. CASE d # c
    <3>1. UNCHANGED pcr
      BY <1>1, CollectorsFailOnly
    <3>2. cpc[d] # "idle" => (window'[d].measured <=> window[d].measured)
      BY <1>1, <2>2, <3>1, OtherCollectors, WatchNotes
    <3>3. QED
      BY <1>0, <1>1, <2>2, <3>1, <3>2, OtherCollectors
         DEF CollectorViews, ReadsBehind, QuoteBetween, ReadInOrder, Coherent
  <2>3. QED BY <2>1, <2>2
<1>2. ASSUME NEW i \in Pcrs, Measure(i), Watch PROVE CollectorViews(d)'
  BY <1>0, <1>2, ViewsMeasure
<1>3. CASE Reboot
  BY <1>0, <1>3
     DEF Reboot, Leave, CollectorViews, ReadsBehind, QuoteBetween, ReadInOrder, Coherent
<1>4. CASE EnrollmentNext /\ Watch
  <2>1. cpc[d] # "idle" => (window'[d].measured <=> window[d].measured)
    BY <1>4, WatchNotes DEF EnrollmentNext
  <2>2. QED
    BY <1>0, <1>4, <2>1
       DEF EnrollmentNext, collectorVars, CollectorViews, ReadsBehind, QuoteBetween,
           ReadInOrder, Coherent
<1>5. CASE UNCHANGED evidenceVars
  BY <1>0, <1>5 DEF evidenceVars, collectorVars, CollectorViews, ReadsBehind, QuoteBetween,
                    ReadInOrder, Coherent
<1>6. QED BY <1>1, <1>2, <1>3, <1>4, <1>5, EvidenceSteps

\* The three views of the PCRs in one blob differ only if something was measured
\* during the call, and then in the order they were taken.
THEOREM EvidenceAlwaysCoherent == EvidenceSpec => []EvidenceCoherent
<1>1. EvidenceInit => ViewsInv
  BY DEF EvidenceInit, ViewsInv, ReadsBehind, QuoteBetween, ReadInOrder, EvidenceCoherent, Emitted
<1>2. TypeInv /\ CollectionTyped /\ ViewsInv /\ [EvidenceNext]_evidenceVars => ViewsInv'
  BY ViewsStep
<1>3. ViewsInv => EvidenceCoherent
  BY DEF ViewsInv
<1>4. QED BY <1>1, <1>2, <1>3, CollectionTypes, PTL DEF EvidenceSpec

-----------------------------------------------------------------------------
(* Refusals. *)

\* The public statuses of the answers a call gives.
LEMMA AnswerStatus ==
  /\ MapRootHeraldStatus("OK") = "OK"
  /\ MapRootHeraldStatus("NOT_ENROLLED") = "NOT_ENROLLED"
  /\ MapRootHeraldStatus("ATTESTATION_FAILED") = "SERVER"
  /\ MapRootHeraldStatus("INVALID_PARAM") = "INVALID_ARG"
  /\ MapRootHeraldStatus("NO_TPM") = "TPM_UNAVAILABLE"
  /\ MapRootHeraldStatus("INTERNAL") = "INTERNAL"
BY DEF MapRootHeraldStatus

\* The enrollments keep the persistent AK beside a collection.
KeyKept == NotStolenInv /\ KeyInv

\* Every step does, if each process uses a single handle.
LEMMA KeyKeptStep ==
  ASSUME OneHandlePerProcess, TypeInv, KeyKept, [EvidenceNext]_evidenceVars PROVE KeyKept'
<1>1. CASE FailsOnly
  <2>1. NotStolenInv'
    BY <1>1 DEF FailsOnly, callVars, KeyKept, NotStolenInv, OneCallPerHandle,
                HandshakeNotStolen, Global
  <2>2. KeyInv'
    BY <1>1, KeyFrame DEF FailsOnly, callVars, tpmVars, KeyKept
  <2>3. QED BY <2>1, <2>2 DEF KeyKept
<1>2. CASE [Next]_vars
  <2>1. NotStolenInv'
    BY <1>2, NotStolenNext DEF KeyKept
  <2>2. KeyInv'
    BY <1>2, KeyNext DEF KeyKept, NotStolenInv
  <2>3. QED BY <2>1, <2>2 DEF KeyKept
<1>3. QED BY <1>1, <1>2, SeenFromEnrollments

\* What an enrollment does to the device can only add to what was persistent and to
\* the failures.
LEMMA EnrollmentAdds ==
  ASSUME TypeInv, EnrollmentNext
  PROVE  faults <= faults' /\ persisted \subseteq persisted' /\ UNCHANGED seed
<1> DEFINE Adds == faults <= faults' /\ persisted \subseteq persisted' /\ UNCHANGED seed
<1>0. faults \in Nat
  BY ConstantsAssumption DEF TypeInv, TypeOK
<1> USE <1>0 DEF Fault, NoFault, tpmVars
<1>1. ASSUME NEW t \in Threads, Call(t) PROVE Adds
  BY <1>1 DEF Call, BadArguments, EnrollMocked, SetMockTpm, BeginUnelevated, EnrollBegin,
              CompleteNoState, CompleteMalformed, EnrollComplete
<1>2. ASSUME NEW t \in Threads, Step(t) PROVE Adds
  <2>1. CASE GatherEk(t) \/ CreateEk(t) \/ CreateAndLoadAk(t) \/ HoldProvider(t)
    BY <2>1 DEF GatherEk, CreateEk, CreateAndLoadAk, HoldProvider
  <2>2. CASE StartAuthSession(t) \/ ActivateCredential(t) \/ RejectChallenge(t)
    BY <2>2 DEF StartAuthSession, ActivateCredential, RejectChallenge
  <2>3. CASE ProbeSlot(t) \/ ClearSlot(t) \/ EvictAk(t)
    BY <2>3 DEF ProbeSlot, ClearSlot, EvictAk
  <2>4. CASE PersistFailed(t) \/ EmitActivation(t) \/ UseAfterReset(t)
    BY <2>4 DEF PersistFailed, EmitActivation, EmitBody, UseAfterReset
  <2>5. QED BY <1>2, <2>1, <2>2, <2>3, <2>4 DEF Step
<1>3. ASSUME NEW p \in Procs, Crash(p) PROVE Adds
  BY <1>3 DEF Crash
<1>4. CASE Server
  BY <1>4 DEF Server, ServerEnroll, ServerActivate
<1>5. QED BY <1>1, <1>2, <1>3, <1>4 DEF EnrollmentNext

\* While a call runs the seed stays, what was persistent counts as such for ever,
\* and failures are not undone; a clear of the TPM ends the call.
LEMMA DeviceDuringCall ==
  ASSUME TypeInv, CollectionTyped, [EvidenceNext]_evidenceVars, NEW c \in Collectors
  PROVE  /\ faults \in Nat /\ faults <= faults'
         /\ persisted \subseteq persisted'
         /\ seed' = seed \/ cpc'[c] = "idle"
<1>0. faults \in Nat
  BY ConstantsAssumption DEF TypeInv, TypeOK
<1>1. ASSUME NEW d \in Collectors, CollectorStep(d) PROVE FailsOnly
  BY <1>1, CollectorsFailOnly
<1>2. CASE FailsOnly
  BY <1>0, <1>2 DEF FailsOnly, Fault, NoFault, tpmVars
<1>3. CASE EnrollmentNext
  BY <1>0, <1>3, EnrollmentAdds
<1>4. CASE Reboot
  BY <1>0, <1>4 DEF Reboot, TpmClear, Leave
<1>5. CASE (\E i \in Pcrs : Measure(i)) \/ UNCHANGED evidenceVars
  BY <1>0, <1>5 DEF Measure, evidenceVars, vars, tpmVars
<1>6. QED BY <1>1, <1>2, <1>3, <1>4, <1>5, EvidenceSteps

\* A call of a collector that was outside begins with CollectEvidence.
LEMMA OnlyCollectEvidenceBegins ==
  ASSUME CollectionTyped, [EvidenceNext]_evidenceVars, NEW c \in Collectors,
         cpc[c] = "idle", cpc'[c] # "idle"
  PROVE  \E n : CollectEvidence(c, n)
<1>1. ASSUME NEW d \in Collectors, CollectorStep(d) PROVE \E n : CollectEvidence(c, n)
  <2>1. d = c
    BY <1>1, OtherCollectors
  <2>2. ~Collect(c)
    BY DEF Collect, SelectEnrolledProvider, OpenTpm, PcrRead, Quote, EmitEvidence, At
  <2>3. QED BY <1>1, <2>1, <2>2 DEF CollectorStep
<1>2. QED
  BY <1>1, EvidenceSteps
     DEF Measure, Reboot, Leave, EnrollmentNext, evidenceVars, collectorVars

\* The AK stays where a call found it, unless an enrollment is seen swapping it.
LEMMA AkSeenStep ==
  ASSUME TypeInv, CollectionTyped, KeyKept, KeyKept', [EvidenceNext]_evidenceVars,
         NEW c \in Collectors, AkSeen(c)
  PROVE  AkSeen(c)'
<1> SUFFICES ASSUME cpc'[c] # "idle", window'[c].held
             PROVE  seed' \in persisted' /\ (slot' = seed' \/ window'[c].swap \/ faults' > 0)
  BY DEF AkSeen
<1>0. seed \in Keys /\ NoKey \notin Keys /\ seed' = seed
  BY DeviceDuringCall DEF TypeInv, TypeOK, Keys, NoKey
<1>1. CASE cpc[c] = "idle"
  <2>1. PICK n : CollectEvidence(c, n)
    BY <1>1, OnlyCollectEvidenceBegins
  <2>2. slot = seed /\ UNCHANGED tpmVars
    BY <2>1 DEF CollectEvidence, At, CollectionTyped
  <2>3. QED BY <1>0, <2>2 DEF tpmVars, KeyKept, KeyInv
<1>2. CASE cpc[c] # "idle" /\ Watch
  <2>1. window[c].held /\ seed \in persisted
    BY <1>2, WatchNotes DEF AkSeen
  <2>2. seed' \in persisted'
    BY <1>0, <2>1, DeviceDuringCall
  <2>3. slot' = seed' \/ faults' > 0 \/ Swapping'
    BY <2>2, DeviceDuringCall DEF KeyKept, KeyInv, AkLostOnlyByFault, Swapping
  <2>4. QED BY <1>2, <2>2, <2>3, WatchNotes
<1>3. CASE cpc[c] # "idle" /\ UNCHANGED <<slot, persisted, faults>> /\ window'[c] = window[c]
  BY <1>0, <1>3 DEF AkSeen
<1>4. ASSUME NEW d \in Collectors, CollectorStep(d), cpc[c] # "idle", ~Watch
      PROVE  UNCHANGED <<slot, persisted, faults>> /\ window'[c] = window[c]
  <2>1. d # c
    BY <1>4 DEF CollectorStep, CollectEvidence, At
  <2>2. QED BY <1>4, <2>1, OtherCollectors, CollectorsFailOnly DEF FailsOnly, tpmVars
<1>5. CASE UNCHANGED evidenceVars
  BY <1>0, <1>1, <1>3, <1>5 DEF evidenceVars, vars, tpmVars
<1>6. QED BY <1>1, <1>2, <1>3, <1>4, <1>5, EvidenceSteps

\* A refusal of a step that did not fail means that there was no persistent AK.
LEMMA RefusalMeansEmpty ==
  ASSUME CollectionTyped, NEW c \in Collectors, CollectorStep(c),
         cpc'[c] = "idle", cret'[c] \in {"NOT_ENROLLED", "SERVER"}
  PROVE  cpc[c] # "idle" /\ Watch /\ (Fault \/ slot = NoKey)
<1> USE DEF CollectionTyped, CollectorsTyped, At, GoOn, Refuse, Answer
<1>1. ASSUME NEW n, CollectEvidence(c, n) PROVE FALSE
  BY <1>1 DEF CollectEvidence
<1>2. ASSUME SelectEnrolledProvider(c) PROVE cpc[c] # "idle" /\ (Fault \/ slot = NoKey)
  BY <1>2 DEF SelectEnrolledProvider
<1>3. ASSUME OpenTpm(c) PROVE FALSE
  BY <1>3, AnswerStatus DEF OpenTpm
<1>4. ASSUME PcrRead(c) PROVE cpc[c] # "idle" /\ (Fault \/ slot = NoKey)
  BY <1>4 DEF PcrRead
<1>5. ASSUME Quote(c) PROVE cpc[c] # "idle" /\ (Fault \/ slot = NoKey)
  BY <1>5 DEF Quote
<1>6. ASSUME EmitEvidence(c) PROVE FALSE
  BY <1>6, AnswerStatus DEF EmitEvidence
<1>7. QED
  BY <1>1, <1>2, <1>3, <1>4, <1>5, <1>6 DEF CollectorStep, Collect

\* What one collector was told.
RefusalExplained(c) ==
  cret[c] \in {"NOT_ENROLLED", "SERVER"} /\ window[c].held /\ faults = 0
    => window[c].swap \/ cpc[c] # "idle"

\* Every step keeps refusals explained.
LEMMA RefusalStep ==
  ASSUME TypeInv, CollectionTyped, [EvidenceNext]_evidenceVars,
         NEW c \in Collectors, AkSeen(c), RefusalExplained(c)
  PROVE  RefusalExplained(c)'
<1> SUFFICES ASSUME cret'[c] \in {"NOT_ENROLLED", "SERVER"}, window'[c].held, faults' = 0,
                    cpc'[c] = "idle"
             PROVE  window'[c].swap
  BY DEF RefusalExplained
<1>0. faults = 0 /\ seed \in Keys /\ NoKey \notin Keys
  BY DeviceDuringCall DEF TypeInv, TypeOK, Keys, NoKey
<1>1. CASE CollectorStep(c)
  <2>1. cpc[c] # "idle" /\ Watch /\ slot = NoKey
    BY <1>0, <1>1, RefusalMeansEmpty DEF Fault
  <2>2. QED BY <1>0, <2>1, WatchNotes DEF AkSeen
<1>2. CASE cret'[c] = cret[c] /\ cpc'[c] = cpc[c] /\ (Watch \/ window'[c] = window[c])
  BY <1>0, <1>2, WatchNotes DEF RefusalExplained
<1>3. ASSUME NEW d \in Collectors \ {c}, CollectorStep(d)
      PROVE  cret'[c] = cret[c] /\ cpc'[c] = cpc[c] /\ (Watch \/ window'[c] = window[c])
  BY <1>3, OtherCollectors
<1>4. CASE Reboot
  BY <1>4 DEF Reboot
<1>5. QED
  BY <1>1, <1>2, <1>3, <1>4, EvidenceSteps
     DEF Measure, EnrollmentNext, evidenceVars, collectorVars

\* On a device whose processes use a single handle each, and where nothing fails,
\* a call that began with the AK in place is told NOT_ENROLLED, or fails to quote,
\* only because an enrollment was swapping the AK meanwhile.
THEOREM RefusedOnlyWhenSwapped ==
  ASSUME OneHandlePerProcess PROVE EvidenceSpec => []RefusedOnlyDuringSwap
<1> DEFINE Refusals == KeyKept /\ \A c \in Collectors : AkSeen(c) /\ RefusalExplained(c)
<1>1. EvidenceInit => Refusals
  BY NotStolenInit, KeyInit DEF EvidenceInit, KeyKept, AkSeen, RefusalExplained
<1>2. TypeInv /\ CollectionTyped /\ Refusals /\ [EvidenceNext]_evidenceVars => Refusals'
  <2> SUFFICES ASSUME TypeInv, CollectionTyped, Refusals, [EvidenceNext]_evidenceVars
               PROVE  Refusals'
    OBVIOUS
  <2>1. KeyKept'
    BY KeyKeptStep
  <2>2. ASSUME NEW c \in Collectors PROVE AkSeen(c)' /\ RefusalExplained(c)'
    BY <2>1, AkSeenStep, RefusalStep
  <2>3. QED BY <2>1, <2>2
<1>3. Refusals => RefusedOnlyDuringSwap
  BY DEF RefusalExplained, RefusedOnlyDuringSwap
<1>4. QED BY <1>1, <1>2, <1>3, CollectionTypes, PTL DEF EvidenceSpec
=============================================================================
