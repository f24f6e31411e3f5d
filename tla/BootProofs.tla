----------------------------- MODULE BootProofs -----------------------------
(***************************************************************************)
(* The analysis, the verdict on the Secure Boot chain and the posture are  *)
(* grounded in the log, for every log of any length.                       *)
(***************************************************************************)
EXTENDS BootLog, TLAPS, FiniteSetTheorems

Verdicts == {"", "PASS", "WARNING", "FAIL"}

Analyses == [entries : Seq(LogEvents), secureBootEnabled : BOOLEAN,
             verified : Nat, policy : Nat, unknown : Nat, verdict : Verdicts]
Reports  == [pkCerts : SUBSET Subjects, pkIsKnownOem : BOOLEAN, kekHasMicrosoft : BOOLEAN,
             dbHasMicrosoftUefiCa : BOOLEAN, chainValid : BOOLEAN, verdict : Verdicts]

Shape ==
  /\ bpc \in {"idle", "parse", "validate", "report", "done"}
  /\ rawLog \in Seq(LogEvents) /\ at \in Nat /\ checked \in Nat
  /\ analysis \in Analyses /\ report \in Reports

\* The places of the log that the parser, then the validator, have passed.
Parsed == FirstEvent..(at - 1)
Past   == FirstEvent..(FirstEvent + checked - 1)

\* The entries are the events of the log up to at, each readable.
EntriesFollowLog ==
  /\ at = FirstEvent + Len(analysis.entries)
  /\ checked <= Len(analysis.entries)
  /\ \A i \in 1..Len(analysis.entries) : analysis.entries[i] = rawLog[FirstEvent + i - 1]
  /\ \A i \in Parsed : Readable(i)

\* Secure Boot and the platform key are those of the last event so far.
LastWordOn(s) ==
  \E i \in s : /\ SecureBootEvent(i) /\ rawLog[i].on
               /\ \A j \in s : j > i => ~SecureBootEvent(j)
LastKey(s) ==
  \E i \in s : /\ PkEvent(i) /\ rawLog[i].certs # {}
               /\ \A j \in s : j > i => ~PkEvent(j)
Holds(s, v, certs) ==
  \E i \in s : /\ KeyVariable(rawLog[i]) /\ rawLog[i].var = v
               /\ rawLog[i].certs \cap certs # {}

FlagsFollowLog ==
  /\ analysis.secureBootEnabled <=> LastWordOn(Parsed)
  /\ report.pkCerts # {} <=> LastKey(Past)
  /\ report.pkIsKnownOem <=> Holds(Past, "PK", OemCerts)
  /\ report.kekHasMicrosoft <=> Holds(Past, "KEK", MicrosoftCerts)
  /\ report.dbHasMicrosoftUefiCa <=> Holds(Past, "db", UefiCaCerts)

\* Until the verdict is given there is none, and it follows from the flags.
VerdictFollowsFlags ==
  IF bpc \in {"report", "done"}
  THEN /\ checked = Len(analysis.entries)
       /\ report.chainValid <=> /\ analysis.secureBootEnabled /\ report.pkCerts # {}
                                /\ report.kekHasMicrosoft /\ report.dbHasMicrosoftUefiCa
       /\ report.verdict = "PASS" <=> report.chainValid /\ report.pkIsKnownOem
  ELSE report.verdict = ""

BootInv ==
  /\ Shape
  /\ IF rawLog = <<>>
     THEN bpc \in {"idle", "done"} /\ report = EmptyReport
     ELSE /\ bpc # "idle"
          /\ EntriesFollowLog /\ FlagsFollowLog /\ VerdictFollowsFlags
          /\ bpc = "parse" => checked = 0
          /\ bpc # "parse" => ~Readable(at)
  /\ rawLog = <<>> => analysis = EmptyAnalysis /\ checked = 0

-----------------------------------------------------------------------------
\* Of every readable event the fields have the types that the constants give.
LEMMA EventFields ==
  ASSUME NEW e \in LogEvents
  PROVE  /\ e.pcr \in 0..23 /\ e.certs \subseteq Subjects /\ e.on \in BOOLEAN
         /\ e \in [pcr : 0..23, type : STRING, var : STRING,
                   certs : SUBSET Subjects, on : BOOLEAN]
  BY BootConstants

\* The invariant holds initially.
LEMMA BootInitial == BootInit => BootInv
<1> SUFFICES ASSUME BootInit PROVE BootInv
  OBVIOUS
<1>1. EmptyAnalysis \in Analyses
  <2>1. <<>> \in Seq(LogEvents)
    OBVIOUS
  <2>2. QED BY <2>1 DEF EmptyAnalysis, Analyses, Verdicts
<1>2. EmptyReport \in Reports
  BY DEF EmptyReport, Reports, Verdicts
<1>3. QED BY <1>1, <1>2 DEF BootInit, BootInv, Shape

\* The places passed before the first event are none.
LEMMA NothingPassed ==
  ASSUME NEW n \in Int, NEW m \in Int, m < n
  PROVE  n..m = {}
  OBVIOUS

\* One more place passed is one more element of the interval.
LEMMA OneMore ==
  ASSUME NEW n \in Int, NEW m \in Int, n <= m
  PROVE  n..m = (n..(m - 1)) \cup {m}
  OBVIOUS

\* How a new last place changes the last word on Secure Boot and the last key.
LEMMA LastWordGrows ==
  ASSUME NEW n \in Int, NEW m \in Int, n <= m
  PROVE  /\ LastWordOn(n..m) <=> IF SecureBootEvent(m) THEN rawLog[m].on
                                 ELSE LastWordOn(n..(m - 1))
         /\ LastKey(n..m) <=> IF PkEvent(m) THEN rawLog[m].certs # {}
                              ELSE LastKey(n..(m - 1))
<1>1. n..m = (n..(m - 1)) \cup {m}
  BY OneMore
<1>2. \A j \in n..(m - 1) : j < m /\ j \in Int
  OBVIOUS
<1>3. LastWordOn(n..m) <=> IF SecureBootEvent(m) THEN rawLog[m].on ELSE LastWordOn(n..(m - 1))
  BY <1>1, <1>2 DEF LastWordOn
<1>4. LastKey(n..m) <=> IF PkEvent(m) THEN rawLog[m].certs # {} ELSE LastKey(n..(m - 1))
  BY <1>1, <1>2 DEF LastKey
<1>5. QED BY <1>3, <1>4

\* How a new last place changes which keys the log holds.
LEMMA HoldsGrows ==
  ASSUME NEW n \in Int, NEW m \in Int, n <= m, NEW v, NEW certs
  PROVE  Holds(n..m, v, certs) <=>
           \/ Holds(n..(m - 1), v, certs)
           \/ KeyVariable(rawLog[m]) /\ rawLog[m].var = v /\ rawLog[m].certs \cap certs # {}
  BY OneMore DEF Holds

-----------------------------------------------------------------------------
\* A log is read: nothing has been parsed or validated yet.
LEMMA ReadKeeps ==
  ASSUME BootInv, ReadEventLog
  PROVE  BootInv'
<1>1. PICK n \in 0..MaxEvents : rawLog' \in [1..n -> LogEvents]
  BY DEF ReadEventLog
<1>2. rawLog' \in Seq(LogEvents)
  BY <1>1, BootConstants
<1>3. rawLog = <<>> /\ report = EmptyReport /\ analysis = EmptyAnalysis /\ checked = 0
  BY DEF ReadEventLog, BootInv
<1>4. Shape'
  BY <1>2 DEF BootInv, Shape, ReadEventLog
<1>5. report' = EmptyReport /\ analysis' = EmptyAnalysis /\ checked' = 0
  BY <1>3 DEF ReadEventLog
<1>6. CASE rawLog' = <<>>
  BY <1>4, <1>5, <1>6 DEF BootInv, ReadEventLog
<1>7. CASE rawLog' # <<>>
  <2>1. bpc' = "parse" /\ at' = FirstEvent' /\ FirstEvent' \in {1, 2}
    BY <1>7 DEF ReadEventLog, FirstEvent
  <2>2. Parsed' = {} /\ Past' = {}
    <3>1. PICK f \in {1, 2} : FirstEvent' = f
      BY <2>1
    <3>2. at' = f /\ checked' = 0
      BY <2>1, <3>1, <1>5
    <3>3. f..(f - 1) = {} /\ f..(f + 0 - 1) = {}
      OBVIOUS
    <3>4. QED BY <3>1, <3>2, <3>3 DEF Parsed, Past
  <2>7. analysis'.entries = <<>> /\ Len(analysis'.entries) = 0
    BY <1>5 DEF EmptyAnalysis
  <2>3. EntriesFollowLog'
    <3>1. \A i \in 1..Len(analysis'.entries) : FALSE
      BY <2>7
    <3>2. at' = FirstEvent' + Len(analysis'.entries) /\ checked' <= Len(analysis'.entries)
      BY <2>1, <2>7, <1>5
    <3>3. QED BY <2>2, <3>1, <3>2 DEF EntriesFollowLog
  <2>8. /\ analysis'.secureBootEnabled = FALSE /\ report'.pkCerts = {}
        /\ report'.pkIsKnownOem = FALSE /\ report'.kekHasMicrosoft = FALSE
        /\ report'.dbHasMicrosoftUefiCa = FALSE
    BY <1>5 DEF EmptyAnalysis, EmptyReport
  <2>9. ~LastWordOn(Parsed)' /\ ~LastKey(Past)' /\ \A v, certs : ~Holds(Past, v, certs)'
    BY <2>2 DEF LastWordOn, LastKey, Holds
  <2>4. FlagsFollowLog'
    BY <2>8, <2>9 DEF FlagsFollowLog
  <2>5. VerdictFollowsFlags'
    BY <2>1, <1>5 DEF VerdictFollowsFlags, EmptyReport
  <2>6. QED BY <1>4, <1>5, <1>7, <2>1, <2>3, <2>4, <2>5 DEF BootInv
<1>8. QED BY <1>6, <1>7

\* An event is parsed: the entries and Secure Boot follow one more place.
LEMMA ParseKeeps ==
  ASSUME BootInv, ParseEvent
  PROVE  BootInv'
<1>1. /\ rawLog' = rawLog /\ bpc' = bpc /\ checked' = checked /\ report' = report
      /\ bpc = "parse" /\ at' = at + 1 /\ rawLog # <<>>
  BY DEF ParseEvent, BootInv
<1>2. EntriesFollowLog /\ FlagsFollowLog /\ VerdictFollowsFlags /\ checked = 0 /\ Shape
  BY <1>1 DEF BootInv
<1>3. FirstEvent \in {1, 2} /\ FirstEvent' = FirstEvent
  BY <1>1 DEF FirstEvent
<1>4. at \in Nat /\ FirstEvent <= at /\ at <= Len(rawLog) /\ Readable(at)
  BY <1>2, <1>3 DEF EntriesFollowLog, ParseEvent, Readable, Shape, Analyses
<1> DEFINE e == rawLog[at]
<1>5. e \in LogEvents /\ e.on \in BOOLEAN
  BY <1>2, <1>3, <1>4, EventFields DEF Shape
<1>6. /\ analysis'.entries = Append(analysis.entries, e)
      /\ analysis'.secureBootEnabled = IF SecureBootEvent(at) THEN e.on
                                       ELSE analysis.secureBootEnabled
  BY <1>2 DEF ParseEvent, Shape, Analyses, SecureBootEvent
<1>7. analysis' \in Analyses
  <2>1. Append(analysis.entries, e) \in Seq(LogEvents)
    BY <1>2, <1>5 DEF Shape, Analyses
  <2>2. \A c : CountIf(Classification(e) = c) \in Nat
    BY DEF CountIf
  <2>3. /\ CountIf(Classification(e) = "verified") \in Nat
        /\ CountIf(Classification(e) = "policy") \in Nat
        /\ CountIf(Classification(e) = "unknown") \in Nat
    BY <2>2
  <2> DEFINE s == Append(analysis.entries, e)
             v == analysis.verified + CountIf(Classification(e) = "verified")
             p == analysis.policy + CountIf(Classification(e) = "policy")
             u == analysis.unknown + CountIf(Classification(e) = "unknown")
             b == IF SecureBootEvent(at) THEN e.on ELSE analysis.secureBootEnabled
  <2>4. analysis' = [analysis EXCEPT !.entries = s, !.verified = v, !.policy = p,
                                     !.unknown = u, !.secureBootEnabled = b]
    BY DEF ParseEvent, SecureBootEvent
  <2>5. v \in Nat /\ p \in Nat /\ u \in Nat /\ b \in BOOLEAN /\ s \in Seq(LogEvents)
    BY <1>2, <1>5, <2>1, <2>3 DEF Shape, Analyses
  <2> HIDE DEF s, v, p, u, b
  <2>6. QED BY <1>2, <2>4, <2>5 DEF Shape, Analyses
<1>8. Shape'
  BY <1>1, <1>2, <1>4, <1>7 DEF Shape
<1>9. Parsed' = Parsed \cup {at} /\ Parsed' = FirstEvent..at
  BY <1>1, <1>3, <1>4 DEF Parsed
<1>10. EntriesFollowLog'
  <2>1. analysis.entries \in Seq(LogEvents)
    BY <1>2 DEF Shape, Analyses
  <2>2. Len(analysis'.entries) = Len(analysis.entries) + 1
    BY <1>6, <2>1
  <2>3. \A i \in 1..Len(analysis'.entries) :
          analysis'.entries[i] = IF i = Len(analysis.entries) + 1 THEN e ELSE analysis.entries[i]
    BY <1>6, <2>1
  <2>4. \A i \in Parsed' : Readable(i)'
    BY <1>1, <1>2, <1>4, <1>9 DEF EntriesFollowLog, Readable
  <2>5. Len(analysis.entries) \in Nat /\ at = FirstEvent + Len(analysis.entries)
    BY <1>2, <2>1 DEF EntriesFollowLog
  <2>6. at' = FirstEvent' + Len(analysis'.entries) /\ checked' <= Len(analysis'.entries)
    BY <1>1, <1>2, <1>3, <2>2, <2>5
  <2>7. \A i \in 1..Len(analysis'.entries) : analysis'.entries[i] = rawLog'[FirstEvent' + i - 1]
    <3> SUFFICES ASSUME NEW i \in 1..(Len(analysis.entries) + 1)
                 PROVE  analysis'.entries[i] = rawLog[FirstEvent + i - 1]
      BY <1>1, <1>3, <2>2
    <3>1. CASE i = Len(analysis.entries) + 1
      BY <3>1, <1>3, <2>2, <2>3, <2>5
    <3>2. CASE i # Len(analysis.entries) + 1
      <4>1. i \in 1..Len(analysis.entries)
        BY <3>2, <2>5
      <4>2. analysis.entries[i] = rawLog[FirstEvent + i - 1]
        BY <4>1, <1>2 DEF EntriesFollowLog
      <4>3. QED BY <3>2, <4>2, <2>2, <2>3
    <3>3. QED BY <3>1, <3>2
  <2>8. QED BY <2>4, <2>6, <2>7 DEF EntriesFollowLog
<1>11. FlagsFollowLog'
  <2>1. LastWordOn(Parsed)' <=> IF SecureBootEvent(at) THEN e.on ELSE LastWordOn(Parsed)
    <3>1. LastWordOn(FirstEvent..at) <=>
            IF SecureBootEvent(at) THEN e.on ELSE LastWordOn(Parsed)
      BY <1>3, <1>4, LastWordGrows DEF Parsed
    <3>2. LastWordOn(Parsed)' <=> LastWordOn(FirstEvent..at)
      BY <1>1, <1>9 DEF LastWordOn, SecureBootEvent
    <3>3. QED BY <3>1, <3>2
  <2>2. Past' = Past
    BY <1>1, <1>3 DEF Past
  <2>3. /\ LastKey(Past)' <=> LastKey(Past)
        /\ \A v, certs : Holds(Past, v, certs)' <=> Holds(Past, v, certs)
    BY <1>1, <2>2 DEF LastKey, Holds, PkEvent
  <2>4. QED BY <1>1, <1>2, <1>6, <2>1, <2>3 DEF FlagsFollowLog
<1>12. VerdictFollowsFlags'
  BY <1>1, <1>2 DEF VerdictFollowsFlags
<1>13. QED BY <1>1, <1>2, <1>8, <1>10, <1>11, <1>12 DEF BootInv

\* Steps that leave the log, the entries and the flags as they are.
LEMMA FlagsStay ==
  ASSUME EntriesFollowLog, FlagsFollowLog, UNCHANGED <<rawLog, at, checked>>,
         analysis'.entries = analysis.entries,
         analysis'.secureBootEnabled = analysis.secureBootEnabled,
         report'.pkCerts = report.pkCerts, report'.pkIsKnownOem = report.pkIsKnownOem,
         report'.kekHasMicrosoft = report.kekHasMicrosoft,
         report'.dbHasMicrosoftUefiCa = report.dbHasMicrosoftUefiCa
  PROVE  EntriesFollowLog' /\ FlagsFollowLog'
<1>1. FirstEvent' = FirstEvent /\ \A i : Readable(i)' = Readable(i)
  BY DEF FirstEvent, Readable
<1>2. Parsed' = Parsed /\ Past' = Past
  BY <1>1 DEF Parsed, Past
<1>3. EntriesFollowLog'
  BY <1>1, <1>2 DEF EntriesFollowLog
<1>4. /\ LastWordOn(Parsed)' <=> LastWordOn(Parsed)
      /\ LastKey(Past)' <=> LastKey(Past)
      /\ \A v, certs : Holds(Past, v, certs)' <=> Holds(Past, v, certs)
  BY <1>2 DEF LastWordOn, LastKey, Holds, SecureBootEvent, PkEvent
<1>5. FlagsFollowLog'
  BY <1>4 DEF FlagsFollowLog
<1>6. QED BY <1>3, <1>5

\* The parse ends at the first event that cannot be read.
LEMMA ParseDoneKeeps ==
  ASSUME BootInv, ParseDone
  PROVE  BootInv'
<1>1. /\ bpc = "parse" /\ bpc' = "validate" /\ UNCHANGED <<rawLog, at, checked, report>>
      /\ rawLog # <<>> /\ ~Readable(at) /\ Shape
      /\ EntriesFollowLog /\ FlagsFollowLog /\ VerdictFollowsFlags
  BY DEF ParseDone, BootInv
<1>2. PICK w \in Verdicts : analysis' = [analysis EXCEPT !.verdict = w]
  BY DEF ParseDone, Verdicts
<1>3. /\ analysis' \in Analyses /\ analysis'.entries = analysis.entries
      /\ analysis'.secureBootEnabled = analysis.secureBootEnabled
  BY <1>1, <1>2 DEF Shape, Analyses
<1>4. Shape'
  BY <1>1, <1>3 DEF Shape
<1>5. EntriesFollowLog' /\ FlagsFollowLog'
  BY <1>1, <1>3, FlagsStay
<1>6. VerdictFollowsFlags' /\ ~Readable(at)'
  BY <1>1 DEF VerdictFollowsFlags, Readable
<1>7. QED BY <1>1, <1>4, <1>5, <1>6 DEF BootInv

\* The validator goes through one more entry.
LEMMA ValidateKeeps ==
  ASSUME BootInv, ValidateEntry
  PROVE  BootInv'
<1>1. /\ bpc = "validate" /\ bpc' = bpc /\ UNCHANGED <<rawLog, at, analysis>>
      /\ checked' = checked + 1 /\ checked < Len(analysis.entries)
      /\ rawLog # <<>> /\ ~Readable(at) /\ Shape
      /\ EntriesFollowLog /\ FlagsFollowLog /\ VerdictFollowsFlags
  BY DEF ValidateEntry, BootInv, EmptyAnalysis
<1>2. FirstEvent \in {1, 2} /\ FirstEvent' = FirstEvent /\ \A i : Readable(i)' = Readable(i)
  BY <1>1 DEF FirstEvent, Readable
<1>3. checked \in Nat /\ Len(analysis.entries) \in Nat /\ analysis.entries \in Seq(LogEvents)
  BY <1>1 DEF Shape, Analyses
<1> DEFINE m == FirstEvent + checked
           e == rawLog[m]
           key(v) == KeyVariable(e) /\ e.var = v
<1>4. analysis.entries[checked + 1] = e
  <2>1. checked + 1 \in 1..Len(analysis.entries)
    BY <1>1, <1>3
  <2>2. analysis.entries[checked + 1] = rawLog[FirstEvent + (checked + 1) - 1]
    BY <2>1, <1>1 DEF EntriesFollowLog
  <2>3. FirstEvent + (checked + 1) - 1 = m
    BY <1>2, <1>3
  <2>4. QED BY <2>2, <2>3
<1>5. e \in LogEvents
  BY <1>4, <1>1, <1>3
<1>6. e.certs \subseteq Subjects
  BY <1>5, EventFields
<1>7. report' = [report EXCEPT
           !.pkCerts = IF key("PK") THEN e.certs ELSE @,
           !.pkIsKnownOem = @ \/ (key("PK") /\ e.certs \cap OemCerts # {}),
           !.kekHasMicrosoft = @ \/ (key("KEK") /\ e.certs \cap MicrosoftCerts # {}),
           !.dbHasMicrosoftUefiCa = @ \/ (key("db") /\ e.certs \cap UefiCaCerts # {})]
  BY <1>4 DEF ValidateEntry
<1> HIDE DEF e
<1>8. /\ report' \in Reports /\ report'.verdict = report.verdict
      /\ report'.pkCerts = IF key("PK") THEN e.certs ELSE report.pkCerts
      /\ report'.pkIsKnownOem <=> report.pkIsKnownOem
                                  \/ (key("PK") /\ e.certs \cap OemCerts # {})
      /\ report'.kekHasMicrosoft <=> report.kekHasMicrosoft
                                  \/ (key("KEK") /\ e.certs \cap MicrosoftCerts # {})
      /\ report'.dbHasMicrosoftUefiCa <=> report.dbHasMicrosoftUefiCa
                                  \/ (key("db") /\ e.certs \cap UefiCaCerts # {})
  BY <1>1, <1>6, <1>7 DEF Shape, Reports
<1>9. Shape'
  BY <1>1, <1>3, <1>8 DEF Shape
<1>10. m \in Int /\ FirstEvent <= m /\ Past = FirstEvent..(m - 1) /\ Past' = FirstEvent..m
  BY <1>1, <1>2, <1>3 DEF Past
<1>11. EntriesFollowLog'
  <2>1. Parsed' = Parsed
    BY <1>1, <1>2 DEF Parsed
  <2>2. QED BY <1>1, <1>2, <1>3, <2>1 DEF EntriesFollowLog
<1>12. FlagsFollowLog'
  <2>1. LastWordOn(Parsed)' <=> LastWordOn(Parsed)
    BY <1>1, <1>2 DEF LastWordOn, Parsed, SecureBootEvent
  <2>2. /\ LastKey(Past)' <=> LastKey(FirstEvent..m)
        /\ \A v, certs : Holds(Past, v, certs)' <=> Holds(FirstEvent..m, v, certs)
    BY <1>1, <1>10 DEF LastKey, Holds, PkEvent
  <2>3. LastKey(FirstEvent..m) <=> IF key("PK") THEN e.certs # {} ELSE LastKey(Past)
    BY <1>2, <1>10, LastWordGrows DEF e, PkEvent
  <2>4. \A v, certs : Holds(FirstEvent..m, v, certs) <=>
                        Holds(Past, v, certs) \/ (key(v) /\ e.certs \cap certs # {})
    BY <1>2, <1>10, HoldsGrows DEF e
  <2>5. report'.pkCerts # {} <=> LastKey(Past)'
    BY <1>1, <1>8, <2>2, <2>3 DEF FlagsFollowLog
  <2>6. report'.pkIsKnownOem <=> Holds(Past, "PK", OemCerts)'
    BY <1>1, <1>8, <2>2, <2>4 DEF FlagsFollowLog
  <2>7. report'.kekHasMicrosoft <=> Holds(Past, "KEK", MicrosoftCerts)'
    BY <1>1, <1>8, <2>2, <2>4 DEF FlagsFollowLog
  <2>8. report'.dbHasMicrosoftUefiCa <=> Holds(Past, "db", UefiCaCerts)'
    BY <1>1, <1>8, <2>2, <2>4 DEF FlagsFollowLog
  <2>9. QED BY <1>1, <2>1, <2>5, <2>6, <2>7, <2>8 DEF FlagsFollowLog
<1>13. VerdictFollowsFlags' /\ ~Readable(at)'
  BY <1>1, <1>2, <1>8 DEF VerdictFollowsFlags
<1>14. QED BY <1>1, <1>9, <1>11, <1>12, <1>13 DEF BootInv

\* The verdict is given once every entry was looked at.
LEMMA VerdictKeeps ==
  ASSUME BootInv, ChainVerdict
  PROVE  BootInv'
<1>1. /\ bpc = "validate" /\ bpc' = "report" /\ UNCHANGED <<rawLog, at, analysis, checked>>
      /\ checked = Len(analysis.entries)
      /\ rawLog # <<>> /\ ~Readable(at) /\ Shape
      /\ EntriesFollowLog /\ FlagsFollowLog
  BY DEF ChainVerdict, Validated, BootInv
<1> DEFINE errors == \/ ~analysis.secureBootEnabled \/ report.pkCerts = {}
                     \/ ~report.kekHasMicrosoft \/ ~report.dbHasMicrosoftUefiCa
           w == IF errors THEN "FAIL" ELSE IF report.pkIsKnownOem THEN "PASS" ELSE "WARNING"
<1>2. report' = [report EXCEPT !.chainValid = ~errors, !.verdict = w]
  BY DEF ChainVerdict
<1>3. w \in Verdicts /\ (w = "PASS" <=> ~errors /\ report.pkIsKnownOem) /\ (~errors) \in BOOLEAN
  <2>1. (~errors) \in BOOLEAN
    OBVIOUS
  <2>2. CASE errors
    BY <2>1, <2>2 DEF Verdicts
  <2>3. CASE ~errors /\ report.pkIsKnownOem
    BY <2>1, <2>3 DEF Verdicts
  <2>4. CASE ~errors /\ ~report.pkIsKnownOem
    BY <2>1, <2>4 DEF Verdicts
  <2>5. QED BY <2>2, <2>3, <2>4
<1> HIDE DEF w
<1>4. /\ report' \in Reports /\ report'.pkCerts = report.pkCerts
      /\ report'.pkIsKnownOem = report.pkIsKnownOem
      /\ report'.kekHasMicrosoft = report.kekHasMicrosoft
      /\ report'.dbHasMicrosoftUefiCa = report.dbHasMicrosoftUefiCa
      /\ report'.chainValid = ~errors /\ report'.verdict = w
  BY <1>1, <1>2, <1>3 DEF Shape, Reports
<1>5. Shape'
  BY <1>1, <1>4 DEF Shape
<1>6. EntriesFollowLog' /\ FlagsFollowLog'
  BY <1>1, <1>4, FlagsStay
<1>7. VerdictFollowsFlags' /\ ~Readable(at)'
  BY <1>1, <1>3, <1>4 DEF VerdictFollowsFlags, Readable
<1>8. QED BY <1>1, <1>5, <1>6, <1>7 DEF BootInv

\* The report fills the posture, and the caller takes it.
LEMMA ReportKeeps ==
  ASSUME BootInv, Report \/ PostureTaken \/ UNCHANGED bootVars
  PROVE  BootInv'
<1>1. CASE Report
  <2>1. /\ bpc = "report" /\ bpc' = "done" /\ UNCHANGED <<rawLog, at, analysis, checked, report>>
        /\ rawLog # <<>> /\ ~Readable(at) /\ Shape
        /\ EntriesFollowLog /\ FlagsFollowLog /\ VerdictFollowsFlags
    BY <1>1 DEF Report, BootInv
  <2>2. EntriesFollowLog' /\ FlagsFollowLog'
    BY <2>1, FlagsStay
  <2>3. Shape' /\ VerdictFollowsFlags' /\ ~Readable(at)'
    BY <2>1 DEF Shape, VerdictFollowsFlags, Readable
  <2>4. QED BY <2>1, <2>2, <2>3 DEF BootInv
<1>2. CASE PostureTaken
  <2>1. BootInit'
    BY <1>2 DEF PostureTaken, BootInit
  <2>2. QED BY <2>1, BootInitial, PTL
<1>3. CASE UNCHANGED bootVars
  <2>1. UNCHANGED <<bpc, rawLog, at, analysis, checked, report>>
    BY <1>3 DEF bootVars
  <2>2. Shape' /\ (VerdictFollowsFlags' <=> VerdictFollowsFlags) /\ (Readable(at)' <=> Readable(at))
    BY <2>1 DEF BootInv, Shape, VerdictFollowsFlags, Readable
  <2>3. EntriesFollowLog /\ FlagsFollowLog => EntriesFollowLog' /\ FlagsFollowLog'
    BY <2>1, FlagsStay
  <2>4. QED BY <2>1, <2>2, <2>3 DEF BootInv
<1>4. QED BY <1>1, <1>2, <1>3

\* Where the first event and the end of the parse are.
LEMMA Places ==
  ASSUME Shape, EntriesFollowLog
  PROVE  /\ FirstEvent \in Int /\ at \in Int /\ Len(rawLog) \in Int
         /\ Len(analysis.entries) \in Nat /\ at = FirstEvent + Len(analysis.entries)
<1>1. rawLog \in Seq(LogEvents) /\ analysis.entries \in Seq(LogEvents)
  BY DEF Shape, Analyses
<1>2. Len(rawLog) \in Int /\ Len(analysis.entries) \in Nat
  BY <1>1
<1>3. FirstEvent \in Int
  BY DEF FirstEvent
<1>4. QED BY <1>2, <1>3 DEF Shape, EntriesFollowLog

\* A validator that went through every entry passed what the parser passed.
LEMMA AllPast ==
  ASSUME Shape, EntriesFollowLog, checked = Len(analysis.entries)
  PROVE  Past = Parsed
  BY Places DEF Past, Parsed

\* A parse that is over has passed what can be read, and nothing else.
LEMMA ReadIsParsed ==
  ASSUME Shape, EntriesFollowLog, ~Readable(at)
  PROVE  ReadSet = Parsed
<1>1. ASSUME NEW i \in Parsed PROVE i \in ReadSet
  <2>1. i \in Int /\ FirstEvent <= i /\ i <= at - 1
    BY Places DEF Parsed
  <2>2. \A j \in FirstEvent..i : j \in Parsed
    BY <2>1, Places DEF Parsed
  <2>3. \A j \in FirstEvent..i : Readable(j)
    BY <2>2 DEF EntriesFollowLog
  <2>4. i <= Len(rawLog)
    BY DEF EntriesFollowLog, Readable
  <2>5. QED BY <2>1, <2>3, <2>4, Places DEF ReadSet
<1>2. ASSUME NEW i \in ReadSet, i \notin Parsed PROVE FALSE
  <2>1. i \in Int /\ FirstEvent <= i /\ \A j \in FirstEvent..i : Readable(j)
    BY Places DEF ReadSet
  <2>2. FirstEvent <= at /\ at <= i
    BY <1>2, <2>1, Places DEF Parsed
  <2>3. at \in FirstEvent..i
    BY <2>1, <2>2, Places
  <2>4. QED BY <2>1, <2>3
<1>3. QED BY <1>1, <1>2

\* Every step keeps the invariant.
LEMMA BootStepKeeps == BootInv /\ [BootNext]_bootVars => BootInv'
  BY ReadKeeps, ParseKeeps, ParseDoneKeeps, ValidateKeeps, VerdictKeeps, ReportKeeps
  DEF BootNext, BootStep

\* A parse that is over knows what the log says of Secure Boot.
LEMMA Analysed ==
  ASSUME BootInv, rawLog # <<>>, bpc # "parse"
  PROVE  /\ ReadSet = Parsed /\ Shape /\ EntriesFollowLog /\ FlagsFollowLog /\ VerdictFollowsFlags
         /\ SecureBootOn <=> LastWordOn(Parsed)
         /\ checked = Len(analysis.entries) =>
              /\ PlatformKey <=> LastKey(Past)
              /\ \A v, certs : KeyHolds(v, certs) <=> Holds(Past, v, certs)
<1>1. Shape /\ EntriesFollowLog /\ FlagsFollowLog /\ VerdictFollowsFlags /\ ~Readable(at)
  BY DEF BootInv
<1>2. ReadSet = Parsed
  BY <1>1, ReadIsParsed
<1>3. SecureBootOn <=> LastWordOn(Parsed)
  BY <1>2 DEF SecureBootOn, LastWordOn
<1>4. ASSUME checked = Len(analysis.entries)
      PROVE  /\ PlatformKey <=> LastKey(Past)
             /\ \A v, certs : KeyHolds(v, certs) <=> Holds(Past, v, certs)
  <2>1. ReadSet = Past
    BY <1>1, <1>2, <1>4, AllPast
  <2>2. QED BY <2>1 DEF PlatformKey, LastKey, KeyHolds, Holds
<1>5. QED BY <1>1, <1>2, <1>3, <1>4

-----------------------------------------------------------------------------
(* The counts and the posture. *)

OfClass(s, c) == {i \in s : Classification(rawLog[i]) = c}

\* Each event parsed is counted in its class; a log passes only if Secure Boot is
\* on and no event is unknown.
CountsFollowLog ==
  /\ Len(rawLog) <= MaxEvents
  /\ rawLog = <<>> => at = 1
  /\ rawLog # <<>> =>
       /\ analysis.verified = Cardinality(OfClass(Parsed, "verified"))
       /\ analysis.policy   = Cardinality(OfClass(Parsed, "policy"))
       /\ analysis.unknown  = Cardinality(OfClass(Parsed, "unknown"))
  /\ bpc \in {"validate", "report"} /\ analysis.verdict = "PASS" =>
       analysis.secureBootEnabled /\ analysis.unknown = 0

\* There is a posture once the log was reported.
PostureFollowsAnalysis ==
  posture = IF bpc = "done" /\ rawLog # <<>>
            THEN [secure_boot |-> IF analysis.secureBootEnabled THEN 1 ELSE 0,
                  oem_keyed |-> IF report.pkIsKnownOem THEN 1 ELSE 0,
                  measurements |-> Len(analysis.entries)]
            ELSE NoPosture

\* The places parsed are in the log, and as many as the entries.
LEMMA ParsedCount ==
  ASSUME Shape, EntriesFollowLog, rawLog # <<>>, NEW c
  PROVE  /\ IsFiniteSet(Parsed) /\ Cardinality(Parsed) = Len(analysis.entries)
         /\ Len(analysis.entries) <= Len(rawLog) /\ at <= Len(rawLog) + 2
         /\ IsFiniteSet(OfClass(Parsed, c)) /\ Cardinality(OfClass(Parsed, c)) \in Nat
         /\ Cardinality(OfClass(Parsed, c)) <= Len(analysis.entries)
<1>1. /\ FirstEvent \in {1, 2} /\ at \in Int /\ Len(rawLog) \in Nat
      /\ Len(analysis.entries) \in Nat /\ at = FirstEvent + Len(analysis.entries)
  <2>1. FirstEvent \in {1, 2}
    BY DEF FirstEvent
  <2>2. rawLog \in Seq(LogEvents)
    BY DEF Shape
  <2>3. Len(rawLog) \in Nat
    BY <2>2
  <2>4. QED BY <2>1, <2>3, Places
<1>2. IsFiniteSet(Parsed) /\ Cardinality(Parsed) = Len(analysis.entries)
  <2>1. at - 1 \in Int /\ FirstEvent \in Int
    BY <1>1
  <2>2. /\ IsFiniteSet(Parsed)
        /\ Cardinality(Parsed) = IF FirstEvent > at - 1 THEN 0 ELSE (at - 1) - FirstEvent + 1
    BY <2>1, FS_Interval DEF Parsed
  <2>3. QED BY <1>1, <2>2
<1>3. Len(analysis.entries) <= Len(rawLog) /\ at <= Len(rawLog) + 2
  <2>1. CASE Len(analysis.entries) = 0
    BY <1>1, <2>1
  <2>2. CASE Len(analysis.entries) # 0
    <3>1. at - 1 \in Parsed
      BY <1>1, <2>2 DEF Parsed
    <3>2. at - 1 <= Len(rawLog)
      BY <3>1 DEF EntriesFollowLog, Readable
    <3>3. QED BY <1>1, <3>2
  <2>3. QED BY <2>1, <2>2
<1>4. OfClass(Parsed, c) \subseteq Parsed
  BY DEF OfClass
<1>5. IsFiniteSet(OfClass(Parsed, c)) /\ Cardinality(OfClass(Parsed, c)) <= Cardinality(Parsed)
  BY <1>2, <1>4, FS_Subset
<1>6. Cardinality(OfClass(Parsed, c)) \in Nat
  BY <1>5, FS_CardinalityType
<1>7. QED BY <1>2, <1>3, <1>5, <1>6

\* One more event is counted in its class and in no other.
LEMMA CountGrows ==
  ASSUME BootInv, ParseEvent, NEW c
  PROVE  Cardinality(OfClass(Parsed, c)') =
           Cardinality(OfClass(Parsed, c)) + CountIf(Classification(rawLog[at]) = c)
<1>1. /\ Shape /\ EntriesFollowLog /\ rawLog # <<>> /\ rawLog' = rawLog /\ at' = at + 1
  BY DEF BootInv, ParseEvent
<1>2. /\ FirstEvent \in {1, 2} /\ FirstEvent' = FirstEvent /\ at \in Int /\ FirstEvent <= at
  <2>1. FirstEvent \in {1, 2} /\ FirstEvent' = FirstEvent
    BY <1>1 DEF FirstEvent
  <2>2. at \in Int /\ Len(analysis.entries) \in Nat /\ at = FirstEvent + Len(analysis.entries)
    BY <1>1, Places
  <2>3. FirstEvent <= at
    BY <2>1, <2>2
  <2>4. QED BY <2>1, <2>2, <2>3
<1>3. Parsed' = Parsed \cup {at} /\ at \notin Parsed
  <2>1. FirstEvent \in Int /\ at' - 1 = at
    BY <1>1, <1>2
  <2>2. Parsed' = FirstEvent..at
    BY <1>2, <2>1 DEF Parsed
  <2>3. FirstEvent..at = (FirstEvent..(at - 1)) \cup {at}
    BY <1>2, <2>1, OneMore
  <2>4. at \notin FirstEvent..(at - 1)
    BY <1>2, <2>1
  <2>5. QED BY <2>2, <2>3, <2>4 DEF Parsed
<1>4. OfClass(Parsed, c)' = IF Classification(rawLog[at]) = c THEN OfClass(Parsed, c) \cup {at}
                            ELSE OfClass(Parsed, c)
  BY <1>1, <1>3 DEF OfClass, Classification
<1>5. at \notin OfClass(Parsed, c)
  BY <1>3 DEF OfClass
<1>6. IsFiniteSet(OfClass(Parsed, c)) /\ Cardinality(OfClass(Parsed, c)) \in Nat
  BY <1>1, ParsedCount
<1>7. CASE Classification(rawLog[at]) = c
  <2>1. Cardinality(OfClass(Parsed, c) \cup {at}) = Cardinality(OfClass(Parsed, c)) + 1
    BY <1>5, <1>6, FS_AddElement
  <2>2. QED BY <1>4, <1>7, <2>1 DEF CountIf
<1>8. CASE Classification(rawLog[at]) # c
  BY <1>4, <1>6, <1>8 DEF CountIf
<1>9. QED BY <1>7, <1>8

\* A step that parses nothing keeps the counts.
LEMMA CountsStay ==
  ASSUME CountsFollowLog, UNCHANGED <<rawLog, at>>,
         analysis'.verified = analysis.verified, analysis'.policy = analysis.policy,
         analysis'.unknown = analysis.unknown,
         bpc' \in {"validate", "report"} /\ analysis'.verdict = "PASS" =>
           analysis'.secureBootEnabled /\ analysis'.unknown = 0
  PROVE  CountsFollowLog'
<1>1. \A c : OfClass(Parsed, c)' = OfClass(Parsed, c)
  BY DEF OfClass, Parsed, FirstEvent, Classification
<1>2. QED BY <1>1 DEF CountsFollowLog

\* Every step keeps the counts.
LEMMA CountsStep == BootInv /\ CountsFollowLog /\ [BootNext]_bootVars => CountsFollowLog'
<1> SUFFICES ASSUME BootInv, CountsFollowLog, [BootNext]_bootVars PROVE CountsFollowLog'
  OBVIOUS
<1>0. analysis \in Analyses
  BY DEF BootInv, Shape
<1>1. CASE ReadEventLog
  <2>1. PICK n \in 0..MaxEvents : rawLog' \in [1..n -> LogEvents]
    BY <1>1 DEF ReadEventLog
  <2>2. n \in Nat /\ Len(rawLog') = n /\ n <= MaxEvents
    BY <2>1, BootConstants
  <2>3. analysis' = EmptyAnalysis /\ bpc' \in {"parse", "done"}
    BY <1>1 DEF ReadEventLog, BootInv
  <2>4. rawLog' = <<>> => at' = 1
    BY <1>1 DEF ReadEventLog
  <2>5. ASSUME rawLog' # <<>> PROVE \A c : Cardinality(OfClass(Parsed, c)') = 0
    <3>1. at' = FirstEvent' /\ FirstEvent' \in {1, 2}
      BY <1>1, <2>5 DEF ReadEventLog, FirstEvent
    <3>2. Parsed' = {}
      <4>1. PICK f \in {1, 2} : FirstEvent' = f /\ at' = f
        BY <3>1
      <4>2. Parsed' = f..(f - 1)
        BY <4>1 DEF Parsed
      <4>3. f..(f - 1) = {}
        BY <4>1
      <4>4. QED BY <4>2, <4>3
    <3>3. \A c : OfClass(Parsed, c)' = {}
      BY <3>2 DEF OfClass
    <3>4. QED BY <3>3, FS_EmptySet
  <2>6. QED BY <2>2, <2>3, <2>4, <2>5 DEF CountsFollowLog, EmptyAnalysis
<1>2. CASE ParseEvent
  <2>1. bpc' = "parse" /\ rawLog' = rawLog /\ rawLog # <<>>
    BY <1>2 DEF ParseEvent, BootInv
  <2>2. /\ analysis'.verified = analysis.verified + CountIf(Classification(rawLog[at]) = "verified")
        /\ analysis'.policy   = analysis.policy + CountIf(Classification(rawLog[at]) = "policy")
        /\ analysis'.unknown  = analysis.unknown + CountIf(Classification(rawLog[at]) = "unknown")
    BY <1>0, <1>2 DEF ParseEvent, Analyses
  <2>3. QED BY <1>2, <2>1, <2>2, CountGrows DEF CountsFollowLog
<1>3. CASE ParseDone
  <2>1. UNCHANGED <<rawLog, at>>
    BY <1>3 DEF ParseDone
  <2>2. /\ analysis'.verified = analysis.verified /\ analysis'.policy = analysis.policy
        /\ analysis'.unknown = analysis.unknown
        /\ analysis'.secureBootEnabled = analysis.secureBootEnabled
        /\ analysis'.verdict = IF ~analysis.secureBootEnabled THEN "FAIL"
                               ELSE IF analysis.unknown = 0 THEN "PASS" ELSE "WARNING"
    BY <1>0, <1>3 DEF ParseDone, Analyses
  <2>3. QED BY <2>1, <2>2, CountsStay
<1>4. CASE ValidateEntry \/ ChainVerdict
  <2>1. UNCHANGED <<rawLog, at, analysis>> /\ bpc = "validate"
    BY <1>4 DEF ValidateEntry, ChainVerdict, Validated
  <2>2. QED BY <2>1, CountsStay DEF CountsFollowLog
<1>5. CASE Report
  <2>1. UNCHANGED <<rawLog, at, analysis>> /\ bpc' = "done"
    BY <1>5 DEF Report
  <2>2. QED BY <2>1, CountsStay
<1>6. CASE PostureTaken
  <2>1. rawLog' = <<>> /\ at' = 1 /\ bpc' = "idle" /\ Len(rawLog') = 0
    BY <1>6 DEF PostureTaken
  <2>2. QED BY <2>1, BootConstants DEF CountsFollowLog
<1>7. CASE UNCHANGED bootVars
  <2>1. UNCHANGED <<rawLog, at, analysis, bpc>>
    BY <1>7 DEF bootVars
  <2>2. QED BY <2>1, CountsStay DEF CountsFollowLog
<1>8. QED BY <1>1, <1>2, <1>3, <1>4, <1>5, <1>6, <1>7 DEF BootNext, BootStep

\* Every step keeps the posture.
LEMMA PostureStep ==
  BootInv /\ PostureFollowsAnalysis /\ [BootNext]_bootVars => PostureFollowsAnalysis'
<1> SUFFICES ASSUME BootInv, PostureFollowsAnalysis, [BootNext]_bootVars
             PROVE  PostureFollowsAnalysis'
  OBVIOUS
<1>1. CASE ReadEventLog
  BY <1>1 DEF ReadEventLog, PostureFollowsAnalysis
<1>2. CASE ParseEvent \/ ParseDone \/ ValidateEntry \/ ChainVerdict
  BY <1>2 DEF ParseEvent, ParseDone, ValidateEntry, ChainVerdict, Validated, PostureFollowsAnalysis
<1>3. CASE Report
  BY <1>3 DEF Report, BootInv, PostureFollowsAnalysis
<1>4. CASE PostureTaken
  BY <1>4 DEF PostureTaken, PostureFollowsAnalysis
<1>5. CASE UNCHANGED bootVars
  BY <1>5 DEF bootVars, PostureFollowsAnalysis
<1>6. QED BY <1>1, <1>2, <1>3, <1>4, <1>5 DEF BootNext, BootStep

-----------------------------------------------------------------------------
\* The invariant of the boot log.
LEMMA BootInvariant == BootSpec => [](BootInv /\ CountsFollowLog /\ PostureFollowsAnalysis)
<1>1. BootInit => CountsFollowLog /\ PostureFollowsAnalysis
  <2> SUFFICES ASSUME BootInit PROVE CountsFollowLog /\ PostureFollowsAnalysis
    OBVIOUS
  <2>1. rawLog = <<>> /\ Len(rawLog) = 0 /\ at = 1 /\ bpc = "idle" /\ posture = NoPosture
    BY DEF BootInit
  <2>2. QED BY <2>1, BootConstants DEF CountsFollowLog, PostureFollowsAnalysis
<1>2. QED
  BY BootInitial, <1>1, BootStepKeeps, CountsStep, PostureStep, PTL DEF BootSpec

\* The variables of the boot log have their type: the counts fit any log.
THEOREM BootTypeCorrect == BootSpec => []BootTypeOK
<1>1. BootInv /\ CountsFollowLog /\ PostureFollowsAnalysis => BootTypeOK
  <2> SUFFICES ASSUME BootInv, CountsFollowLog, PostureFollowsAnalysis PROVE BootTypeOK
    OBVIOUS
  <2>1. Shape
    BY DEF BootInv
  <2>2. /\ \A i \in 1..Len(rawLog) : rawLog[i] \in LogEvents
        /\ analysis.verdict \in Verdicts /\ report.verdict \in Verdicts
        /\ report.pkCerts \subseteq Subjects /\ Len(rawLog) \in Nat
    BY <2>1 DEF Shape, Analyses, Reports
  <2>3. CASE rawLog = <<>>
    <3>1. /\ analysis = EmptyAnalysis /\ checked = 0 /\ at = 1 /\ posture = NoPosture
      BY <2>3 DEF BootInv, CountsFollowLog, PostureFollowsAnalysis
    <3>2. /\ {analysis.verified, analysis.policy, analysis.unknown} \subseteq 0..MaxEvents
          /\ checked \in 0..Len(analysis.entries) /\ at \in 1..(MaxEvents + 2)
      <4>1. /\ Len(analysis.entries) = 0
            /\ analysis.verified = 0 /\ analysis.policy = 0 /\ analysis.unknown = 0
        BY <3>1 DEF EmptyAnalysis
      <4>2. 0 \in 0..MaxEvents /\ 0 \in 0..0 /\ 1 \in 1..(MaxEvents + 2)
        BY BootConstants
      <4>3. checked \in 0..Len(analysis.entries) /\ at \in 1..(MaxEvents + 2)
        BY <3>1, <4>1, <4>2
      <4>4. QED BY <4>1, <4>2, <4>3
    <3>3. /\ posture.secure_boot \in -1..1 /\ posture.oem_keyed \in -1..1
          /\ posture.measurements \in -1..MaxEvents
      BY <3>1, BootConstants DEF NoPosture, Undetermined
    <3>4. QED BY <2>1, <2>2, <3>2, <3>3 DEF BootTypeOK, Shape, Verdicts
  <2>4. CASE rawLog # <<>>
    <3>1. EntriesFollowLog /\ Len(rawLog) <= MaxEvents /\ FirstEvent \in {1, 2}
      BY <2>4 DEF BootInv, CountsFollowLog, FirstEvent
    <3>2. /\ Len(analysis.entries) \in Nat /\ at = FirstEvent + Len(analysis.entries)
          /\ Len(analysis.entries) <= MaxEvents /\ at <= MaxEvents + 2
      BY <2>1, <2>2, <2>4, <3>1, ParsedCount, Places, BootConstants
    <3>3. /\ analysis.verified \in 0..MaxEvents /\ analysis.policy \in 0..MaxEvents
          /\ analysis.unknown \in 0..MaxEvents
      BY <2>1, <2>4, <3>1, <3>2, ParsedCount, BootConstants DEF CountsFollowLog
    <3>4. checked \in 0..Len(analysis.entries) /\ at \in 1..(MaxEvents + 2)
      BY <2>1, <3>1, <3>2, BootConstants DEF EntriesFollowLog, Shape
    <3>5. /\ posture.secure_boot \in -1..1 /\ posture.oem_keyed \in -1..1
          /\ posture.measurements \in -1..MaxEvents
      BY <3>2, BootConstants DEF PostureFollowsAnalysis, NoPosture, Undetermined
    <3>6. QED BY <2>1, <2>2, <3>3, <3>4, <3>5 DEF BootTypeOK, Shape, Verdicts
  <2>5. QED BY <2>3, <2>4
<1>2. QED BY <1>1, BootInvariant, PTL

\* The analysis counts each readable event in its class, and goes by the last
\* word on Secure Boot.
THEOREM AnalysisAlwaysMatchesLog == BootSpec => []AnalysisMatchesLog
<1>1. BootInv /\ CountsFollowLog => AnalysisMatchesLog
  <2> SUFFICES ASSUME BootInv, CountsFollowLog, bpc \in {"validate", "report"}
               PROVE  AnalysisMatchesLog
    BY DEF AnalysisMatchesLog
  <2>1. rawLog # <<>>
    BY DEF BootInv
  <2>2. ReadSet = Parsed /\ Shape /\ EntriesFollowLog /\ FlagsFollowLog /\ (SecureBootOn <=> LastWordOn(Parsed))
    BY <2>1, Analysed
  <2>3. \A c : Classified(c) = OfClass(Parsed, c)
    BY <2>2 DEF Classified, OfClass
  <2>4. Len(analysis.entries) = Cardinality(ReadSet)
    BY <2>1, <2>2, ParsedCount
  <2>5. analysis.secureBootEnabled = SecureBootOn
    <3>1. analysis.secureBootEnabled \in BOOLEAN /\ SecureBootOn \in BOOLEAN
      BY <2>2 DEF Shape, Analyses, SecureBootOn
    <3>2. analysis.secureBootEnabled <=> SecureBootOn
      BY <2>2 DEF FlagsFollowLog
    <3>3. QED BY ONLY <3>1, <3>2, Zenon
  <2>6. analysis.verdict = "PASS" => SecureBootOn /\ Classified("unknown") = {}
    <3> SUFFICES ASSUME analysis.verdict = "PASS" PROVE SecureBootOn /\ Classified("unknown") = {}
      OBVIOUS
    <3>1. analysis.secureBootEnabled /\ analysis.unknown = 0
      BY DEF CountsFollowLog
    <3>2. IsFiniteSet(OfClass(Parsed, "unknown")) /\ Cardinality(OfClass(Parsed, "unknown")) = 0
      BY <2>1, <2>2, <3>1, ParsedCount DEF CountsFollowLog
    <3>3. OfClass(Parsed, "unknown") = {}
      BY <3>2, FS_EmptySet
    <3>4. QED BY <2>3, <2>5, <3>1, <3>3
  <2>7. QED BY <2>1, <2>3, <2>4, <2>5, <2>6 DEF AnalysisMatchesLog, CountsFollowLog
<1>2. QED BY <1>1, BootInvariant, PTL

\* A Secure Boot chain is valid, and passes, only if the readable part of the log
\* says what the verdict claims.
THEOREM ChainIsGrounded == BootSpec => []ChainGrounded
<1>1. BootInv => ChainGrounded
  <2> SUFFICES ASSUME BootInv, report.verdict # "" PROVE ChainGrounded
    BY DEF ChainGrounded
  <2>1. rawLog # <<>>
    <3>1. EmptyReport.verdict = ""
      BY DEF EmptyReport
    <3>2. rawLog = <<>> => report = EmptyReport
      BY DEF BootInv
    <3>3. QED BY <3>1, <3>2
  <2>2. bpc \in {"report", "done"} /\ checked = Len(analysis.entries)
    BY <2>1 DEF BootInv, VerdictFollowsFlags
  <2>3. /\ FlagsFollowLog /\ VerdictFollowsFlags
        /\ SecureBootOn <=> LastWordOn(Parsed)
        /\ PlatformKey <=> LastKey(Past)
        /\ \A v, certs : KeyHolds(v, certs) <=> Holds(Past, v, certs)
    BY <2>1, <2>2, Analysed
  <2>4. QED BY <2>2, <2>3 DEF ChainGrounded, FlagsFollowLog, VerdictFollowsFlags
<1>2. QED BY <1>1, BootInvariant, PTL

\* Where the log has a say, the posture is what one analysis of it says; there is
\* none without a log.
THEOREM PostureAlwaysAgrees == BootSpec => []PostureAgrees
<1>1. BootInv /\ PostureFollowsAnalysis => PostureAgrees
  <2> SUFFICES ASSUME BootInv, PostureFollowsAnalysis, bpc = "done" PROVE PostureAgrees
    BY DEF PostureAgrees
  <2>1. CASE rawLog = <<>>
    <3>1. posture = NoPosture BY <2>1 DEF PostureFollowsAnalysis
    <3>2. posture.secure_boot # 1 /\ posture.oem_keyed # 1
      BY <3>1 DEF NoPosture, Undetermined
    <3>3. ReadSet = {}
      <4>1. Len(rawLog) = 0 /\ FirstEvent = 1 BY <2>1 DEF FirstEvent
      <4>2. QED BY <4>1 DEF ReadSet
    <3>4. ~SecureBootOn /\ ~KeyHolds("PK", OemCerts)
      BY <3>3 DEF SecureBootOn, KeyHolds
    <3>5. ~report.chainValid
      <4>1. report = EmptyReport BY <2>1 DEF BootInv
      <4>2. QED BY <4>1 DEF EmptyReport
    <3>6. QED BY <2>1, <3>1, <3>2, <3>3, <3>4, <3>5 DEF PostureAgrees
  <2>2. CASE rawLog # <<>>
    <3>1. checked = Len(analysis.entries)
      BY <2>2 DEF BootInv, VerdictFollowsFlags
    <3>2. /\ ReadSet = Parsed /\ Shape /\ EntriesFollowLog /\ FlagsFollowLog /\ VerdictFollowsFlags
          /\ SecureBootOn <=> LastWordOn(Parsed)
          /\ \A v, certs : KeyHolds(v, certs) <=> Holds(Past, v, certs)
      BY <2>2, <3>1, Analysed
    <3>3. /\ analysis.secureBootEnabled <=> SecureBootOn
          /\ report.pkIsKnownOem <=> KeyHolds("PK", OemCerts)
          /\ report.chainValid => analysis.secureBootEnabled
      BY <3>2 DEF FlagsFollowLog, VerdictFollowsFlags
    <3>4. Len(analysis.entries) = Cardinality(ReadSet)
      BY <2>2, <3>2, ParsedCount
    <3>5. /\ posture.secure_boot = IF analysis.secureBootEnabled THEN 1 ELSE 0
          /\ posture.oem_keyed = IF report.pkIsKnownOem THEN 1 ELSE 0
          /\ posture.measurements = Len(analysis.entries)
      BY <2>2 DEF PostureFollowsAnalysis
    <3>6. QED BY <2>2, <3>3, <3>4, <3>5 DEF PostureAgrees, Undetermined
  <2>3. QED BY <2>1, <2>2
<1>2. QED BY <1>1, BootInvariant, PTL
=============================================================================
