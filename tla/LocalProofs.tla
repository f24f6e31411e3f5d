---------------------------- MODULE LocalProofs ----------------------------
(***************************************************************************)
(* Three local parts of the Windows client, for every value of their       *)
(* constants: lines go to the right callback for any number of threads,    *)
(* callbacks and registrations; the EK certificate chain is whole and      *)
(* complete, and the merge repeats nothing, for any sizes and indices; and *)
(* the device has one id, which the server knows if the best certificate   *)
(* is in the store of Windows.  The parts share no state.                  *)
(***************************************************************************)
EXTENDS LogShim, EkCertificates, DeviceIdentity, TLAPS, SequenceTheorems,
        FiniteSetTheorems, NaturalsInduction, WellFoundedInduction

-----------------------------------------------------------------------------
(* The log callback. *)

\* The globals belong together whenever nobody is between the two writes, and
\* what a thread has fetched without an overlap is what the globals hold.
Paired ==
  ~raced =>
    /\ \A s, t \in LogThreads : Registering(s) /\ Registering(t) => s = t
    /\ \A t \in LogThreads : Registering(t) => g_log_callback = reg[t]
    /\ (\A t \in LogThreads : ~Registering(t)) => g_log_callback = g_log_user_data

Fetched ==
  \A t \in LogThreads :
    Logging(t) /\ ~overlap[t] /\ ~raced =>
      /\ \A s \in LogThreads : ~Registering(s)
      /\ g_log_callback # NULL
      /\ fn[t] \in {Unread, g_log_callback} /\ data[t] \in {Unread, g_log_user_data}
      /\ lpc[t] = "call" => fn[t] # Unread /\ data[t] # Unread

Unfetched ==
  \A t \in LogThreads : lpc[t] \notin {"format", "call"} => fn[t] = Unread /\ data[t] = Unread

LogInv == LogTypeOK /\ Paired /\ Fetched /\ Unfetched /\ LinesMatchedUnlessRegistering

-----------------------------------------------------------------------------
\* The invariant holds initially.
LEMMA LogInitial == LogInit => LogInv
<1> SUFFICES ASSUME LogInit PROVE LogInv
  OBVIOUS
<1>1. LogTypeOK
  <2>1. lpc \in [LogThreads -> {"out", "user_data", "level", "format", "call"}]
    BY DEF LogInit
  <2>2. fn \in [LogThreads -> Ptrs \cup {Unread}] /\ data \in [LogThreads -> Ptrs \cup {Unread}]
    BY DEF LogInit
  <2>3. \A t \in LogThreads : lpc[t] = "call" => Unread \notin {fn[t], data[t]}
    BY DEF LogInit
  <2>4. reg \in [LogThreads -> Ptrs] /\ overlap \in [LogThreads -> BOOLEAN]
    BY DEF LogInit, Ptrs
  <2>5. emitted \subseteq [fn : Ptrs, data : Ptrs, overlap : BOOLEAN]
    BY DEF LogInit
  <2>6. g_log_callback \in Ptrs /\ g_log_user_data \in Ptrs /\ g_log_max_level \in 0..4
    BY DEF LogInit, Ptrs
  <2>7. raced \in BOOLEAN /\ alive \in BOOLEAN
    BY DEF LogInit
  <2>8. QED BY <2>1, <2>2, <2>3, <2>4, <2>5, <2>6, <2>7 DEF LogTypeOK
<1>2. QED
  BY <1>1, LogConstants
  DEF LogInit, LogInv, Paired, Fetched, Unfetched, LinesMatchedUnlessRegistering, Registering, Logging

\* A registration begins: what overlaps it is marked.
LEMMA BeginKeeps ==
  ASSUME LogInv, NEW t \in LogThreads, NEW f \in Ptrs, SetLogCallback(t, f)
  PROVE  LogInv'
<1>1. LogTypeOK'
  BY LogConstants DEF LogInv, LogTypeOK, SetLogCallback, fetchVars
<1>2. Paired'
  BY LogConstants DEF LogInv, LogTypeOK, Paired, SetLogCallback, fetchVars, Registering
<1>3. Fetched' /\ Unfetched'
  BY LogConstants DEF LogInv, LogTypeOK, Fetched, Unfetched, SetLogCallback, fetchVars, Registering, Logging
<1>4. LinesMatchedUnlessRegistering'
  BY DEF LogInv, LogTypeOK, LinesMatchedUnlessRegistering, SetLogCallback
<1>5. QED BY <1>1, <1>2, <1>3, <1>4 DEF LogInv

\* A registration ends, and the globals match if no other was under way.
LEMMA EndKeeps ==
  ASSUME LogInv, NEW t \in LogThreads, SetUserData(t)
  PROVE  LogInv'
  BY LogConstants
  DEF LogInv, LogTypeOK, Paired, Fetched, Unfetched, LinesMatchedUnlessRegistering,
      Registering, Logging, Ptrs, SetUserData, fetchVars, histVars

\* The level filters lines, and touches no pointer.
LEMMA LevelKeeps ==
  ASSUME LogInv, NEW t \in LogThreads, NEW l \in LogLevels,
         SetLogLevel(t, l) \/ LogFilter(t, l)
  PROVE  LogInv'
<1>1. CASE SetLogLevel(t, l)
  BY <1>1, LogConstants
  DEF LogInv, LogTypeOK, Paired, Fetched, Unfetched, LinesMatchedUnlessRegistering,
      Registering, Logging, SetLogLevel, fetchVars, histVars
<1>2. CASE LogFilter(t, l)
  <2>1. LogTypeOK'
    BY <1>2 DEF LogInv, LogTypeOK, LogFilter, fetchVars, histVars, globals
  <2>2. Paired' /\ LinesMatchedUnlessRegistering'
    BY <1>2 DEF LogInv, LogTypeOK, Paired, LinesMatchedUnlessRegistering, Registering,
                LogFilter, fetchVars, histVars, globals
  <2>3. Fetched' /\ Unfetched'
    <3>1. lpc[t] = "level" /\ lpc'[t] \in {"out", "format"}
      BY <1>2 DEF LogInv, LogTypeOK, LogFilter
    <3>2. \A s \in LogThreads : s # t => lpc'[s] = lpc[s]
      BY <1>2 DEF LogInv, LogTypeOK, LogFilter
    <3>3. \A s \in LogThreads : (Logging(s)' => Logging(s)) /\ Registering(s)' = Registering(s)
      BY <3>1, <3>2 DEF Logging, Registering
    <3>4. \/ fn[t] \in {Unread, g_log_callback} /\ data[t] \in {Unread, g_log_user_data}
          \/ overlap[t] \/ raced
      BY <3>1 DEF LogInv, Fetched, Unfetched, Logging
    <3>5. fn[t] = Unread /\ data[t] = Unread
      BY <3>1 DEF LogInv, LogTypeOK, Unfetched
    <3>6. QED
      BY <1>2, <3>1, <3>2, <3>3, <3>4, <3>5
      DEF LogInv, Fetched, Unfetched, LogFilter, Logging, fetchVars, histVars, globals
  <2>4. QED BY <2>1, <2>2, <2>3 DEF LogInv
<1>3. QED BY <1>1, <1>2

\* A line begins, marked if a registration is under way.
LEMMA EnterKeeps ==
  ASSUME LogInv, NEW t \in LogThreads, LogEnter(t)
  PROVE  LogInv'
  BY LogConstants
  DEF LogInv, LogTypeOK, Paired, Fetched, Unfetched, LinesMatchedUnlessRegistering,
      Registering, Logging, Ptrs, LogEnter, fetchVars, globals

\* The pointers of a call are read one by one.
LEMMA FetchKeeps ==
  ASSUME LogInv, NEW t \in LogThreads, FetchCallback(t) \/ FetchUserData(t)
  PROVE  LogInv'
  BY LogConstants
  DEF LogInv, LogTypeOK, Paired, Fetched, Unfetched, LinesMatchedUnlessRegistering,
      Registering, Logging, Ptrs, FetchCallback, FetchUserData, histVars, globals

\* A call that nothing overlapped has one registration's pointers.
LEMMA CallKeeps ==
  ASSUME LogInv, NEW t \in LogThreads, CallOut(t)
  PROVE  LogInv'
  BY LogConstants
  DEF LogInv, LogTypeOK, Paired, Fetched, Unfetched, LinesMatchedUnlessRegistering,
      Registering, Logging, Ptrs, CallOut, globals

\* Every step keeps the invariant.
LEMMA LogInvariant == LogSpec => []LogInv
<1>1. LogInv /\ [LogNext]_logVars => LogInv'
  <2> SUFFICES ASSUME LogInv, [LogNext]_logVars PROVE LogInv'
    OBVIOUS
  <2>1. CASE LogNext
    BY <2>1, BeginKeeps, EndKeeps, LevelKeeps, EnterKeeps, FetchKeeps, CallKeeps
    DEF LogNext, LogStep
  <2>2. CASE UNCHANGED logVars
    BY <2>2 DEF logVars, globals, fetchVars, histVars, LogInv, LogTypeOK, Paired, Fetched,
                Unfetched, LinesMatchedUnlessRegistering, Registering, Logging
  <2>3. QED BY <2>1, <2>2
<1>2. QED BY LogInitial, <1>1, PTL DEF LogSpec

\* The variables have their type: no call goes out before both pointers are read.
THEOREM LogTypeCorrect == LogSpec => []LogTypeOK
<1>1. LogInv => LogTypeOK BY DEF LogInv
<1>2. QED BY <1>1, LogInvariant, PTL

\* A line reaches no callback, or another's user_data, only if registrations
\* overlapped it or each other.
THEOREM LinesMatched == LogSpec => []LinesMatchedUnlessRegistering
<1>1. LogInv => LinesMatchedUnlessRegistering BY DEF LogInv
<1>2. QED BY <1>1, LogInvariant, PTL

-----------------------------------------------------------------------------
(* The EK certificate chain. *)

Chains == {Whole(c) : c \in Certs}

\* What the variables hold between the steps; a certificate is being read in
\* "read" only.
CertState ==
  /\ CertTypeOK
  /\ index # 0
  /\ store \in Seq(Certs) /\ winStore \in Seq(Certs) /\ intermediates \in Seq(Chains)
  /\ epc # "read" => outCert = <<>> /\ readOffset = 0
  /\ epc = "read" => dataSize > 0
  /\ epc \in {"idle", "open"} => intermediates = <<>> /\ index = 1
  /\ epc \in {"idle", "open", "public", "read"} => winStore = <<>>

\* What Windows has cached is merged from usable entries only.
FromMachine ==
  /\ \A j \in 1..Len(winStore) : winStore[j] \in Members(store) \cap CaCerts
  /\ ChainWhole

\* How much of the machine's certificates each loop has been through.
DieRead(n) ==
  \A k \in 1..NumIndices :
    k < n /\ nv[k] # NoCert /\ CertSize[nv[k]] > 0 => Whole(nv[k]) \in Members(intermediates)

StoreRead(n) ==
  \A j \in 1..Len(store) : j < n /\ store[j] \in CaCerts => store[j] \in Members(winStore)

Merged(n) == \A j \in 1..Len(winStore) : j < n => Whole(winStore[j]) \in Members(intermediates)

NoneLeftOut ==
  nvFaults = 0 =>
    /\ epc \in {"public", "read"} => DieRead(index)
    /\ epc \in {"store", "merge"} => DieRead(NumIndices + 1) /\ seen = Members(intermediates)
    /\ epc = "store" => StoreRead(index)
    /\ epc = "merge" => StoreRead(Len(store) + 1) /\ Merged(index)

\* The chain has no more certificates than the indices that have been read.
DieBefore(n) == {k \in OnDie : k < n}
FromIndices ==
  epc \in {"public", "read"} => Len(intermediates) <= Cardinality(DieBefore(index))

CertInv == CertState /\ FromMachine /\ NoneLeftOut /\ ChainComplete /\ FromIndices
           /\ MergeAddsNoDuplicate

-----------------------------------------------------------------------------
\* A certificate of n bytes is a sequence, and its first byte tells whose it is.
LEMMA WholeBytes ==
  ASSUME NEW c \in Certs
  PROVE  /\ Whole(c) \in Seq(Certs \X Nat)
         /\ Len(Whole(c)) = CertSize[c]
         /\ CertSize[c] \in 0..(Width - 1)
         /\ \A d \in Certs : CertSize[c] > 0 /\ CertSize[d] > 0 /\ Whole(c) = Whole(d) => c = d
<1>1. CertSize[c] \in 0..(Width - 1) /\ CertSize[c] \in Nat
  BY CertConstants
<1>2. Whole(c) \in [1..CertSize[c] -> Certs \X Nat]
  BY <1>1 DEF Whole
<1>3. Whole(c) \in Seq(Certs \X Nat) /\ Len(Whole(c)) = CertSize[c]
  BY <1>1, <1>2
<1>4. ASSUME NEW d \in Certs, CertSize[c] > 0, CertSize[d] > 0, Whole(c) = Whole(d)
      PROVE  c = d
  <2>1. 1 \in 1..CertSize[c] /\ 1 \in 1..CertSize[d]
    BY <1>4, CertConstants
  <2>2. Whole(c)[1] = <<c, 1>> /\ Whole(d)[1] = <<d, 1>>
    BY <2>1 DEF Whole
  <2>3. QED BY <1>4, <2>2
<1>5. QED BY <1>1, <1>3, <1>4

\* Appending adds one member.
LEMMA MembersAppend ==
  ASSUME NEW S, NEW s \in Seq(S), NEW e \in S
  PROVE  Members(Append(s, e)) = Members(s) \cup {e}
<1>1. Len(s) \in Nat /\ Len(Append(s, e)) = Len(s) + 1
  BY AppendProperties, LenProperties
<1>2. \A i \in 1..Len(s) : Append(s, e)[i] = s[i]
  BY AppendProperties
<1>3. Append(s, e)[Len(s) + 1] = e
  BY AppendProperties
<1>4. 1..(Len(s) + 1) = (1..Len(s)) \cup {Len(s) + 1}
  BY <1>1
<1>5. QED BY <1>1, <1>2, <1>3, <1>4 DEF Members

\* A prefix of a certificate and the bytes that follow it are a prefix.
LEMMA PrefixGrows ==
  ASSUME NEW c \in Certs, NEW r \in Nat, NEW got \in Nat, r + got <= CertSize[c]
  PROVE  Prefix(c, r) \o SubSeq(Whole(c), r + 1, r + got) = Prefix(c, r + got)
<1>1. Whole(c) \in Seq(Certs \X Nat) /\ Len(Whole(c)) = CertSize[c] /\ CertSize[c] \in Nat
  BY WholeBytes
<1>2. 1 \in 1..(Len(Whole(c)) + 1) /\ r \in (1 - 1)..Len(Whole(c)) /\ r + got \in r..Len(Whole(c))
  BY <1>1
<1>3. SubSeq(Whole(c), 1, r) \o SubSeq(Whole(c), r + 1, r + got) = SubSeq(Whole(c), 1, r + got)
  BY <1>1, <1>2, ConcatAdjacentSubSeq
<1>4. QED BY <1>3 DEF Prefix

\* Nothing of a certificate is the empty prefix, and all of it the last one.
LEMMA PrefixEnds ==
  ASSUME NEW c \in Certs
  PROVE  Prefix(c, 0) = <<>> /\ Prefix(c, CertSize[c]) = Whole(c)
<1>1. Whole(c) \in Seq(Certs \X Nat) /\ Len(Whole(c)) = CertSize[c]
  BY WholeBytes
<1>2. SubSeq(Whole(c), 1, 0) = <<>>
  BY SubSeqEmpty
<1>3. SubSeq(Whole(c), 1, Len(Whole(c))) = Whole(c)
  BY <1>1, SubSeqFull
<1>4. QED BY <1>1, <1>2, <1>3 DEF Prefix

\* The size of the certificate at the current index.
LEMMA SizeAtIndex ==
  ASSUME CertState, index <= NumIndices
  PROVE  /\ index \in 1..NumIndices
         /\ dataSize \in 0..(Width - 1)
         /\ dataSize > 0 => nv[index] \in Certs /\ nv[index] # NoCert /\ dataSize = CertSize[nv[index]]
<1>1. index \in 1..NumIndices
  BY CertConstants DEF CertState, CertTypeOK
<1>2. nv[index] \in Certs \cup {NoCert}
  BY <1>1 DEF CertState, CertTypeOK
<1>3. nv[index] \in Certs => CertSize[nv[index]] \in 0..(Width - 1)
  BY CertConstants
<1>4. QED BY <1>1, <1>2, <1>3, CertConstants DEF dataSize

\* The state of the call holds initially.
LEMMA CertInitial == CertInit => CertInv
<1> SUFFICES ASSUME CertInit PROVE CertInv
  OBVIOUS
<1>1. CertState
  <2>1. intermediates \in Seq(Chains) /\ winStore \in Seq(Certs) /\ store \in Seq(Certs)
    BY EmptySeq DEF CertInit
  <2>2. nv \in [1..NumIndices -> Certs \cup {NoCert}]
    BY DEF CertInit
  <2>3. QED BY <2>1, <2>2, CertConstants DEF CertInit, CertState, CertTypeOK
<1>2. Len(intermediates) = 0 /\ Len(winStore) = 0
  BY EmptySeq DEF CertInit
<1>3. QED
  BY <1>1, <1>2
  DEF CertInit, CertInv, FromMachine, ChainWhole, NoneLeftOut, ChainComplete, FromIndices,
      MergeAddsNoDuplicate

\* The next index starts with no bytes.
LEMMA NextIndexState ==
  ASSUME CertState, index <= NumIndices, NextIndex,
         nvFaults' \in 0..MaxNvFaults, intermediates' \in Seq(Chains), winStore = <<>>,
         UNCHANGED <<nvData, winStore>>
  PROVE  CertState'
  BY CertConstants DEF CertState, CertTypeOK, NextIndex, nvData

\* A fault is counted up to its bound.
LEMMA Faults ==
  ASSUME CertState, NvFault \/ NoNvFault
  PROVE  nvFaults' \in 0..MaxNvFaults
  BY CertConstants DEF CertState, CertTypeOK, NvFault, NoNvFault

\* An offset below the width does not wrap.
LEMMA NoWrap ==
  ASSUME NEW w \in Nat \ {0}, NEW r \in Nat, NEW g \in Nat, NEW n \in 0..(w - 1), r + g <= n
  PROVE  (r + g) % w = r + g
  OBVIOUS

\* Every step keeps the state of the call.
LEMMA StateStep == CertState /\ [CertNext]_certVars => CertState'
<1> SUFFICES ASSUME CertState, [CertNext]_certVars PROVE CertState'
  OBVIOUS
<1> USE CertConstants
<1>1. CASE Provisioned
  <2>1. \A n \in Nat : \A s \in [1..n -> Certs] : s \in Seq(Certs)
    BY SeqDef
  <2>2. 0..MaxStore \subseteq Nat
    OBVIOUS
  <2>3. store' \in Seq(Certs)
    BY <1>1, <2>1, <2>2 DEF Provisioned
  <2>4. nv' \in [1..NumIndices -> Certs \cup {NoCert}]
    BY <1>1 DEF Provisioned
  <2>5. QED BY <1>1, <2>3, <2>4 DEF Provisioned, CertState, CertTypeOK
<1>2. CASE OpenTpm
  BY <1>2, Faults DEF OpenTpm, CertState, CertTypeOK, nvData
<1>3. CASE NvReadPublic
  <2>1. index <= NumIndices /\ winStore = <<>>
    BY <1>3 DEF NvReadPublic, CertState
  <2>2. CASE NoNvFault /\ dataSize > 0 /\ epc' = "read" /\ UNCHANGED <<index, readOffset, outCert>>
    <3>1. nv[index] \in Certs /\ nv[index] # NoCert /\ index \in 1..NumIndices
      BY <2>1, <2>2, SizeAtIndex
    <3>2. outCert = Prefix(nv[index], 0) /\ readOffset = 0
      BY <1>3, <3>1, PrefixEnds DEF NvReadPublic, CertState
    <3>3. UNCHANGED <<nv, store, intermediates, seen, winStore, nvFaults, index, readOffset, outCert, dataSize>>
      BY <1>3, <2>2 DEF NvReadPublic, nvData, NoNvFault, dataSize
    <3>4. CertTypeOK'
      BY <2>1, <2>2, <3>1, <3>2, <3>3, SizeAtIndex DEF CertState, CertTypeOK, Prefix, Whole
    <3>5. QED BY <2>1, <2>2, <3>3, <3>4 DEF CertState
  <2>3. CASE NextIndex /\ (NoNvFault \/ NvFault)
    BY <1>3, <2>1, <2>3, Faults, NextIndexState DEF NvReadPublic, CertState
  <2>4. QED BY <1>3, <2>2, <2>3 DEF NvReadPublic
<1>4. CASE NvRead
  <2>1. epc = "read" /\ readOffset < dataSize /\ index \in 1..NumIndices /\ winStore = <<>>
    BY <1>4 DEF NvRead, CertState, CertTypeOK
  <2>2. CASE NvFault /\ NextIndex
    BY <1>4, <2>1, <2>2, Faults, NextIndexState DEF NvRead, CertState
  <2>3. ASSUME NoNvFault, UNCHANGED <<epc, index>>, NEW got \in 1..want,
               outCert' = outCert \o SubSeq(Whole(nv[index]), readOffset + 1, readOffset + got),
               readOffset' = (readOffset + got) % Width
        PROVE  CertState'
    <3>1. nv[index] \in Certs /\ dataSize = CertSize[nv[index]] /\ dataSize \in 0..(Width - 1)
      BY <2>1, SizeAtIndex DEF CertState
    <3>2. readOffset \in Nat /\ got \in Nat /\ readOffset + got <= dataSize
      <4>1. readOffset \in Nat /\ dataSize \in Nat /\ kChunk \in Nat
        BY <3>1 DEF CertState, CertTypeOK
      <4>2. want \in Int /\ want <= dataSize - readOffset
        BY <4>1 DEF want, Min2
      <4>3. QED BY <2>3, <4>1, <4>2
    <3>3. readOffset' = readOffset + got
      BY <2>3, <3>1, <3>2, NoWrap
    <3>4. outCert' = Prefix(nv[index], readOffset')
      <4>1. outCert = Prefix(nv[index], readOffset)
        BY <2>1 DEF CertState, CertTypeOK
      <4>2. Prefix(nv[index], readOffset) \o
              SubSeq(Whole(nv[index]), readOffset + 1, readOffset + got)
            = Prefix(nv[index], readOffset + got)
        BY <3>1, <3>2, PrefixGrows
      <4>3. QED BY <2>3, <3>3, <4>1, <4>2
    <3>5. UNCHANGED <<nv, store, intermediates, seen, winStore, nvFaults, index, epc, dataSize>>
      BY <1>4, <2>3 DEF NvRead, nvData, NoNvFault, dataSize
    <3>6. CertTypeOK'
      BY <2>1, <3>1, <3>2, <3>3, <3>4, <3>5 DEF CertState, CertTypeOK, Prefix, Whole
    <3>7. QED BY <2>1, <3>5, <3>6 DEF CertState
  <2>4. QED BY <1>4, <2>2, <2>3 DEF NvRead
<1>5. CASE NvCertRead
  <2>1. epc = "read" /\ index \in 1..NumIndices /\ winStore = <<>> /\ readOffset = dataSize
    BY <1>5, SizeAtIndex DEF NvCertRead, CertState, CertTypeOK
  <2>2. outCert \in Chains
    BY <2>1, SizeAtIndex, PrefixEnds DEF CertState, CertTypeOK, Chains
  <2>3. intermediates' \in Seq(Chains)
    BY <1>5, <2>2, AppendProperties DEF NvCertRead, CertState
  <2>4. nvFaults' \in 0..MaxNvFaults /\ UNCHANGED <<nvData, winStore>> /\ NextIndex
    BY <1>5 DEF NvCertRead, CertState, CertTypeOK
  <2>5. index <= NumIndices
    BY <2>1
  <2>6. QED BY <2>1, <2>3, <2>4, <2>5, NextIndexState
<1>6. CASE HashChain
  BY <1>6, Faults DEF HashChain, CertState, CertTypeOK, nvData
<1>7. CASE ReadStore
  <2>1. winStore' \in Seq(Certs)
    <3>1. index <= Len(store) => store[index] \in Certs
      BY ElementOfSeq, LenProperties DEF CertState, CertTypeOK
    <3>2. winStore \in Seq(Certs)
      BY DEF CertState
    <3>3. CASE winStore' = winStore
      BY <3>2, <3>3
    <3>4. CASE index <= Len(store) /\ winStore' = Append(winStore, store[index])
      <4>1. store[index] \in Certs
        BY <3>1, <3>4
      <4>2. QED BY <3>2, <3>4, <4>1, AppendProperties
    <3>5. QED BY <1>7, <3>3, <3>4 DEF ReadStore
  <2>2. index' \in Nat /\ index' # 0 /\ epc' \in {"store", "merge"}
    BY <1>7 DEF ReadStore, CertState, CertTypeOK
  <2>3. nvFaults' \in 0..MaxNvFaults
    BY <1>7, Faults DEF ReadStore
  <2>4. QED BY <1>7, <2>1, <2>2, <2>3 DEF ReadStore, CertState, CertTypeOK, nvData
<1>8. CASE MergeCert
  <2>1. Whole(winStore[index]) \in Chains
    BY <1>8, ElementOfSeq, LenProperties DEF MergeCert, Merging, CertState, CertTypeOK, Chains
  <2>2. intermediates' \in Seq(Chains)
    <3>1. intermediates \in Seq(Chains)
      BY DEF CertState
    <3>2. Append(intermediates, Whole(winStore[index])) \in Seq(Chains)
      BY <2>1, <3>1, AppendProperties
    <3>3. QED BY <1>8, <3>1, <3>2 DEF MergeCert
  <2>3. nvFaults' \in 0..MaxNvFaults
    BY <1>8, Faults DEF MergeCert
  <2>4. QED BY <1>8, <2>2, <2>3 DEF MergeCert, Merging, CertState, CertTypeOK, nvData
<1>9. CASE CutChain
  <2>1. intermediates' \in Seq(Chains)
    <3>1. Len(intermediates) \in Nat
      BY LenProperties DEF CertState
    <3>2. \A i \in 1..Min2(Len(intermediates), kMaxIntermediates) : intermediates[i] \in Chains
      BY <3>1, ElementOfSeq DEF CertState, Min2
    <3>3. Min2(Len(intermediates), kMaxIntermediates) \in Int
      BY <3>1 DEF Min2
    <3>4. QED BY <1>9, <3>2, <3>3, SubSeqProperties DEF CutChain
  <2>2. QED BY <1>9, <2>1 DEF CutChain, CertState, CertTypeOK, nvData
<1>10. CASE ChainSent
  <2>1. intermediates' \in Seq(Chains) /\ winStore' \in Seq(Certs) /\ store' \in Seq(Certs)
    BY <1>10, EmptySeq DEF ChainSent
  <2>2. nv' \in [1..NumIndices -> Certs \cup {NoCert}]
    BY <1>10 DEF ChainSent
  <2>3. QED BY <1>10, <2>1, <2>2 DEF ChainSent, CertState, CertTypeOK
<1>11. CASE UNCHANGED certVars
  BY <1>11 DEF certVars, nvData, CertState, CertTypeOK, dataSize, Prefix, Whole
<1>12. QED
  BY <1>1, <1>2, <1>3, <1>4, <1>5, <1>6, <1>7, <1>8, <1>9, <1>10, <1>11 DEF CertNext, CertStep

-----------------------------------------------------------------------------
\* Appending keeps the members, and where they are.
LEMMA ChainGrows ==
  ASSUME CertState, NEW e \in Chains, intermediates' = Append(intermediates, e)
  PROVE  /\ Len(intermediates) \in Nat /\ Len(intermediates') = Len(intermediates) + 1
         /\ \A i \in 1..Len(intermediates) : intermediates'[i] = intermediates[i]
         /\ intermediates'[Len(intermediates) + 1] = e
         /\ Members(intermediates') = Members(intermediates) \cup {e}
<1>1. intermediates \in Seq(Chains)
  BY DEF CertState
<1>2. QED BY <1>1, AppendProperties, LenProperties, MembersAppend

\* The certificate read is that of the index.
LEMMA ReadWhole ==
  ASSUME CertState, NvCertRead
  PROVE  /\ index \in 1..NumIndices /\ nv[index] \in Certs /\ nv[index] # NoCert
         /\ CertSize[nv[index]] > 0
         /\ Whole(nv[index]) \in Chains
         /\ intermediates' = Append(intermediates, Whole(nv[index]))
<1>1. epc = "read" /\ index \in 1..NumIndices /\ readOffset = dataSize /\ dataSize > 0
  BY SizeAtIndex, CertConstants DEF NvCertRead, CertState, CertTypeOK
<1>2. nv[index] \in Certs /\ nv[index] # NoCert /\ dataSize = CertSize[nv[index]]
  BY <1>1, SizeAtIndex
<1>3. outCert = Whole(nv[index])
  BY <1>1, <1>2, PrefixEnds DEF CertState, CertTypeOK
<1>4. QED BY <1>1, <1>2, <1>3 DEF NvCertRead, Chains

\* A merged certificate is one of the usable entries.
LEMMA MergeOne ==
  ASSUME CertState, FromMachine, MergeCert
  PROVE  /\ index \in 1..Len(winStore) /\ winStore[index] \in Certs
         /\ winStore[index] \in Members(store) \cap CaCerts
         /\ Whole(winStore[index]) \in Chains
         /\ intermediates' \in {intermediates, Append(intermediates, Whole(winStore[index]))}
<1>1. winStore \in Seq(Certs) /\ Len(winStore) \in Nat
  BY LenProperties DEF CertState
<1>2. index \in 1..Len(winStore)
  BY <1>1 DEF MergeCert, Merging, CertState, CertTypeOK
<1>3. winStore[index] \in Certs
  BY <1>1, <1>2, ElementOfSeq
<1>4. QED BY <1>2, <1>3 DEF MergeCert, FromMachine, Chains

\* The chain is cut to a prefix.
LEMMA CutOne ==
  ASSUME CertState, CutChain
  PROVE  /\ Len(intermediates) \in Nat
         /\ Len(intermediates') = Min2(Len(intermediates), kMaxIntermediates)
         /\ Len(intermediates') \in 0..Len(intermediates)
         /\ \A i \in 1..Len(intermediates') : intermediates'[i] = intermediates[i]
         /\ Len(intermediates) <= kMaxIntermediates => intermediates' = intermediates
<1> DEFINE m == Min2(Len(intermediates), kMaxIntermediates)
<1>1. intermediates \in Seq(Chains) /\ Len(intermediates) \in Nat
  BY LenProperties DEF CertState
<1>2. m \in 0..Len(intermediates) /\ (Len(intermediates) <= kMaxIntermediates => m = Len(intermediates))
  BY <1>1, CertConstants DEF Min2
<1>3. \A i \in 1..m : intermediates[i] \in Chains
  BY <1>1, <1>2, ElementOfSeq
<1>4. intermediates' = SubSeq(intermediates, 1, m)
  BY DEF CutChain
<1> HIDE DEF m
<1>5. /\ Len(SubSeq(intermediates, 1, m)) = IF 1 <= m THEN m - 1 + 1 ELSE 0
      /\ \A i \in 1..(m - 1 + 1) : SubSeq(intermediates, 1, m)[i] = intermediates[1 + i - 1]
  <2>1. 1 \in Int /\ m \in Int
    BY <1>2
  <2>2. QED BY <1>3, <2>1, SubSeqProperties
<1>6. Len(intermediates') = m
  BY <1>2, <1>4, <1>5
<1>7. \A i \in 1..m : intermediates'[i] = intermediates[i]
  <2> TAKE i \in 1..m
  <2>1. i \in 1..(m - 1 + 1) /\ 1 + i - 1 = i
    BY <1>2
  <2>2. QED BY <1>4, <1>5, <2>1
<1>8. Len(intermediates) <= kMaxIntermediates => intermediates' = intermediates
  BY <1>1, <1>2, <1>4, SubSeqFull
<1>9. QED BY <1>1, <1>2, <1>6, <1>7, <1>8 DEF m

\* What enters the chain is a whole certificate of the machine.
LEMMA WholeAppended ==
  ASSUME CertState, ChainWhole, NEW c \in Certs, UNCHANGED nvData,
         (\E k \in 1..NumIndices : nv[k] = c) \/ c \in Members(store) \cap CaCerts,
         intermediates' = Append(intermediates, Whole(c))
  PROVE  ChainWhole'
<1>1. Whole(c) \in Chains
  BY DEF Chains
<1>2. \A i \in 1..Len(intermediates') :
        i \in 1..Len(intermediates) \/ i = Len(intermediates) + 1
  BY <1>1, ChainGrows
<1>3. nv' = nv /\ store' = store
  BY DEF nvData
<1>4. SUFFICES ASSUME NEW i \in 1..Len(intermediates')
               PROVE  \E d \in Certs :
                        /\ intermediates'[i] = Whole(d)
                        /\ (\E k \in 1..NumIndices : nv[k] = d) \/ d \in Members(store) \cap CaCerts
  BY <1>3 DEF ChainWhole, Members, Whole
<1>5. CASE i \in 1..Len(intermediates)
  BY <1>1, <1>5, ChainGrows DEF ChainWhole
<1>6. CASE i = Len(intermediates) + 1
  BY <1>1, <1>6, ChainGrows
<1>7. QED BY <1>2, <1>5, <1>6

\* The chain holds only what is on the machine.
LEMMA MachineStep == CertState /\ FromMachine /\ [CertNext]_certVars => FromMachine'
<1> SUFFICES ASSUME CertState, FromMachine, [CertNext]_certVars PROVE FromMachine'
  OBVIOUS
<1>1. CASE Provisioned
  <2>1. intermediates' = <<>> /\ winStore' = <<>>
    BY <1>1 DEF Provisioned, CertState
  <2>2. Len(intermediates') = 0 /\ Len(winStore') = 0
    BY <2>1, EmptySeq
  <2>3. QED BY <2>2 DEF FromMachine, ChainWhole
<1>2. CASE ChainSent
  <2>1. Len(intermediates') = 0 /\ Len(winStore') = 0
    BY <1>2, EmptySeq DEF ChainSent
  <2>2. QED BY <2>1 DEF FromMachine, ChainWhole
<1>3. ASSUME UNCHANGED <<nv, store, intermediates, winStore>> PROVE FromMachine'
  BY <1>3 DEF FromMachine, ChainWhole, Members, Whole
<1>4. CASE OpenTpm \/ NvReadPublic \/ NvRead \/ HashChain \/ UNCHANGED certVars
  BY <1>3, <1>4 DEF OpenTpm, NvReadPublic, NvRead, HashChain, certVars, nvData
<1>5. CASE NvCertRead
  <2>1. ChainWhole'
    BY <1>5, ReadWhole, WholeAppended DEF NvCertRead, FromMachine
  <2>2. QED BY <1>5, <2>1 DEF NvCertRead, nvData, FromMachine, Members
<1>6. CASE ReadStore
  <2>1. ChainWhole'
    BY <1>6 DEF ReadStore, nvData, FromMachine, ChainWhole, Members, Whole
  <2>2. UNCHANGED store
    BY <1>6 DEF ReadStore, nvData
  <2>3. CASE winStore' = winStore
    BY <2>1, <2>2, <2>3 DEF FromMachine, Members
  <2>4. CASE index <= Len(store) /\ store[index] \in CaCerts /\ winStore' = Append(winStore, store[index])
    <3>1. winStore \in Seq(Certs) /\ index \in 1..Len(store) /\ store[index] \in Certs
      BY <2>4, ElementOfSeq, LenProperties DEF CertState, CertTypeOK
    <3>2. Members(winStore') = Members(winStore) \cup {store[index]}
      BY <2>4, <3>1, MembersAppend
    <3>3. store[index] \in Members(store) \cap CaCerts
      BY <2>4, <3>1 DEF Members
    <3>4. Members(winStore') \subseteq Members(store) \cap CaCerts
      BY <3>2, <3>3 DEF FromMachine, Members
    <3>5. QED BY <2>1, <2>2, <3>4 DEF FromMachine, Members
  <2>5. QED BY <1>6, <2>3, <2>4 DEF ReadStore
<1>7. CASE MergeCert
  <2>1. UNCHANGED <<nv, store, winStore>>
    BY <1>7 DEF MergeCert, nvData
  <2>2. CASE intermediates' = intermediates
    BY <1>3, <2>1, <2>2
  <2>3. CASE intermediates' = Append(intermediates, Whole(winStore[index]))
    BY <1>7, <2>1, <2>3, MergeOne, WholeAppended DEF FromMachine, Members, nvData
  <2>4. QED BY <1>7, <2>2, <2>3, MergeOne
<1>8. CASE CutChain
  <2>1. UNCHANGED <<nv, store, winStore>>
    BY <1>8 DEF CutChain, nvData
  <2>2. \A i \in 1..Len(intermediates') : i \in 1..Len(intermediates) /\ intermediates'[i] = intermediates[i]
    BY <1>8, CutOne
  <2>3. ChainWhole'
    <3>1. SUFFICES ASSUME NEW i \in 1..Len(intermediates')
                   PROVE  \E d \in Certs :
                            /\ intermediates'[i] = Whole(d)
                            /\ (\E k \in 1..NumIndices : nv[k] = d) \/ d \in Members(store) \cap CaCerts
      BY <2>1 DEF ChainWhole, Members, Whole
    <3>2. QED BY <2>2 DEF FromMachine, ChainWhole
  <2>4. QED BY <2>1, <2>3 DEF FromMachine, Members
<1>9. QED
  BY <1>1, <1>2, <1>4, <1>5, <1>6, <1>7, <1>8 DEF CertNext, CertStep

-----------------------------------------------------------------------------
\* While nothing fails, each loop leaves behind what it has been through.
LEMMA LoopsStep ==
  CertState /\ FromMachine /\ NoneLeftOut /\ [CertNext]_certVars => NoneLeftOut'
<1> SUFFICES ASSUME CertState, FromMachine, NoneLeftOut, [CertNext]_certVars, nvFaults' = 0
             PROVE  (/\ epc \in {"public", "read"} => DieRead(index)
                     /\ epc \in {"store", "merge"} =>
                          DieRead(NumIndices + 1) /\ seen = Members(intermediates)
                     /\ epc = "store" => StoreRead(index)
                     /\ epc = "merge" => StoreRead(Len(store) + 1) /\ Merged(index))'
  BY DEF NoneLeftOut
<1> USE CertConstants
<1>0. ~NvFault
  BY DEF NvFault, CertState, CertTypeOK
<1>1. CASE Provisioned \/ ChainSent
  BY <1>1 DEF Provisioned, ChainSent
<1>2. CASE OpenTpm
  <2>1. epc' = "public" /\ index' = 1
    BY <1>0, <1>2 DEF OpenTpm, CertState
  <2>2. QED BY <2>1 DEF DieRead
<1>3. CASE NvReadPublic
  <2>1. NoNvFault /\ epc = "public" /\ index <= NumIndices /\ epc' \in {"public", "read"}
    BY <1>0, <1>3 DEF NvReadPublic, NextIndex
  <2>2. DieRead(index) /\ UNCHANGED <<nv, intermediates>>
    BY <1>3, <2>1 DEF NvReadPublic, NoneLeftOut, NoNvFault, nvData
  <2>3. CASE UNCHANGED index
    BY <2>1, <2>2, <2>3 DEF DieRead, Members, Whole
  <2>4. CASE dataSize = 0 /\ index' = index + 1
    <3>1. index \in 1..NumIndices
      BY <2>1, SizeAtIndex
    <3>2. nv[index] = NoCert \/ CertSize[nv[index]] = 0
      BY <2>4 DEF dataSize
    <3>3. \A k \in 1..NumIndices : k < index' => k < index \/ k = index
      BY <2>4, <3>1
    <3>4. \A k \in 1..NumIndices :
            k < index' /\ nv[k] # NoCert /\ CertSize[nv[k]] > 0 => Whole(nv[k]) \in Members(intermediates)
      BY <2>2, <3>2, <3>3 DEF DieRead
    <3>4a. Members(intermediates)' = Members(intermediates)
      BY <2>2 DEF Members
    <3>4b. DieRead(index)'
      BY <2>2, <3>4, <3>4a DEF DieRead, Whole
    <3>5. QED BY <2>1, <3>4b
  <2>5. QED BY <1>0, <1>3, <2>3, <2>4 DEF NvReadPublic, NextIndex
<1>4. CASE NvRead
  BY <1>0, <1>4 DEF NvRead, NoNvFault, nvData, NoneLeftOut, DieRead, Members, Whole
<1>5. CASE NvCertRead
  <2>1. epc = "read" /\ epc' = "public" /\ index' = index + 1 /\ UNCHANGED <<nv, nvFaults>>
    BY <1>5 DEF NvCertRead, NextIndex, nvData
  <2>2. DieRead(index) /\ index \in Nat
    BY <2>1 DEF NoneLeftOut, CertState, CertTypeOK
  <2>3. Members(intermediates') = Members(intermediates) \cup {Whole(nv[index])}
    BY <1>5, ReadWhole, ChainGrows
  <2>4. \A k \in 1..NumIndices : k < index' => k < index \/ k = index
    BY <2>1, <2>2
  <2>5. \A k \in 1..NumIndices :
          k < index' /\ nv[k] # NoCert /\ CertSize[nv[k]] > 0 => Whole(nv[k]) \in Members(intermediates')
    BY <2>2, <2>3, <2>4 DEF DieRead
  <2>6. DieRead(index)'
    BY <2>1, <2>5 DEF DieRead, Whole
  <2>7. QED BY <2>1, <2>6
<1>6. CASE HashChain
  <2>1. /\ epc = "public" /\ index > NumIndices /\ index \in Nat /\ epc' = "store" /\ index' = 1
        /\ seen' = Members(intermediates) /\ UNCHANGED <<nv, store, intermediates, nvFaults>>
    BY <1>0, <1>6 DEF HashChain, CertState, CertTypeOK, nvData, NoNvFault
  <2>2. DieRead(index)
    BY <2>1 DEF NoneLeftOut
  <2>2a. Members(intermediates)' = Members(intermediates)
    BY <2>1 DEF Members
  <2>2b. \A k \in 1..NumIndices : k < NumIndices + 1 => k < index
    BY <2>1
  <2>3. DieRead(NumIndices + 1)'
    BY <2>1, <2>2, <2>2a, <2>2b DEF DieRead, Whole
  <2>4. StoreRead(index)'
    BY <2>1 DEF StoreRead
  <2>5. QED BY <2>1, <2>3, <2>4 DEF Members
<1>7. CASE ReadStore
  <2>1. /\ epc = "store" /\ NoNvFault /\ index \in Nat
        /\ UNCHANGED <<nv, store, intermediates, seen, nvFaults>>
    BY <1>0, <1>7 DEF ReadStore, CertState, CertTypeOK, nvData, NoNvFault
  <2>2. DieRead(NumIndices + 1) /\ seen = Members(intermediates) /\ StoreRead(index)
    BY <2>1 DEF NoneLeftOut, NoNvFault
  <2>2a. Members(intermediates)' = Members(intermediates)
    BY <2>1 DEF Members
  <2>3. DieRead(NumIndices + 1)' /\ seen' = Members(intermediates')
    BY <2>1, <2>2, <2>2a DEF DieRead, Whole
  <2>4. CASE epc' = "store" /\ index' = index + 1 /\ index <= Len(store)
             /\ winStore' = IF store[index] \in CaCerts THEN Append(winStore, store[index]) ELSE winStore
    <3>1. winStore \in Seq(Certs) /\ index \in 1..Len(store) /\ store[index] \in Certs
      BY <2>4, ElementOfSeq, LenProperties DEF CertState, CertTypeOK
    <3>2. store[index] \in CaCerts => Members(winStore') = Members(winStore) \cup {store[index]}
      BY <2>4, <3>1, MembersAppend
    <3>3. store[index] \notin CaCerts => winStore' = winStore
      BY <2>4
    <3>4. \A j \in 1..Len(store) : j < index' => j < index \/ j = index
      BY <2>1, <2>4
    <3>5. \A j \in 1..Len(store) : j < index' /\ store[j] \in CaCerts => store[j] \in Members(winStore')
      BY <2>2, <3>2, <3>3, <3>4 DEF StoreRead
    <3>6. StoreRead(index)'
      BY <2>1, <3>5 DEF StoreRead
    <3>7. QED BY <2>3, <2>4, <3>6
  <2>5. CASE epc' = "merge" /\ index' = 1 /\ index > Len(store) /\ UNCHANGED winStore
    <3>1. StoreRead(Len(store) + 1)'
      BY <2>1, <2>2, <2>5 DEF StoreRead, Members
    <3>2. Merged(index)'
      BY <2>5 DEF Merged
    <3>3. QED BY <2>3, <2>5, <3>1, <3>2
  <2>6. QED BY <1>0, <1>7, <2>1, <2>4, <2>5 DEF ReadStore
<1>8. CASE MergeCert
  <2>1. /\ epc = "merge" /\ epc' = "merge" /\ NoNvFault /\ index \in Nat /\ index' = index + 1
        /\ UNCHANGED <<nv, store, winStore, nvFaults>>
    BY <1>0, <1>8 DEF MergeCert, Merging, CertState, CertTypeOK, nvData, NoNvFault
  <2>2. /\ DieRead(NumIndices + 1) /\ seen = Members(intermediates)
        /\ StoreRead(Len(store) + 1) /\ Merged(index)
    BY <2>1 DEF NoneLeftOut, NoNvFault
  <2>3. /\ Members(intermediates') = Members(intermediates) \cup {Whole(winStore[index])}
        /\ seen' = Members(intermediates')
    <3>1. CASE Whole(winStore[index]) \in seen /\ UNCHANGED <<intermediates, seen>>
      BY <2>2, <3>1
    <3>2. CASE /\ intermediates' = Append(intermediates, Whole(winStore[index]))
               /\ seen' = seen \cup {Whole(winStore[index])}
      BY <1>8, <2>2, <3>2, MergeOne, ChainGrows
    <3>3. QED BY <1>0, <1>8, <3>1, <3>2 DEF MergeCert
  <2>4. DieRead(NumIndices + 1)'
    BY <2>1, <2>2, <2>3 DEF DieRead, Whole
  <2>5. StoreRead(Len(store) + 1)'
    BY <2>1, <2>2 DEF StoreRead, Members
  <2>6. \A j \in 1..Len(winStore) : j < index' => j < index \/ j = index
    BY <2>1
  <2>7. \A j \in 1..Len(winStore) : j < index' => Whole(winStore[j]) \in Members(intermediates')
    BY <2>2, <2>3, <2>6 DEF Merged
  <2>8. Merged(index)'
    BY <2>1, <2>7 DEF Merged, Whole
  <2>9. QED BY <2>1, <2>3, <2>4, <2>5, <2>8
<1>9. CASE CutChain
  BY <1>9 DEF CutChain
<1>10. CASE UNCHANGED certVars
  BY <1>10 DEF certVars, nvData, NoneLeftOut, DieRead, StoreRead, Merged, Members, Whole
<1>11. QED
  BY <1>1, <1>2, <1>3, <1>4, <1>5, <1>6, <1>7, <1>8, <1>9, <1>10 DEF CertNext, CertStep

\* A chain is complete when it is sent.
LEMMA CompleteStep ==
  CertState /\ NoneLeftOut /\ ChainComplete /\ [CertNext]_certVars => ChainComplete'
<1> SUFFICES ASSUME CertState, NoneLeftOut, ChainComplete, [CertNext]_certVars, epc' = "done"
             PROVE  ChainComplete'
  BY DEF ChainComplete
<1> USE CertConstants
<1>1. CASE OpenTpm
  <2>1. Len(intermediates') = 0
    BY <1>1, EmptySeq DEF OpenTpm, CertState
  <2>2. nvFaults' # 0
    BY <1>1 DEF OpenTpm, NvFault, CertState, CertTypeOK
  <2>3. QED BY <2>1, <2>2 DEF ChainComplete
<1>2. CASE CutChain
  <2>1. Len(intermediates') <= kMaxIntermediates
    BY <1>2, CutOne DEF Min2
  <2>2. ASSUME nvFaults' = 0, Len(intermediates') < kMaxIntermediates, NEW c \in Certs, CertSize[c] > 0
        PROVE  /\ (\E i \in 1..NumIndices : nv[i] = c) => Whole(c) \in Members(intermediates)
               /\ c \in Members(store) \cap CaCerts => Whole(c) \in Members(intermediates)
    <3>1. Len(intermediates) < kMaxIntermediates
      BY <1>2, <2>2, CutOne DEF Min2
    <3>2. epc = "merge" /\ nvFaults = 0 /\ ~(index <= Len(winStore))
      BY <1>2, <2>2, <3>1 DEF CutChain, Merging
    <3>3. DieRead(NumIndices + 1) /\ StoreRead(Len(store) + 1) /\ Merged(index)
      BY <3>2 DEF NoneLeftOut
    <3>4. index \in Nat /\ Len(winStore) \in Nat /\ Len(store) \in Nat
      BY LenProperties DEF CertState, CertTypeOK
    <3>5. c # NoCert
      OBVIOUS
    <3>6. \A k \in 1..NumIndices : k < NumIndices + 1
      OBVIOUS
    <3>7. (\E i \in 1..NumIndices : nv[i] = c) => Whole(c) \in Members(intermediates)
      BY <2>2, <3>3, <3>5, <3>6 DEF DieRead
    <3>8. ASSUME c \in Members(store) \cap CaCerts PROVE Whole(c) \in Members(intermediates)
      <4>1. PICK j \in 1..Len(store) : store[j] = c
        BY <3>8 DEF Members
      <4>2. j < Len(store) + 1
        BY <3>4
      <4>3. c \in Members(winStore)
        BY <3>3, <3>8, <4>1, <4>2 DEF StoreRead
      <4>4. PICK l \in 1..Len(winStore) : winStore[l] = c
        BY <4>3 DEF Members
      <4>5. l < index
        BY <3>2, <3>4
      <4>6. QED BY <3>3, <4>4, <4>5 DEF Merged
    <3>9. QED BY <3>7, <3>8
  <2>3. Len(intermediates') < kMaxIntermediates => intermediates' = intermediates
    BY <1>2, CutOne DEF Min2
  <2>4. UNCHANGED <<nv, store, nvFaults>>
    BY <1>2 DEF CutChain, nvData
  <2>5. QED BY <2>1, <2>2, <2>3, <2>4 DEF ChainComplete, Members, Whole
<1>3. CASE UNCHANGED certVars
  BY <1>3 DEF certVars, nvData, ChainComplete, Members, Whole
<1>4. QED
  BY <1>1, <1>2, <1>3
  DEF CertNext, CertStep, Provisioned, NvReadPublic, NextIndex, NvRead, NvCertRead, HashChain,
      ReadStore, MergeCert, Merging, ChainSent

\* More indices hold no fewer certificates.
LEMMA DieCount ==
  ASSUME NEW m \in Nat, NEW n \in Nat, m <= n
  PROVE  /\ IsFiniteSet(DieBefore(m)) /\ Cardinality(DieBefore(m)) \in Nat
         /\ Cardinality(DieBefore(n)) \in Nat /\ Cardinality(OnDie) \in Nat
         /\ Cardinality(DieBefore(m)) <= Cardinality(DieBefore(n))
         /\ Cardinality(DieBefore(n)) <= Cardinality(OnDie)
<1>1. IsFiniteSet(OnDie)
  <2>1. IsFiniteSet(1..NumIndices) BY CertConstants, FS_Interval
  <2>2. QED BY <2>1, FS_Subset DEF OnDie
<1>2. DieBefore(m) \subseteq DieBefore(n) /\ DieBefore(n) \subseteq OnDie
  BY DEF DieBefore, OnDie
<1>3. IsFiniteSet(DieBefore(n)) /\ IsFiniteSet(DieBefore(m)) BY <1>1, <1>2, FS_Subset
<1>4. QED BY <1>1, <1>2, <1>3, FS_Subset, FS_CardinalityType

\* What was read from the TPM is what the indices before this one hold, or less.
LEMMA IndicesStep == CertState /\ FromIndices /\ [CertNext]_certVars => FromIndices'
<1> SUFFICES ASSUME CertState, FromIndices, [CertNext]_certVars, epc' \in {"public", "read"}
             PROVE  FromIndices'
  BY DEF FromIndices
<1>0. index \in Nat /\ Len(intermediates) \in Nat
  BY LenProperties DEF CertState, CertTypeOK
<1>a. ASSUME UNCHANGED nv, NEW n \in Nat PROVE DieBefore(n)' = DieBefore(n)
  BY <1>a DEF DieBefore, OnDie
<1>1. CASE OpenTpm
  <2>1. Len(intermediates') = 0 /\ UNCHANGED nv /\ index' \in Nat
    BY <1>0, <1>1, EmptySeq DEF OpenTpm, CertState, nvData
  <2>2. DieBefore(index)' = DieBefore(index')
    BY <2>1 DEF DieBefore, OnDie
  <2>3. Cardinality(DieBefore(index')) \in Nat
    <3>1. index' <= index' BY <2>1
    <3>2. QED BY <2>1, <3>1, DieCount
  <2>4. QED BY <2>1, <2>2, <2>3 DEF FromIndices
<1>2. CASE NvReadPublic \/ NvRead
  <2>1. UNCHANGED <<nv, intermediates>> /\ epc \in {"public", "read"}
    BY <1>2 DEF NvReadPublic, NvRead, nvData
  <2>2. index' \in Nat /\ index <= index'
    BY <1>0, <1>2 DEF NvReadPublic, NvRead, NextIndex
  <2>3. Cardinality(DieBefore(index)) <= Cardinality(DieBefore(index'))
        /\ Cardinality(DieBefore(index)) \in Nat /\ Cardinality(DieBefore(index')) \in Nat
    BY <1>0, <2>2, DieCount
  <2>4. DieBefore(index)' = DieBefore(index')
    BY <2>1 DEF DieBefore, OnDie
  <2>5. Len(intermediates) <= Cardinality(DieBefore(index))
    BY <2>1 DEF FromIndices
  <2>6. QED BY <1>0, <2>1, <2>3, <2>4, <2>5 DEF FromIndices
<1>3. CASE NvCertRead
  <2>1. /\ UNCHANGED nv /\ epc = "read" /\ index' = index + 1 /\ index \in OnDie
        /\ Whole(nv[index]) \in Chains
        /\ intermediates' = Append(intermediates, Whole(nv[index]))
    BY <1>3, ReadWhole DEF NvCertRead, NextIndex, nvData, OnDie
  <2>2. Len(intermediates') = Len(intermediates) + 1
    BY <2>1, ChainGrows
  <2>3. DieBefore(index)' = DieBefore(index) \cup {index} /\ index \notin DieBefore(index)
    <3>1. OnDie' = OnDie BY <2>1 DEF OnDie
    <3>2. \A k \in OnDie : k \in Nat BY CertConstants DEF OnDie
    <3>3. DieBefore(index)' = {k \in OnDie : k < index + 1}
      BY <2>1, <3>1 DEF DieBefore
    <3>4. \A k \in OnDie : k < index + 1 <=> k < index \/ k = index
      BY <1>0, <3>2
    <3>5. {k \in OnDie : k < index + 1} = {k \in OnDie : k < index} \cup {index}
      BY <2>1, <3>4
    <3>6. index \notin DieBefore(index)
      BY <1>0 DEF DieBefore
    <3>7. QED BY <3>3, <3>5, <3>6 DEF DieBefore
  <2>4. IsFiniteSet(DieBefore(index)) /\ Cardinality(DieBefore(index)) \in Nat
    BY <1>0, DieCount
  <2>5. Cardinality(DieBefore(index)') = Cardinality(DieBefore(index)) + 1
    BY <2>3, <2>4, FS_AddElement
  <2>6. Len(intermediates) <= Cardinality(DieBefore(index))
    BY <2>1 DEF FromIndices
  <2>7. Len(intermediates') <= Cardinality(DieBefore(index)')
    BY <1>0, <2>2, <2>4, <2>5, <2>6
  <2>8. QED BY <2>7 DEF FromIndices
<1>4. CASE UNCHANGED certVars
  BY <1>4 DEF certVars, nvData, FromIndices, DieBefore, OnDie
<1>5. QED
  BY <1>1, <1>2, <1>3, <1>4
  DEF CertNext, CertStep, Provisioned, HashChain, ReadStore, MergeCert, Merging, CutChain, ChainSent

\* A prefix of the chain repeats no more than the chain.
LEMMA SameOnce ==
  ASSUME UNCHANGED <<nv, nvFaults>>, MergeAddsNoDuplicate,
         \A i, j \in 1..Len(intermediates') :
           i < j /\ intermediates'[i] = intermediates'[j] =>
             /\ i \in 1..Len(intermediates) /\ j \in 1..Len(intermediates)
             /\ intermediates[i] = intermediates[j]
  PROVE  MergeAddsNoDuplicate'
<1>1. OnDie' = OnDie BY DEF OnDie
<1>2. QED BY <1>1 DEF MergeAddsNoDuplicate

\* Only the read of the TPM repeats a certificate.
LEMMA OnceStep ==
  CertInv /\ [CertNext]_certVars => MergeAddsNoDuplicate'
<1> SUFFICES ASSUME CertInv, [CertNext]_certVars, nvFaults' = 0
             PROVE  MergeAddsNoDuplicate'
  BY DEF MergeAddsNoDuplicate
<1> USE CertConstants DEF CertInv
<1>0. ~NvFault
  BY DEF NvFault, CertState, CertTypeOK
<1>1. CASE Provisioned \/ ChainSent
  <2>1. Len(intermediates') = 0
    BY <1>1, EmptySeq DEF Provisioned, ChainSent, CertState
  <2>2. QED BY <2>1 DEF MergeAddsNoDuplicate
<1>2. CASE UNCHANGED <<nv, intermediates, nvFaults>>
  BY <1>2, SameOnce DEF CertState
<1>3. CASE OpenTpm \/ NvReadPublic \/ NvRead \/ HashChain \/ ReadStore \/ UNCHANGED certVars
  BY <1>0, <1>2, <1>3
  DEF OpenTpm, NvReadPublic, NvRead, HashChain, ReadStore, certVars, nvData, NoNvFault
<1>4. CASE NvCertRead
  <2>1. UNCHANGED nv /\ epc' = "public" /\ index \in Nat /\ index' = index + 1
    BY <1>4 DEF NvCertRead, NextIndex, nvData, CertState, CertTypeOK
  <2>2. Len(intermediates') <= Cardinality(DieBefore(index'))
    <3>1. FromIndices' BY IndicesStep
    <3>2. DieBefore(index)' = DieBefore(index') BY <2>1 DEF DieBefore, OnDie
    <3>3. QED BY <2>1, <3>1, <3>2 DEF FromIndices
  <2>3. /\ Cardinality(DieBefore(index')) \in Nat /\ Cardinality(OnDie) \in Nat
        /\ Cardinality(DieBefore(index')) <= Cardinality(OnDie)
    BY <2>1, DieCount
  <2>4. Len(intermediates') \in Nat
    <3>1. intermediates' \in Seq(Chains) BY StateStep DEF CertState
    <3>2. QED BY <3>1, LenProperties
  <2>5. OnDie' = OnDie BY <2>1 DEF OnDie
  <2>6. \A j \in 1..Len(intermediates') : j <= Cardinality(OnDie')
    BY <2>2, <2>3, <2>4, <2>5
  <2>7. QED BY <2>6 DEF MergeAddsNoDuplicate
<1>5. CASE MergeCert
  <2>1. epc = "merge" /\ UNCHANGED <<nv, nvFaults>> /\ nvFaults = 0
    BY <1>0, <1>5 DEF MergeCert, Merging, nvData, NoNvFault
  <2>2. CASE UNCHANGED intermediates
    BY <1>2, <2>1, <2>2
  <2>3. CASE /\ Whole(winStore[index]) \notin seen
             /\ intermediates' = Append(intermediates, Whole(winStore[index]))
    <3>1. seen = Members(intermediates)
      BY <2>1 DEF NoneLeftOut
    <3>2. /\ Len(intermediates) \in Nat /\ Len(intermediates') = Len(intermediates) + 1
          /\ \A i \in 1..Len(intermediates) : intermediates'[i] = intermediates[i]
          /\ intermediates'[Len(intermediates) + 1] = Whole(winStore[index])
      BY <1>5, <2>3, MergeOne, ChainGrows
    <3>3. ASSUME NEW i \in 1..Len(intermediates'), NEW j \in 1..Len(intermediates'),
                 i < j, intermediates'[i] = intermediates'[j]
          PROVE  /\ i \in 1..Len(intermediates) /\ j \in 1..Len(intermediates)
                 /\ intermediates'[i] = intermediates[i] /\ intermediates[i] = intermediates[j]
      <4>1. i \in 1..Len(intermediates) /\ (j \in 1..Len(intermediates) \/ j = Len(intermediates) + 1)
        BY <3>2, <3>3
      <4>2. intermediates[i] \in Members(intermediates)
        BY <4>1 DEF Members
      <4>3. j # Len(intermediates) + 1
        BY <2>3, <3>1, <3>2, <3>3, <4>1, <4>2
      <4>4. QED BY <3>2, <3>3, <4>1, <4>3
    <3>4. QED BY <2>1, <3>3, SameOnce
  <2>4. QED BY <1>0, <1>5, <2>2, <2>3 DEF MergeCert
<1>6. CASE CutChain
  <2>1. UNCHANGED <<nv, nvFaults>>
    BY <1>6 DEF CutChain, nvData
  <2>2. \A i \in 1..Len(intermediates') : i \in 1..Len(intermediates) /\ intermediates'[i] = intermediates[i]
    BY <1>6, CutOne
  <2>3. QED BY <2>1, <2>2, SameOnce
<1>7. QED
  BY <1>1, <1>3, <1>4, <1>5, <1>6 DEF CertNext, CertStep

-----------------------------------------------------------------------------
\* The invariant of the gathering.
LEMMA CertInvariant == CertSpec => []CertInv
<1>1. CertInv /\ [CertNext]_certVars => CertInv'
  BY StateStep, MachineStep, LoopsStep, CompleteStep, IndicesStep, OnceStep DEF CertInv
<1>2. QED BY CertInitial, <1>1, PTL DEF CertSpec

\* The variables have their type, and what is being read is a prefix of the
\* certificate at the index: no offset wraps.
THEOREM CertTypeCorrect == CertSpec => []CertTypeOK
<1>1. CertInv => CertTypeOK BY DEF CertInv, CertState
<1>2. QED BY <1>1, CertInvariant, PTL

\* Whatever fails, the chain holds whole certificates of the machine only.
THEOREM ChainAlwaysWhole == CertSpec => []ChainWhole
<1>1. CertInv => ChainWhole BY DEF CertInv, FromMachine
<1>2. QED BY <1>1, CertInvariant, PTL

\* The chain sent is within the limit, and complete if nothing failed and it is
\* not full.
THEOREM ChainAlwaysComplete == CertSpec => []ChainComplete
<1>1. CertInv => ChainComplete BY DEF CertInv
<1>2. QED BY <1>1, CertInvariant, PTL

\* If nothing fails, what Windows has cached is not appended to a chain that has
\* it, whatever the chain of the TPM repeats.
THEOREM MergeNeverDuplicates == CertSpec => []MergeAddsNoDuplicate
<1>1. CertInv => MergeAddsNoDuplicate BY DEF CertInv
<1>2. QED BY <1>1, CertInvariant, PTL

-----------------------------------------------------------------------------
(* The identity of the device. *)

LocalId == IdOf(StoreCert(Entries))

\* What a download has received is a prefix of the answer, and all of it unless
\* the connection broke.
Received ==
  /\ ipc \in {"new", "idle", "ekPub", "store", "pcp", "get"} => body = <<>>
  /\ ipc \in {"probe", "ekCert", "override", "derive", "derivePublic"} => body = <<>>
  /\ ipc \in {"receive", "fetched"} =>
       /\ Len(body) <= Len(answer.body) /\ body = SubSeq(answer.body, 1, Len(body))
       /\ answer.status = 200 => answer.body = machine.amd /\ machine.amd # <<>>
  /\ ipc = "fetched" /\ answer.status = 200 /\ ~cut => body = answer.body

\* While nothing fails, each source of the certificate has been found empty
\* before the next one is tried.
Sought ==
  idFaults = 0 =>
    /\ ~cut
    /\ ipc \in {"pcp", "get", "receive", "fetched"} => StoreCert(Entries) = <<>>
    /\ ipc \in {"get", "receive", "fetched"} => machine.pcp = <<>>
    /\ ipc \in {"receive", "fetched"} => (answer.status = 200 <=> machine.amd # <<>>)

\* What an enrollment is about to send.
ToSend ==
  ipc = "emit" /\ call = "enroll" =>
    /\ ~cut => ekCert \in Found
    /\ idFaults = 0 => ekCert = Best

\* The ids the device has derived, and those the server gave.
Named ==
  /\ ipc = "new" => named = {} /\ bodies = {} /\ devices = {} /\ ~claim.enrolled
  /\ g_deviceId \in devices \cup {NoId}
  /\ claim.enrolled => devices # {}
  /\ idFaults = 0 =>
       /\ named \subseteq {LocalId}
       /\ devices \subseteq {IdOf(Best)}
       /\ ipc = "derivePublic" => StoreCert(Entries) = <<>>
       /\ ipc = "emit" /\ call = "evidence" => deviceId \in devices \cup {LocalId}
       /\ claim.enrolled => claim.id \in devices \cup {LocalId}

IdentityInv == IdentityTypeOK /\ Received /\ Sought /\ ToSend /\ EkCertSent /\ Named

-----------------------------------------------------------------------------
\* A set of numbers that is not empty has a least one.
LEMMA LeastOne ==
  ASSUME NEW S, S \subseteq Nat, S # {}
  PROVE  /\ (CHOOSE i \in S : \A j \in S : i <= j) \in S
<1>1. \E i \in S : \A j \in S : i <= j
  <2>1. PICK i \in S : \A j \in S : ~(<<j, i>> \in OpToRel(<, Nat))
    BY NatLessThanWellFounded, WFMin
  <2>2. \A j \in S : ~(j < i)
    BY <2>1 DEF OpToRel
  <2>3. QED BY <2>2
<1>2. QED BY <1>1

\* The bytes of a whole certificate.
LEMMA WholeEkBytes ==
  ASSUME NEW c \in EkCerts
  PROVE  /\ WholeEk(c) \in Seq((EkCerts \cup {Junk}) \X Nat) /\ Len(WholeEk(c)) = Parts
         /\ WholeEk(c) # <<>>
         /\ WholeEk(c) \in Found /\ WholeEk(c) \in Contents
<1>1. Parts \in Nat /\ Parts # 0
  BY IdentityConstants
<1>2. WholeEk(c) \in [1..Parts -> (EkCerts \cup {Junk}) \X Nat]
  BY <1>1 DEF WholeEk
<1>3. WholeEk(c) \in Seq((EkCerts \cup {Junk}) \X Nat) /\ Len(WholeEk(c)) = Parts
  BY <1>1, <1>2
<1>4. SubSeq(WholeEk(c), 1, Parts) = WholeEk(c)
  BY <1>3, SubSeqFull
<1>5. WholeEk(c) \in Contents
  BY <1>1, <1>4 DEF Contents
<1>6. WholeEk(c) # <<>>
  BY <1>1, <1>3, EmptySeq
<1>7. QED BY <1>3, <1>5, <1>6 DEF Found

\* What the store yields is a whole certificate, or nothing.
LEMMA StoreCertFound ==
  ASSUME machine \in Machines, NEW readable \in SUBSET Entries
  PROVE  StoreCert(readable) \in Found
<1> DEFINE certs == {i \in readable : machine.store[i] # Junk}
<1>1. PICK n \in 0..MaxBlobs : machine.store \in [1..n -> EkCerts \cup {Junk}]
  BY DEF Machines
<1>2. n \in Nat /\ Len(machine.store) = n
  BY <1>1, IdentityConstants
<1>3. certs \subseteq 1..n /\ \A i \in certs : machine.store[i] \in EkCerts
  BY <1>1, <1>2 DEF Entries
<1>4. CASE certs = {}
  BY <1>4 DEF StoreCert, Found
<1>5. CASE certs # {}
  <2>1. certs \subseteq Nat
    BY <1>2, <1>3
  <2>2. (CHOOSE i \in certs : \A j \in certs : i <= j) \in certs
    BY <1>5, <2>1, LeastOne
  <2>3. machine.store[CHOOSE i \in certs : \A j \in certs : i <= j] \in EkCerts
    BY <1>3, <2>2
  <2>4. QED BY <1>5, <2>3, WholeEkBytes DEF StoreCert
<1>6. QED BY <1>4, <1>5

\* The machine decides where certificates are.
LEMMA SameMachine ==
  ASSUME UNCHANGED machine
  PROVE  /\ StoreCert(Entries)' = StoreCert(Entries) /\ Best' = Best /\ LocalId' = LocalId
  BY DEF StoreCert, Entries, Best, LocalId, IdOf, WholeEk

\* A prefix of an answer is of the type of the contents.
LEMMA PrefixContents ==
  ASSUME NEW whole \in Found \cup {ErrorPage}, NEW n \in 0..Len(whole)
  PROVE  /\ SubSeq(whole, 1, n) \in Contents
         /\ n < Len(whole) => Append(SubSeq(whole, 1, n), whole[n + 1]) = SubSeq(whole, 1, n + 1)
         /\ Len(SubSeq(whole, 1, n)) = n
         /\ SubSeq(whole, 1, Len(whole)) = whole
         /\ Len(whole) \in Nat
<1> DEFINE Bytes == (EkCerts \cup {Junk}) \X Nat
<1>1. whole \in Seq(Bytes) /\ Len(whole) \in Nat /\ Len(<<>>) = 0
  <2>1. ErrorPage \in Seq(Bytes)
    BY DEF ErrorPage
  <2>2. <<>> \in Seq(Bytes)
    BY EmptySeq
  <2>3. QED BY <2>1, <2>2, WholeEkBytes, LenProperties DEF Found
<1> HIDE DEF Bytes
<1>2. n \in Nat /\ n <= Len(whole)
  BY <1>1
<1>3. SubSeq(whole, 1, Len(whole)) = whole
  BY <1>1, SubSeqFull
<1>4. Len(SubSeq(whole, 1, n)) = n
  <2>1. \A i \in 1..n : whole[i] \in Bytes
    BY <1>1, <1>2, ElementOfSeq
  <2>2. Len(SubSeq(whole, 1, n)) = IF 1 <= n THEN n - 1 + 1 ELSE 0
    BY <1>2, <2>1, SubSeqProperties
  <2>3. QED BY <1>2, <2>2
<1>5. ASSUME n < Len(whole)
      PROVE  Append(SubSeq(whole, 1, n), whole[n + 1]) = SubSeq(whole, 1, n + 1)
  <2>1. n + 1 \in 1..Len(whole) /\ 1 \in 1..Len(whole) /\ n + 1 \in 1..Len(whole)
    BY <1>1, <1>2, <1>5
  <2>2. SubSeq(whole, 1, n + 1) = SubSeq(whole, 1, n + 1 - 1) \o <<whole[n + 1]>>
    BY <1>1, <2>1, SubSeqRecursiveSecond
  <2>3. SubSeq(whole, 1, n) \in Seq(Bytes) /\ whole[n + 1] \in Bytes
    <3>1. \A i \in 1..n : whole[i] \in Bytes
      BY <1>1, <1>2, ElementOfSeq
    <3>2. QED BY <1>1, <1>2, <2>1, <3>1, ElementOfSeq, SubSeqProperties
  <2>4. n + 1 - 1 = n
    BY <1>2
  <2>5. QED BY <2>2, <2>3, <2>4, AppendIsConcat
<1>6. SubSeq(whole, 1, n) \in Contents
  <2>1. CASE whole = <<>>
    <3>1. n = 0
      BY <1>1, <2>1
    <3>2. SubSeq(whole, 1, n) = <<>>
      BY <3>1, SubSeqEmpty
    <3>3. QED BY <3>2 DEF Contents
  <2>2. CASE whole = ErrorPage
    <3>1. Len(whole) = 1
      BY <2>2 DEF ErrorPage
    <3>2. n = 0 \/ n = Len(whole)
      BY <1>2, <3>1
    <3>3. n = 0 => SubSeq(whole, 1, n) = <<>>
      BY SubSeqEmpty
    <3>4. ErrorPage \in Contents /\ <<>> \in Contents
      BY DEF Contents
    <3>5. QED BY <1>3, <2>2, <3>2, <3>3, <3>4
  <2>3. ASSUME NEW c \in EkCerts, whole = WholeEk(c) PROVE SubSeq(whole, 1, n) \in Contents
    <3>1. n \in 0..Parts
      BY <1>2, <2>3, WholeEkBytes
    <3>2. QED BY <2>3, <3>1 DEF Contents
  <2>4. whole = <<>> \/ whole = ErrorPage \/ \E c \in EkCerts : whole = WholeEk(c)
    BY DEF Found
  <2>5. QED BY <2>1, <2>2, <2>3, <2>4
<1>7. QED BY <1>1, <1>3, <1>4, <1>5, <1>6

\* An id names a certificate or the public key.
LEMMA IdOfContents ==
  /\ Found \subseteq Contents /\ <<>> \in Contents /\ <<>> \in Found
  /\ \A c \in Contents : IdOf(c) \in Ids \ {NoId}
  /\ NoId \in Ids
  /\ NoAnswer.status = 0 /\ NoAnswer.body = <<>>
<1>1. <<>> \in Contents
  BY DEF Contents
<1>2. Found \subseteq Contents /\ <<>> \in Found
  BY <1>1, WholeEkBytes DEF Found
<1>3. \A c : IdOf(c) # NoId
  <2> TAKE c
  <2>1. IdOf(c).by # NoId.by
    BY DEF IdOf, NoId
  <2>2. QED BY <2>1
<1>4. QED BY <1>1, <1>2, <1>3 DEF Ids, NoAnswer

\* The invariant holds initially.
LEMMA IdentityInitial == IdentityInit => IdentityInv
<1> SUFFICES ASSUME IdentityInit PROVE IdentityInv
  OBVIOUS
<1>1. machine \in Machines
  <2>1. machine.store \in [1..0 -> EkCerts \cup {Junk}] /\ 0 \in 0..MaxBlobs
    BY IdentityConstants DEF IdentityInit
  <2>2. machine.store \in UNION {[1..n -> EkCerts \cup {Junk}] : n \in 0..MaxBlobs}
    BY <2>1
  <2>3. QED BY <2>2 DEF IdentityInit, Machines, Found
<1>2. IdentityTypeOK
  <2>1. claim \in [id : Ids, enrolled : BOOLEAN]
    BY IdOfContents DEF IdentityInit
  <2>2. /\ ipc = "new" /\ call \in Calls /\ ekCert \in Contents /\ deviceId \in Ids
        /\ body \in Contents /\ g_deviceId \in Ids /\ bodies \subseteq Contents
        /\ devices \subseteq Ids \ {NoId} /\ named \subseteq Ids \ {NoId} /\ idFaults \in 0..MaxIdFaults
    BY IdOfContents, IdentityConstants DEF IdentityInit, Calls
  <2>3. answer.status \in {0, 200, 404, 500} /\ answer.body \in Found \cup {ErrorPage}
    BY IdOfContents DEF IdentityInit
  <2>4. hasTpm \in BOOLEAN /\ cut \in BOOLEAN
    BY DEF IdentityInit
  <2>5. QED BY <1>1, <2>1, <2>2, <2>3, <2>4 DEF IdentityTypeOK
<1>3. QED
  BY <1>2 DEF IdentityInit, IdentityInv, Received, Sought, ToSend, EkCertSent, Named

\* A fault is counted up to its bound.
LEMMA IdFaults ==
  ASSUME IdentityTypeOK, IdFault \/ NoIdFault
  PROVE  idFaults' \in 0..MaxIdFaults /\ (idFaults' = 0 => idFaults = 0 /\ NoIdFault)
  BY IdentityConstants DEF IdentityTypeOK, IdFault, NoIdFault

\* The certificate read from the store.
LEMMA ReadsFound ==
  ASSUME IdentityTypeOK, NEW c, ReadEkCertFromWindowsStore(c)
  PROVE  /\ c \in Found /\ idFaults' \in 0..MaxIdFaults
         /\ idFaults' = 0 => idFaults = 0 /\ c = StoreCert(Entries)
<1>1. machine \in Machines
  BY DEF IdentityTypeOK
<1>2. IdFault \/ NoIdFault
  BY DEF ReadEkCertFromWindowsStore
<1>3. c \in Found
  BY <1>1, StoreCertFound DEF ReadEkCertFromWindowsStore
<1>4. QED BY <1>2, <1>3, IdFaults DEF ReadEkCertFromWindowsStore, IdFault, IdentityTypeOK

\* An answer is finite.
LEMMA AnswerLen == \A whole \in Found \cup {ErrorPage} : Len(whole) \in Nat
<1>1. \A c \in EkCerts : Len(WholeEk(c)) \in Nat
  BY WholeEkBytes, IdentityConstants
<1>2. Len(<<>>) \in Nat /\ Len(ErrorPage) \in Nat
  BY DEF ErrorPage
<1>3. QED BY <1>1, <1>2 DEF Found

\* One more chunk of the answer is a longer prefix of it.
LEMMA NextChunk ==
  ASSUME IdentityTypeOK, Len(body) <= Len(answer.body), body = SubSeq(answer.body, 1, Len(body)),
         Len(body) < Len(answer.body), body' = Append(body, answer.body[Len(body) + 1])
  PROVE  /\ body' \in Contents /\ Len(body') = Len(body) + 1 /\ Len(body) \in Nat
         /\ body' = SubSeq(answer.body, 1, Len(body')) /\ Len(body') <= Len(answer.body)
<1>1. answer.body \in Found \cup {ErrorPage} /\ body \in Contents
  BY DEF IdentityTypeOK
<1>2. Len(answer.body) \in Nat
  BY <1>1, AnswerLen
<1>3. Len(body) \in Nat
  <2>1. \A b \in Contents : Len(b) \in Nat
    <3>1. \A c \in EkCerts, n \in 0..Parts : Len(SubSeq(WholeEk(c), 1, n)) \in Nat
      BY WholeEkBytes, PrefixContents
    <3>2. Len(<<>>) \in Nat /\ Len(ErrorPage) \in Nat
      BY DEF ErrorPage
    <3>3. QED BY <3>1, <3>2 DEF Contents
  <2>2. QED BY <1>1, <2>1
<1>4. Len(body) \in 0..Len(answer.body)
  BY <1>2, <1>3
<1>5. /\ Append(body, answer.body[Len(body) + 1]) = SubSeq(answer.body, 1, Len(body) + 1)
  BY <1>1, <1>4, PrefixContents
<1>6. Len(body) + 1 \in 0..Len(answer.body)
  BY <1>2, <1>3
<1>7. Len(SubSeq(answer.body, 1, Len(body) + 1)) = Len(body) + 1
      /\ SubSeq(answer.body, 1, Len(body) + 1) \in Contents
  BY <1>1, <1>6, PrefixContents
<1>8. QED BY <1>2, <1>3, <1>5, <1>6, <1>7

\* The variables keep their type.
LEMMA IdentityTypeStep ==
  IdentityTypeOK /\ Received /\ [IdentityNext]_identityVars => IdentityTypeOK'
<1> SUFFICES ASSUME IdentityTypeOK, Received, [IdentityNext]_identityVars PROVE IdentityTypeOK'
  OBVIOUS
<1> USE IdOfContents, IdentityConstants DEF IdentityTypeOK, callLocals
<1>1. CASE MachineSetUp
  BY <1>1 DEF MachineSetUp
<1>2. ASSUME NEW k \in Calls, Enter(k) PROVE IdentityTypeOK'
  BY <1>2 DEF Enter, Calls, FirstStep
<1>3. CASE ReadEkPublicKey
  <2>1. CASE UNCHANGED callLocals /\ OnTo("store") /\ NoIdFault
    BY <1>3, <2>1, IdFaults DEF ReadEkPublicKey, In, OnTo
  <2>2. CASE Done /\ UNCHANGED <<bodies, claim, named>> /\ IdFault
    BY <1>3, <2>2, IdFaults DEF ReadEkPublicKey, In, Done
  <2>3. QED BY <1>3, <2>1, <2>2 DEF ReadEkPublicKey
<1>4. CASE EnrollStoreCert
  BY <1>4, ReadsFound DEF EnrollStoreCert, In, OnTo
<1>5. CASE ReadEkCertificate
  BY <1>5, IdFaults DEF ReadEkCertificate, In, OnTo, Machines
<1>6. CASE HttpGet
  BY <1>6, IdFaults DEF HttpGet, In, OnTo, Machines, NoAnswer, Found
<1>7. CASE ReadBody
  <2>1. /\ ipc = "receive" /\ body = SubSeq(answer.body, 1, Len(body)) /\ Len(body) <= Len(answer.body)
        /\ answer.body \in Found \cup {ErrorPage} /\ answer.body \in Contents \cup {ErrorPage}
    BY <1>7 DEF ReadBody, In, Received
  <2>2. CASE Len(body) < Len(answer.body) /\ body' = Append(body, answer.body[Len(body) + 1])
    <3>1. body' \in Contents
      BY <2>1, <2>2, NextChunk
    <3>2. ipc' \in {"receive", "fetched"} /\ (IdFault \/ NoIdFault)
      BY <1>7 DEF ReadBody, OnTo
    <3>2a. cut' = cut \/ cut' = TRUE
      BY <1>7 DEF ReadBody
    <3>2b. cut \in BOOLEAN
      OBVIOUS
    <3>2c. cut' \in BOOLEAN
      BY ONLY <3>2a, <3>2b, Zenon
    <3>3. UNCHANGED <<call, machine, g_deviceId, devices, bodies, claim, named, ekCert, deviceId, answer, hasTpm>>
      BY <1>7 DEF ReadBody, In, OnTo
    <3>4. QED BY <3>1, <3>2, <3>2c, <3>3, IdFaults
  <2>3. CASE body' = body
    <3>1. ipc' \in {"receive", "fetched"} /\ (IdFault \/ NoIdFault)
      BY <1>7 DEF ReadBody, OnTo
    <3>1a. cut' = cut \/ cut' = TRUE
      BY <1>7 DEF ReadBody
    <3>1b. cut' \in BOOLEAN
      <4>1. cut \in BOOLEAN
        OBVIOUS
      <4>2. QED BY ONLY <3>1a, <4>1, Zenon
    <3>2. UNCHANGED <<call, machine, g_deviceId, devices, bodies, claim, named, ekCert, deviceId, answer, hasTpm>>
      BY <1>7 DEF ReadBody, In, OnTo
    <3>3. QED BY <2>3, <3>1, <3>1b, <3>2, IdFaults
  <2>4. QED BY <1>7, <2>2, <2>3 DEF ReadBody
<1>8. CASE FetchAmdAiaEkCert
  BY <1>8 DEF FetchAmdAiaEkCert, In, OnTo
<1>9. CASE EmitEnrollBody
  BY <1>9, IdFaults DEF EmitEnrollBody, In, Done
<1>10. ASSUME NEW cert \in bodies, ServerEnrolls(cert) PROVE IdentityTypeOK'
  BY <1>10 DEF ServerEnrolls
<1>11. CASE Probe
  <2>1. ipc' \in {"ekCert", "derive", "emit"} /\ (IdFault \/ NoIdFault)
    BY <1>11 DEF Probe, OnTo, IdStep
  <2>2. hasTpm' = TRUE \/ hasTpm' = FALSE
    BY <1>11 DEF Probe
  <2>3. hasTpm' \in BOOLEAN
    BY ONLY <2>2, Zenon
  <2>4. UNCHANGED <<call, machine, g_deviceId, devices, bodies, claim, named, ekCert, deviceId, answer, body, cut>>
    BY <1>11 DEF Probe, In, OnTo
  <2>5. idFaults' \in 0..MaxIdFaults
    BY <2>1, IdFaults
  <2>6. QED BY <2>1, <2>3, <2>4, <2>5
<1>12. CASE CollectEkCert
  BY <1>12, ReadsFound DEF CollectEkCert, In, OnTo, IdStep
<1>13. CASE TakeOverride
  BY <1>13, IdFaults DEF TakeOverride, In, OnTo
<1>14. CASE DeriveLocalDeviceId
  BY <1>14, ReadsFound DEF DeriveLocalDeviceId, In, OnTo, Derived
<1>15. CASE DerivePublic
  BY <1>15, IdFaults DEF DerivePublic, In, Derived
<1>16. CASE EmitAnswer
  <2>1. claim' \in [id : Ids, enrolled : BOOLEAN]
    <3>1. (devices # {}) \in BOOLEAN
      OBVIOUS
    <3>2. [id |-> deviceId, enrolled |-> devices # {}] \in [id : Ids, enrolled : BOOLEAN]
      BY <3>1
    <3>3. claim' = claim \/ claim' = [id |-> deviceId, enrolled |-> devices # {}]
      BY <1>16 DEF EmitAnswer
    <3>4. claim \in [id : Ids, enrolled : BOOLEAN]
      OBVIOUS
    <3>5. QED BY ONLY <3>2, <3>3, <3>4, Zenon
  <2>2. QED BY <1>16, <2>1, IdFaults DEF EmitAnswer, In, Done
<1>17. ASSUME NEW id \in devices \cup {NoId}, RootHeraldSetDeviceId(id) PROVE IdentityTypeOK'
  BY <1>17 DEF RootHeraldSetDeviceId
<1>18. CASE UNCHANGED identityVars
  BY <1>18 DEF identityVars
<1>19. QED
  BY <1>1, <1>2, <1>3, <1>4, <1>5, <1>6, <1>7, <1>8, <1>9, <1>10, <1>11, <1>12, <1>13, <1>14,
     <1>15, <1>16, <1>17, <1>18 DEF IdentityNext

-----------------------------------------------------------------------------
\* The answer is received from its first chunk on.
LEMMA ReceivedStep == IdentityTypeOK /\ Received /\ [IdentityNext]_identityVars => Received'
<1> SUFFICES ASSUME IdentityTypeOK, Received, [IdentityNext]_identityVars PROVE Received'
  OBVIOUS
<1>1. CASE MachineSetUp \/ \E k \in Calls : Enter(k)
  BY <1>1 DEF MachineSetUp, Enter, Calls, FirstStep, callLocals, Received
<1>2. CASE ReadEkPublicKey \/ EmitEnrollBody \/ EmitAnswer
  BY <1>2 DEF ReadEkPublicKey, EmitEnrollBody, EmitAnswer, In, OnTo, Done, callLocals, Received
<1>3. CASE EnrollStoreCert \/ ReadEkCertificate
  BY <1>3 DEF EnrollStoreCert, ReadEkCertificate, In, OnTo, Received
<1>4. CASE HttpGet
  <2>1. ipc = "get" /\ body = <<>> /\ body' = <<>> /\ UNCHANGED machine /\ Len(body') = 0
    BY <1>4, EmptySeq DEF HttpGet, In, Received
  <2>2. SubSeq(answer'.body, 1, 0) = <<>>
    BY SubSeqEmpty
  <2>3. answer'.body \in Found \cup {ErrorPage}
    BY <1>4, IdOfContents DEF HttpGet, IdentityTypeOK, Machines
  <2>4. Len(answer'.body) \in Nat
    BY <2>3, AnswerLen
  <2>5. answer'.status = 200 => answer'.body = machine.amd /\ machine.amd # <<>>
    BY <1>4, IdOfContents DEF HttpGet
  <2>6. answer'.status = 0 => answer'.status # 200
    OBVIOUS
  <2>7. ipc' = IF answer'.status = 0 THEN "fetched" ELSE "receive"
    BY <1>4 DEF HttpGet, OnTo
  <2>8. QED BY <2>1, <2>2, <2>4, <2>5, <2>6, <2>7 DEF Received
<1>5. CASE ReadBody
  <2>1. /\ ipc = "receive" /\ body = SubSeq(answer.body, 1, Len(body)) /\ Len(body) <= Len(answer.body)
        /\ answer.status = 200 => answer.body = machine.amd /\ machine.amd # <<>>
        /\ UNCHANGED <<answer, machine>>
    BY <1>5 DEF ReadBody, In, Received
  <2>2. CASE /\ Len(body) < Len(answer.body) /\ ipc' = "receive"
             /\ body' = Append(body, answer.body[Len(body) + 1])
    BY <2>1, <2>2, NextChunk DEF Received
  <2>3. CASE Len(body) = Len(answer.body) /\ ipc' = "fetched" /\ UNCHANGED <<body, cut>>
    <3>1. body = answer.body
      BY <2>1, <2>3, PrefixContents, AnswerLen DEF IdentityTypeOK
    <3>2. QED BY <2>1, <2>3, <3>1 DEF Received
  <2>4. CASE ipc' = "fetched" /\ cut' /\ UNCHANGED body
    BY <2>1, <2>4 DEF Received
  <2>5. QED BY <1>5, <2>2, <2>3, <2>4 DEF ReadBody, OnTo
<1>6. CASE FetchAmdAiaEkCert
  BY <1>6 DEF FetchAmdAiaEkCert, OnTo, Received
<1>7. CASE \/ \E cert \in bodies : ServerEnrolls(cert)
           \/ \E id \in devices \cup {NoId} : RootHeraldSetDeviceId(id)
           \/ UNCHANGED identityVars
  BY <1>7 DEF ServerEnrolls, RootHeraldSetDeviceId, identityVars, callLocals, Received
<1>8. CASE Probe \/ CollectEkCert \/ TakeOverride
  BY <1>8 DEF Probe, CollectEkCert, TakeOverride, In, OnTo, IdStep, Received
<1>9. CASE DeriveLocalDeviceId \/ DerivePublic
  BY <1>9 DEF DeriveLocalDeviceId, DerivePublic, In, OnTo, Derived, Received
<1>10. QED
  BY <1>1, <1>2, <1>3, <1>4, <1>5, <1>6, <1>7, <1>8, <1>9 DEF IdentityNext

\* A step that counts no fault is one in which nothing fails.
LEMMA NoFaultYet ==
  ASSUME IdentityTypeOK, idFaults' = 0, [IdentityNext]_identityVars
  PROVE  idFaults = 0 /\ ~IdFault
  BY IdentityConstants
  DEF IdentityTypeOK, IdentityNext, identityVars, IdFault, NoIdFault, MachineSetUp, Enter,
      ReadEkPublicKey, EnrollStoreCert, ReadEkCertificate, HttpGet, ReadBody, FetchAmdAiaEkCert,
      EmitEnrollBody, ServerEnrolls, Probe, CollectEkCert, TakeOverride, DeriveLocalDeviceId,
      DerivePublic, EmitAnswer, RootHeraldSetDeviceId, ReadEkCertFromWindowsStore

\* One source is tried after the other.
LEMMA SoughtStep == IdentityTypeOK /\ Sought /\ [IdentityNext]_identityVars => Sought'
<1> SUFFICES ASSUME IdentityTypeOK, Sought, [IdentityNext]_identityVars, idFaults' = 0
             PROVE  Sought'
  BY DEF Sought
<1>0. idFaults = 0 /\ ~IdFault
  BY NoFaultYet
<1>1. CASE MachineSetUp
  BY <1>0, <1>1 DEF MachineSetUp, Sought
<1>2. CASE UNCHANGED machine
  <2>1. StoreCert(Entries)' = StoreCert(Entries)
    BY <1>2, SameMachine
  <2>2. CASE EnrollStoreCert
    <3>1. ipc' = "pcp" => StoreCert(Entries) = <<>>
      BY <1>0, <2>2 DEF EnrollStoreCert, OnTo, ReadEkCertFromWindowsStore
    <3>2. ipc' \in {"pcp", "emit"} /\ UNCHANGED cut
      BY <2>2 DEF EnrollStoreCert, OnTo
    <3>3. QED BY <1>0, <2>1, <3>1, <3>2 DEF Sought
  <2>3. CASE ReadEkCertificate
    BY <1>0, <1>2, <2>1, <2>3 DEF ReadEkCertificate, In, OnTo, Sought
  <2>4. CASE HttpGet
    BY <1>0, <1>2, <2>1, <2>4 DEF HttpGet, In, OnTo, Sought
  <2>5. CASE ReadBody
    BY <1>0, <1>2, <2>1, <2>5 DEF ReadBody, In, OnTo, Sought
  <2>6. CASE \/ \E k \in Calls : Enter(k)
             \/ ReadEkPublicKey \/ FetchAmdAiaEkCert \/ EmitEnrollBody \/ EmitAnswer
    BY <1>0, <2>6
    DEF Enter, Calls, FirstStep, ReadEkPublicKey, FetchAmdAiaEkCert, EmitEnrollBody, EmitAnswer,
        OnTo, Done, Sought
  <2>7. CASE Probe \/ CollectEkCert \/ TakeOverride \/ DeriveLocalDeviceId \/ DerivePublic
    BY <1>0, <2>7
    DEF Probe, CollectEkCert, TakeOverride, DeriveLocalDeviceId, DerivePublic, OnTo, IdStep,
        Derived, Sought
  <2>8. CASE \/ \E cert \in bodies : ServerEnrolls(cert)
             \/ \E id \in devices \cup {NoId} : RootHeraldSetDeviceId(id)
             \/ UNCHANGED identityVars
    BY <1>0, <1>2, <2>1, <2>8
    DEF ServerEnrolls, RootHeraldSetDeviceId, identityVars, callLocals, Sought
  <2>9. CASE MachineSetUp
    BY <1>1, <2>9
  <2>10. QED BY <2>2, <2>3, <2>4, <2>5, <2>6, <2>7, <2>8, <2>9 DEF IdentityNext
<1>3. MachineSetUp \/ UNCHANGED machine
  BY DEF IdentityNext, Enter, ReadEkPublicKey, EnrollStoreCert, ReadEkCertificate, HttpGet,
         ReadBody, FetchAmdAiaEkCert, EmitEnrollBody, ServerEnrolls, Probe, CollectEkCert,
         TakeOverride, DeriveLocalDeviceId, DerivePublic, EmitAnswer, RootHeraldSetDeviceId,
         In, identityVars
<1>4. QED BY <1>1, <1>2, <1>3

\* An enrollment is about to send a whole certificate, and the best if nothing
\* failed.
LEMMA ToSendStep ==
  /\ IdentityTypeOK /\ Received /\ Sought /\ ToSend /\ [IdentityNext]_identityVars
  => ToSend'
<1> SUFFICES ASSUME IdentityTypeOK, Received, Sought, ToSend, [IdentityNext]_identityVars,
                    ipc' = "emit", call' = "enroll"
             PROVE  (~cut => ekCert \in Found)' /\ (idFaults = 0 => ekCert = Best)'
  BY DEF ToSend
<1>0. idFaults' = 0 => idFaults = 0 /\ ~IdFault
  BY NoFaultYet
<1>1. CASE EnrollStoreCert
  <2>1. Best' = Best
    BY <1>1, SameMachine DEF EnrollStoreCert, In
  <2>2. PICK c \in Found : ReadEkCertFromWindowsStore(c) /\ ekCert' = c /\ c # <<>>
    BY <1>1 DEF EnrollStoreCert, OnTo
  <2>3. idFaults' = 0 => ekCert' = Best
    BY <1>0, <2>2 DEF ReadEkCertFromWindowsStore, Best
  <2>4. QED BY <2>1, <2>2, <2>3
<1>2. CASE ReadEkCertificate
  <2>1. Best' = Best
    BY <1>2, SameMachine DEF ReadEkCertificate, In
  <2>2. ipc = "pcp" /\ ekCert' = machine.pcp /\ machine.pcp # <<>>
    BY <1>2 DEF ReadEkCertificate, In, OnTo
  <2>3. machine.pcp \in Found
    BY DEF IdentityTypeOK, Machines
  <2>4. idFaults' = 0 => machine.pcp = Best
    BY <1>0, <2>2 DEF Sought, Best
  <2>5. QED BY <2>1, <2>2, <2>3, <2>4
<1>3. CASE FetchAmdAiaEkCert
  <2>1. Best' = Best
    BY <1>3, SameMachine DEF FetchAmdAiaEkCert, In
  <2>2. /\ ipc = "fetched" /\ UNCHANGED <<cut, idFaults>>
        /\ ekCert' = IF answer.status = 200 THEN body ELSE <<>>
    BY <1>3 DEF FetchAmdAiaEkCert, In
  <2>3. answer.status = 200 /\ ~cut => body = machine.amd
    BY <2>2 DEF Received
  <2>4. machine.amd \in Found /\ <<>> \in Found
    BY IdOfContents DEF IdentityTypeOK, Machines
  <2>5. idFaults = 0 => ~cut /\ Best = machine.amd /\ (answer.status = 200 <=> machine.amd # <<>>)
    BY <2>2 DEF Sought, Best
  <2>6. QED BY <2>1, <2>2, <2>3, <2>4, <2>5
<1>4. CASE \/ \E cert \in bodies : ServerEnrolls(cert)
           \/ \E id \in devices \cup {NoId} : RootHeraldSetDeviceId(id)
           \/ UNCHANGED identityVars
  <2>1. UNCHANGED <<ipc, call, machine, ekCert, cut, idFaults>>
    BY <1>4 DEF ServerEnrolls, RootHeraldSetDeviceId, identityVars, callLocals
  <2>2. Best' = Best
    BY <2>1, SameMachine
  <2>3. QED BY <2>1, <2>2 DEF ToSend
<1>5. CASE Probe \/ CollectEkCert \/ TakeOverride \/ DeriveLocalDeviceId \/ DerivePublic
  BY <1>5 DEF Probe, CollectEkCert, TakeOverride, DeriveLocalDeviceId, DerivePublic, In
<1>6. CASE \/ MachineSetUp \/ \E k \in Calls : Enter(k)
           \/ ReadEkPublicKey \/ HttpGet \/ ReadBody \/ EmitEnrollBody \/ EmitAnswer
  BY <1>6
  DEF MachineSetUp, Enter, Calls, FirstStep, ReadEkPublicKey, HttpGet, ReadBody, EmitEnrollBody,
      EmitAnswer, Done, OnTo
<1>7. QED
  BY <1>1, <1>2, <1>3, <1>4, <1>5, <1>6 DEF IdentityNext

\* What was sent was about to be sent.
LEMMA SentStep ==
  /\ IdentityTypeOK /\ ToSend /\ EkCertSent /\ Named /\ [IdentityNext]_identityVars
  => EkCertSent'
<1> SUFFICES ASSUME IdentityTypeOK, ToSend, EkCertSent, Named, [IdentityNext]_identityVars
             PROVE  EkCertSent'
  OBVIOUS
<1>0. idFaults' = 0 => idFaults = 0 /\ ~IdFault
  BY NoFaultYet
<1>1. cut => cut'
  BY DEF IdentityNext, MachineSetUp, Enter, ReadEkPublicKey, EnrollStoreCert, ReadEkCertificate,
         HttpGet, ReadBody, FetchAmdAiaEkCert, EmitEnrollBody, ServerEnrolls, Probe,
         CollectEkCert, TakeOverride, DeriveLocalDeviceId, DerivePublic, EmitAnswer,
         RootHeraldSetDeviceId, identityVars
<1>2. CASE MachineSetUp
  BY <1>2 DEF MachineSetUp, Named, EkCertSent
<1>3. CASE EmitEnrollBody
  <2>1. Best' = Best
    BY <1>3, SameMachine DEF EmitEnrollBody, In
  <2>2. ipc = "emit" /\ call = "enroll" /\ (bodies' = bodies \/ bodies' = bodies \cup {ekCert})
    BY <1>3 DEF EmitEnrollBody, In
  <2>3. QED BY <1>0, <1>1, <2>1, <2>2 DEF ToSend, EkCertSent
<1>4. CASE UNCHANGED <<machine, bodies>>
  <2>1. Best' = Best
    BY <1>4, SameMachine
  <2>2. QED BY <1>0, <1>1, <1>4, <2>1 DEF EkCertSent
<1>5. MachineSetUp \/ EmitEnrollBody \/ UNCHANGED <<machine, bodies>>
  BY DEF IdentityNext, Enter, ReadEkPublicKey, EnrollStoreCert, ReadEkCertificate,
         HttpGet, ReadBody, FetchAmdAiaEkCert, ServerEnrolls, Probe, OnTo, In, Done,
         CollectEkCert, TakeOverride, DeriveLocalDeviceId, Derived, DerivePublic, EmitAnswer,
         RootHeraldSetDeviceId, identityVars
<1>6. QED BY <1>2, <1>3, <1>4, <1>5

\* The ids that are told are the machine's and the server's.
LEMMA NamedStep == IdentityInv /\ [IdentityNext]_identityVars => Named'
<1> SUFFICES ASSUME IdentityInv, [IdentityNext]_identityVars PROVE Named'
  OBVIOUS
<1> USE DEF IdentityInv
<1>0. idFaults' = 0 => idFaults = 0 /\ ~IdFault
  BY NoFaultYet
<1>1. CASE MachineSetUp
  BY <1>1 DEF MachineSetUp, Named, callLocals
<1>2. ASSUME UNCHANGED <<machine, g_deviceId, devices, claim, named, deviceId>>, ipc' # "new",
             ipc' # "derivePublic",
             ipc' = "emit" /\ call' = "evidence" => ipc = "emit" /\ call = "evidence"
      PROVE  Named'
  <2>1. StoreCert(Entries)' = StoreCert(Entries) /\ Best' = Best /\ LocalId' = LocalId
    BY <1>2, SameMachine
  <2>2. IdOf(Best)' = IdOf(Best)
    BY <2>1 DEF IdOf
  <2>3. QED BY <1>0, <1>2, <2>1, <2>2 DEF Named
<1>3. CASE \E k \in Calls : Enter(k)
  BY <1>2, <1>3 DEF Enter, Calls, FirstStep, callLocals
<1>4. CASE EnrollStoreCert \/ ReadEkCertificate \/ HttpGet \/ ReadBody \/ FetchAmdAiaEkCert
  BY <1>2, <1>4 DEF EnrollStoreCert, ReadEkCertificate, HttpGet, ReadBody, FetchAmdAiaEkCert, In, OnTo
<1>5. CASE Probe \/ CollectEkCert
  BY <1>2, <1>5 DEF Probe, CollectEkCert, In, OnTo, IdStep
<1>6. ASSUME UNCHANGED <<machine, g_deviceId, devices, claim, named>>, ipc' \in {"idle", "store"}
      PROVE  Named'
  <2>1. StoreCert(Entries)' = StoreCert(Entries) /\ Best' = Best /\ LocalId' = LocalId
    BY <1>6, SameMachine
  <2>2. IdOf(Best)' = IdOf(Best)
    BY <2>1 DEF IdOf
  <2>3. QED BY <1>0, <1>6, <2>1, <2>2 DEF Named
<1>7. CASE ReadEkPublicKey \/ EmitEnrollBody
  BY <1>6, <1>7 DEF ReadEkPublicKey, EmitEnrollBody, In, OnTo, Done
<1>8. ASSUME NEW cert \in bodies, ServerEnrolls(cert) PROVE Named'
  <2>1. UNCHANGED <<ipc, call, machine, g_deviceId, claim, named, deviceId, idFaults>>
    BY <1>8 DEF ServerEnrolls, callLocals
  <2>2. devices' = devices \cup {IdOf(cert)}
    BY <1>8 DEF ServerEnrolls
  <2>3. StoreCert(Entries)' = StoreCert(Entries) /\ Best' = Best /\ LocalId' = LocalId
    BY <2>1, SameMachine
  <2>4. IdOf(Best)' = IdOf(Best)
    BY <2>3 DEF IdOf
  <2>5. idFaults = 0 => cert = Best
    BY DEF EkCertSent
  <2>6. ipc # "new"
    BY DEF Named
  <2>7. QED BY <2>1, <2>2, <2>3, <2>4, <2>5, <2>6 DEF Named
<1>9. CASE TakeOverride
  <2>1. /\ UNCHANGED <<machine, g_deviceId, devices, claim, named, idFaults>>
        /\ deviceId' = g_deviceId /\ ipc' = IF g_deviceId = NoId THEN "derive" ELSE "emit"
    BY <1>9 DEF TakeOverride, In, OnTo, NoIdFault
  <2>2. StoreCert(Entries)' = StoreCert(Entries) /\ Best' = Best /\ LocalId' = LocalId
    BY <2>1, SameMachine
  <2>3. IdOf(Best)' = IdOf(Best)
    BY <2>2 DEF IdOf
  <2>4. QED BY <2>1, <2>2, <2>3 DEF Named
<1>10. ASSUME NEW id \in Ids, UNCHANGED <<machine, g_deviceId, devices>>, Derived(id),
              idFaults' = 0 => id = LocalId
       PROVE  Named'
  <2>1. StoreCert(Entries)' = StoreCert(Entries) /\ Best' = Best /\ LocalId' = LocalId
    BY <1>10, SameMachine
  <2>2. IdOf(Best)' = IdOf(Best)
    BY <2>1 DEF IdOf
  <2>3. /\ deviceId' = id /\ (named' = named \/ named' = named \cup {id}) /\ ipc' = "emit"
        /\ UNCHANGED claim
    BY <1>10 DEF Derived
  <2>4. QED BY <1>0, <1>10, <2>1, <2>2, <2>3 DEF Named
<1>11. CASE DeriveLocalDeviceId
  <2>1. PICK c \in Found : /\ ReadEkCertFromWindowsStore(c)
                           /\ IF c # <<>> THEN Derived(IdOf(c))
                              ELSE OnTo("derivePublic") /\ UNCHANGED deviceId
    BY <1>11 DEF DeriveLocalDeviceId
  <2>2. idFaults' = 0 => c = StoreCert(Entries)
    BY <1>0, <2>1 DEF ReadEkCertFromWindowsStore
  <2>3. UNCHANGED <<machine, g_deviceId, devices>>
    BY <1>11 DEF DeriveLocalDeviceId, In
  <2>4. CASE c # <<>>
    <3>1. IdOf(c) \in Ids /\ (idFaults' = 0 => IdOf(c) = LocalId)
      BY <2>2, IdOfContents DEF LocalId
    <3>2. QED BY <1>10, <2>1, <2>3, <2>4, <3>1
  <2>5. CASE c = <<>>
    <3>1. ipc' = "derivePublic" /\ UNCHANGED <<claim, named>>
      BY <2>1, <2>5 DEF OnTo
    <3>2. StoreCert(Entries)' = StoreCert(Entries) /\ Best' = Best /\ LocalId' = LocalId
      BY <2>3, SameMachine
    <3>3. IdOf(Best)' = IdOf(Best)
      BY <3>2 DEF IdOf
    <3>4. QED BY <1>0, <2>2, <2>3, <2>5, <3>1, <3>2, <3>3 DEF Named
  <2>6. QED BY <2>4, <2>5
<1>12. CASE DerivePublic
  <2>1. UNCHANGED <<machine, g_deviceId, devices>> /\ ipc = "derivePublic"
    BY <1>12 DEF DerivePublic, In
  <2>2. CASE NoIdFault /\ Derived(IdOf(<<>>))
    <3>1. idFaults' = 0 => StoreCert(Entries) = <<>>
      BY <1>0, <2>1 DEF Named
    <3>2. IdOf(<<>>) \in Ids /\ (idFaults' = 0 => IdOf(<<>>) = LocalId)
      BY <3>1, IdOfContents DEF LocalId
    <3>3. QED BY <1>10, <2>1, <2>2, <3>2
  <2>3. CASE IdFault /\ Derived(NoId)
    <3>1. idFaults' # 0
      BY <1>0, <2>3
    <3>2. QED BY <1>10, <2>1, <2>3, <3>1, IdOfContents
  <2>4. QED BY <1>12, <2>2, <2>3 DEF DerivePublic
<1>13. CASE EmitAnswer
  <2>1. UNCHANGED <<machine, g_deviceId, devices, named>> /\ ipc = "emit" /\ ipc' = "idle"
    BY <1>13 DEF EmitAnswer, In, Done
  <2>2. StoreCert(Entries)' = StoreCert(Entries) /\ Best' = Best /\ LocalId' = LocalId
    BY <2>1, SameMachine
  <2>3. IdOf(Best)' = IdOf(Best)
    BY <2>2 DEF IdOf
  <2>4. CASE UNCHANGED claim
    BY <1>6, <2>1, <2>4
  <2>5. CASE call = "evidence" /\ claim' = [id |-> deviceId, enrolled |-> devices # {}]
    <3>1. claim'.enrolled => devices # {}
      BY <2>5
    <3>2. claim'.id = deviceId
      BY <2>5
    <3>3. idFaults' = 0 => deviceId \in devices \cup {LocalId}
      BY <1>0, <2>1, <2>5 DEF Named
    <3>4. QED BY <1>0, <2>1, <2>2, <2>3, <3>1, <3>2, <3>3 DEF Named
  <2>6. QED BY <1>13, <2>4, <2>5 DEF EmitAnswer
<1>14. ASSUME NEW id \in devices \cup {NoId}, RootHeraldSetDeviceId(id) PROVE Named'
  <2>1. UNCHANGED <<ipc, call, machine, devices, claim, named, deviceId, bodies, idFaults>> /\ g_deviceId' = id
    BY <1>14 DEF RootHeraldSetDeviceId, callLocals
  <2>2. StoreCert(Entries)' = StoreCert(Entries) /\ Best' = Best /\ LocalId' = LocalId
    BY <2>1, SameMachine
  <2>3. IdOf(Best)' = IdOf(Best)
    BY <2>2 DEF IdOf
  <2>4. QED BY <2>1, <2>2, <2>3 DEF Named
<1>15. CASE UNCHANGED identityVars
  <2>1. UNCHANGED <<ipc, call, machine, g_deviceId, devices, claim, named, deviceId, bodies, idFaults>>
    BY <1>15 DEF identityVars, callLocals
  <2>2. StoreCert(Entries)' = StoreCert(Entries) /\ Best' = Best /\ LocalId' = LocalId
    BY <2>1, SameMachine
  <2>3. IdOf(Best)' = IdOf(Best)
    BY <2>2 DEF IdOf
  <2>4. QED BY <2>1, <2>2, <2>3 DEF Named
<1>16. QED
  BY <1>1, <1>3, <1>4, <1>5, <1>7, <1>8, <1>9, <1>11, <1>12, <1>13, <1>14, <1>15 DEF IdentityNext

-----------------------------------------------------------------------------
\* The invariant of the identity.
LEMMA IdentityInvariant == IdentitySpec => []IdentityInv
<1>1. IdentityInv /\ [IdentityNext]_identityVars => IdentityInv'
  BY IdentityTypeStep, ReceivedStep, SoughtStep, ToSendStep, SentStep, NamedStep DEF IdentityInv
<1>2. QED BY IdentityInitial, <1>1, PTL DEF IdentitySpec

\* The variables of the identity have their type.
THEOREM IdentityTypeCorrect == IdentitySpec => []IdentityTypeOK
<1>1. IdentityInv => IdentityTypeOK BY DEF IdentityInv
<1>2. QED BY <1>1, IdentityInvariant, PTL

\* An enrollment sends the best certificate of this TPM, whole.
THEOREM EkCertAlwaysSent == IdentitySpec => []EkCertSent
<1>1. IdentityInv => EkCertSent BY DEF IdentityInv
<1>2. QED BY <1>1, IdentityInvariant, PTL

\* While nothing fails, every call derives the same id.
THEOREM AlwaysOneLocalId == IdentitySpec => []OneLocalId
<1>1. IdentityInv => OneLocalId BY DEF IdentityInv, Named, OneLocalId
<1>2. QED BY <1>1, IdentityInvariant, PTL

\* Evidence names a device the server knows, if the best certificate is the one
\* in the store of Windows.
THEOREM IdAlwaysKnownIfInStore == IdentitySpec => []IdKnownIfInStore
<1>1. IdentityInv => IdKnownIfInStore
  <2> SUFFICES ASSUME IdentityInv, idFaults = 0, claim.enrolled, Best = StoreCert(Entries)
               PROVE  claim.id \in devices
    BY DEF IdKnownIfInStore
  <2>1. devices # {} /\ devices \subseteq {IdOf(Best)} /\ claim.id \in devices \cup {LocalId}
    BY DEF IdentityInv, Named
  <2>2. LocalId = IdOf(Best)
    BY DEF LocalId
  <2>3. QED BY <2>1, <2>2
<1>2. QED BY <1>1, IdentityInvariant, PTL
=============================================================================
