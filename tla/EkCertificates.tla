--------------------------- MODULE EkCertificates ---------------------------
(***************************************************************************)
(* The EK certificate chain of an enrollment: GatherEkEnrollData           *)
(* (rootherald_win.cpp) over ReadIntelOdcaIntermediates and                *)
(* ReadNvCertificate (tpm_commands.cpp) and the intermediates Windows      *)
(* caches (win_cert_store_intermediates.cpp).                              *)
(*                                                                         *)
(* A certificate is a name with a size; its bytes are <<name, 1>>,         *)
(* <<name, 2>>, ...  Offsets are 16 bits wide in the code, modulo Width    *)
(* here.                                                                   *)
(***************************************************************************)
EXTENDS Naturals, Sequences, FiniteSets

CONSTANTS
  Certs, CertSize,     \* certificates, and how many bytes each has
  CaCerts,             \* those that decode as certificates of an authority
  NumIndices,          \* NV indices of the on-die CA chain (16 in the code)
  kChunk,              \* bytes one TPM2_NV_Read asks for (1024)
  kMaxIntermediates,   \* certificates sent (8)
  Width,               \* 2^16
  MaxStore,            \* bound: certificates in the store of Windows
  MaxNvFaults          \* bound: failed TPM commands and hashes

NoCert == "none"

ASSUME CertConstants ==
  /\ NumIndices \in Nat /\ kChunk \in Nat \ {0} /\ kMaxIntermediates \in Nat
  /\ CaCerts \subseteq Certs /\ NoCert \notin Certs
  /\ Width \in Nat \ {0} /\ CertSize \in [Certs -> 0..(Width - 1)]
  /\ MaxStore \in Nat /\ MaxNvFaults \in Nat

VARIABLES
  epc,            \* where the call is, "idle" outside
  nv,             \* TPM: the certificate at each NV index, or NoCert
  store,          \* registry: the intermediates Windows has cached
  index,          \* the NV index, then the registry entry being read
  readOffset,
  outCert,        \* bytes read so far
  intermediates,  \* the chain: certificates, as sequences of bytes
  seen,           \* certificates whose SHA-256 is known
  winStore,       \* the usable certificates of store read so far
  nvFaults

nvData   == <<nv, store>>
certVars == <<epc, nvData, index, readOffset, outCert, intermediates, seen,
              winStore, nvFaults>>

Whole(c) == [i \in 1..CertSize[c] |-> <<c, i>>]

\* The size that TPM2_NV_ReadPublic reports: 0, like an undefined index, ends
\* the read.
dataSize == IF nv[index] = NoCert THEN 0 ELSE CertSize[nv[index]]

CertInit ==
  /\ epc = "idle"
  /\ nv = [i \in 1..NumIndices |-> NoCert] /\ store = <<>>
  /\ index = 1 /\ readOffset = 0 /\ outCert = <<>>
  /\ intermediates = <<>> /\ seen = {} /\ winStore = <<>>
  /\ nvFaults = 0

NvFault   == nvFaults < MaxNvFaults /\ nvFaults' = nvFaults + 1
NoNvFault == UNCHANGED nvFaults

\* The machine the call finds: what its vendor and Windows have provisioned.
Provisioned ==
  /\ epc = "idle"
  /\ nv' \in [1..NumIndices -> Certs \cup {NoCert}]
  /\ \E n \in 0..MaxStore : store' \in [1..n -> Certs]
  /\ epc' = "open"
  /\ UNCHANGED <<index, readOffset, outCert, intermediates, seen, winStore, nvFaults>>

\* tpm.Open(): without the TPM the cached intermediates are not read either.
OpenTpm ==
  /\ epc = "open"
  /\ \/ NoNvFault /\ epc' = "public"
     \/ NvFault /\ epc' = "done"
  /\ UNCHANGED <<nvData, index, readOffset, outCert, intermediates, seen, winStore>>

\* Mutant: the certificate left over from the index before is not cleared.
NextIndex_Dirty ==
  /\ index' = index + 1 /\ readOffset' = 0 /\ UNCHANGED outCert
  /\ epc' = "public"

\* The loop over the indices goes on; cert is a local of its body.
NextIndex ==
  /\ index' = index + 1 /\ readOffset' = 0 /\ outCert' = <<>>
  /\ epc' = "public"

\* TPM2_NV_ReadPublic.
NvReadPublic ==
  /\ epc = "public" /\ index <= NumIndices
  /\ \/ NoNvFault /\ dataSize > 0 /\ epc' = "read" /\ UNCHANGED <<index, readOffset, outCert>>
     \/ NoNvFault /\ dataSize = 0 /\ NextIndex
     \/ NvFault /\ NextIndex
  /\ UNCHANGED <<nvData, intermediates, seen, winStore>>

Min2(a, b) == IF a < b THEN a ELSE b
want == Min2(kChunk, dataSize - readOffset)

\* Mutant: the offset advances by what was asked for.
NvRead_Want ==
  /\ epc = "read" /\ readOffset < dataSize /\ NoNvFault
  /\ \E got \in 1..want :
       /\ outCert' = outCert \o SubSeq(Whole(nv[index]), readOffset + 1, readOffset + got)
       /\ readOffset' = (readOffset + want) % Width
  /\ UNCHANGED <<epc, nvData, index, intermediates, seen, winStore>>

\* Mutant: an empty answer makes the read start again.
NvRead_Restarts ==
  /\ epc = "read" /\ readOffset < dataSize
  /\ \/ /\ NoNvFault
        /\ \E got \in 1..want :
             /\ outCert' = outCert \o
                  SubSeq(Whole(nv[index]), readOffset + 1, readOffset + got)
             /\ readOffset' = (readOffset + got) % Width
        /\ UNCHANGED <<epc, index>>
     \/ NvFault /\ NextIndex
     \/ NoNvFault /\ readOffset' = 0 /\ outCert' = <<>> /\ UNCHANGED <<epc, index>>
  /\ UNCHANGED <<nvData, intermediates, seen, winStore>>

\* TPM2_NV_Read returns what was asked for or less; an error, an empty answer or
\* one that is too short ends the read of this index.  The code would also take an
\* answer longer than asked, which no TPM gives: Part 3 of its specification has
\* TPM2_NV_Read return the size of the request.
NvRead ==
  /\ epc = "read" /\ readOffset < dataSize
  /\ \/ /\ NoNvFault
        /\ \E got \in 1..want :
             /\ outCert' = outCert \o
                  SubSeq(Whole(nv[index]), readOffset + 1, readOffset + got)
             /\ readOffset' = (readOffset + got) % Width
        /\ UNCHANGED <<epc, index>>
     \/ NvFault /\ NextIndex
  /\ UNCHANGED <<nvData, intermediates, seen, winStore>>

NvCertRead ==
  /\ epc = "read" /\ readOffset >= dataSize
  /\ intermediates' = Append(intermediates, outCert)
  /\ NextIndex
  /\ UNCHANGED <<nvData, seen, winStore, nvFaults>>

-----------------------------------------------------------------------------
(* The merge of the intermediates that Windows has cached. *)

Members(s) == {s[i] : i \in 1..Len(s)}

\* The fingerprints of the chain so far; one of a failed hash is left out.
HashChain ==
  /\ epc = "public" /\ index > NumIndices
  /\ \/ NoNvFault /\ seen' = Members(intermediates)
     \/ /\ NvFault
        /\ \E j \in 1..Len(intermediates) :
             seen' = {intermediates[i] : i \in (1..Len(intermediates)) \ {j}}
  /\ epc' = "store" /\ index' = 1
  /\ UNCHANGED <<nvData, readOffset, outCert, intermediates, winStore>>

\* One registry entry after the other: one that cannot be read, or is no
\* certificate of an authority, is stepped over; a key that cannot be opened has
\* no entries.
ReadStore ==
  /\ epc = "store"
  /\ \/ /\ index <= Len(store)
        /\ \/ /\ NoNvFault
              /\ winStore' = IF store[index] \in CaCerts THEN Append(winStore, store[index])
                            ELSE winStore
           \/ NvFault /\ UNCHANGED winStore
        /\ index' = index + 1 /\ UNCHANGED epc
     \/ /\ \/ NoNvFault /\ index > Len(store)
           \/ NvFault /\ index = 1
        /\ index' = 1 /\ epc' = "merge" /\ UNCHANGED winStore
  /\ UNCHANGED <<nvData, readOffset, outCert, intermediates, seen>>

Merging == epc = "merge" /\ index <= Len(winStore) /\ Len(intermediates) < kMaxIntermediates

\* Mutant: what is merged is not remembered.
MergeCert_Forgets ==
  /\ Merging /\ NoNvFault
  /\ intermediates' = IF Whole(winStore[index]) \in seen THEN intermediates
                      ELSE Append(intermediates, Whole(winStore[index]))
  /\ index' = index + 1
  /\ UNCHANGED <<epc, nvData, readOffset, outCert, seen, winStore>>

\* A certificate with a known fingerprint is skipped; one that cannot be hashed
\* is a duplicate of nothing, and leaves no fingerprint.
MergeCert ==
  /\ Merging
  /\ LET cert == Whole(winStore[index])
     IN  \/ NoNvFault /\ cert \in seen /\ UNCHANGED <<intermediates, seen>>
         \/ /\ NoNvFault /\ cert \notin seen
            /\ intermediates' = Append(intermediates, cert) /\ seen' = seen \cup {cert}
         \/ NvFault /\ intermediates' = Append(intermediates, cert) /\ UNCHANGED seen
  /\ index' = index + 1
  /\ UNCHANGED <<epc, nvData, readOffset, outCert, winStore>>

\* Mutant: the chain is cut to one more.
CutChain_OffByOne ==
  /\ epc = "merge" /\ ~Merging
  /\ intermediates' = SubSeq(intermediates, 1, Min2(Len(intermediates), kMaxIntermediates + 1))
  /\ epc' = "done"
  /\ UNCHANGED <<nvData, index, readOffset, outCert, seen, winStore, nvFaults>>

\* intermediates.resize(kMaxIntermediates)
CutChain ==
  /\ epc = "merge" /\ ~Merging
  /\ intermediates' = SubSeq(intermediates, 1, Min2(Len(intermediates), kMaxIntermediates))
  /\ epc' = "done"
  /\ UNCHANGED <<nvData, index, readOffset, outCert, seen, winStore, nvFaults>>

\* The chain goes into the request body.  Its variables were local to the call,
\* and the next call may find another machine.
ChainSent ==
  /\ epc = "done" /\ epc' = "idle"
  /\ nv' = [i \in 1..NumIndices |-> NoCert] /\ store' = <<>>
  /\ index' = 1 /\ readOffset' = 0 /\ outCert' = <<>>
  /\ intermediates' = <<>> /\ seen' = {} /\ winStore' = <<>> /\ nvFaults' = 0

CertStep ==
  \/ OpenTpm \/ NvReadPublic \/ NvRead \/ NvCertRead
  \/ HashChain \/ ReadStore \/ MergeCert \/ CutChain \/ ChainSent

CertNext == Provisioned \/ CertStep

CertSpec == CertInit /\ [][CertNext]_certVars

-----------------------------------------------------------------------------
\* Every byte string of the chain, and every prefix that is being read.
Prefix(c, n) == SubSeq(Whole(c), 1, n)

\* The type of the variables, and what the read of an index holds at each step:
\* the bytes up to readOffset, which has not wrapped.
CertTypeOK ==
  /\ epc \in {"idle", "open", "public", "read", "store", "merge", "done"}
  /\ nv \in [1..NumIndices -> Certs \cup {NoCert}]
  /\ index \in Nat /\ nvFaults \in 0..MaxNvFaults
  /\ readOffset \in 0..(Width - 1)
  /\ epc = "read" => /\ index \in 1..NumIndices /\ nv[index] # NoCert
                     /\ readOffset <= dataSize
                     /\ outCert = Prefix(nv[index], readOffset)

\* Whatever sizes the TPM answers with, and whatever fails, the chain holds
\* whole certificates of the TPM or of authorities Windows has cached: none has
\* a gap, an overlap or a missing end, none is left over from another index.
ChainWhole ==
  \A i \in 1..Len(intermediates) :
    \E c \in Certs :
      /\ intermediates[i] = Whole(c)
      /\ (\E k \in 1..NumIndices : nv[k] = c) \/ c \in Members(store) \cap CaCerts

\* The chain has kMaxIntermediates certificates at most.  If nothing failed, it
\* leaves one out only because it is full.
ChainComplete ==
  epc = "done" =>
    /\ Len(intermediates) <= kMaxIntermediates
    /\ nvFaults = 0 /\ Len(intermediates) < kMaxIntermediates =>
         \A c \in Certs : CertSize[c] > 0 =>
           /\ (\E i \in 1..NumIndices : nv[i] = c) => Whole(c) \in Members(intermediates)
           /\ c \in Members(store) \cap CaCerts => Whole(c) \in Members(intermediates)

\* The NV indices that hold a certificate.
OnDie == {k \in 1..NumIndices : nv[k] # NoCert /\ CertSize[nv[k]] > 0}

\* The merge appends no certificate that the chain has already, be it from the TPM
\* or from the store, unless a hash failed: a repetition is at a place that only
\* the read of the TPM has filled.
MergeAddsNoDuplicate ==
  nvFaults = 0 =>
    \A i, j \in 1..Len(intermediates) :
      i < j /\ intermediates[i] = intermediates[j] => j <= Cardinality(OnDie)

\* The gathering ends, if the TPM answers: each chunk makes progress.
GatheringEnds == epc # "idle" ~> epc = "idle"

-----------------------------------------------------------------------------
(* What a comment says, and the code does not do. *)

\* protocol.h, of the chain in the request: "Entries are deduplicated by client
\* (SHA-256 of DER)", also those of the TPM.
ChainDeduplicated ==
  epc = "done" => \A i, j \in 1..Len(intermediates) :
                    i # j => intermediates[i] # intermediates[j]
=============================================================================
