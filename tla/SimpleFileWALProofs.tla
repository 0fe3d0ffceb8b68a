------------------------ MODULE SimpleFileWALProofs -------------------------
(***************************************************************************)
(* Proofs about SimpleFileWAL, for any set of records of any lengths.      *)
(***************************************************************************)
EXTENDS SimpleFileWAL, TLAPS

\* What holds between the system calls of Write: the record is one whose Write
\* began, Truncate has left nothing, and Sync comes when all bytes are there.
Phase ==
    /\ pc # "idle" => open /\ rec \in since /\ read = <<>>
    /\ pc = "write" => file = <<>>
    /\ pc = "sync" => file = Whole(rec)

IndInv == TypeOK /\ Phase /\ AckedIsDurable /\ NeverMixed

-----------------------------------------------------------------------------

\* Contents that are fine for some records are fine for more of them.
LEMMA TornGrows == ASSUME NEW R, NEW S, R \subseteq S PROVE Torn(R) \subseteq Torn(S)
  BY DEF Torn

LEMMA TornHasBytes ==
  ASSUME NEW R \in SUBSET Records, NEW r \in R, NEW n \in 0..Size[r]
  PROVE  <<>> \in Torn(R) /\ Bytes(r, n) \in Torn(R)
  BY DEF Torn

\* Writing to an empty file leaves just the bytes written.
LEMMA AppendToEmpty == ASSUME NEW r, NEW n PROVE <<>> \o Bytes(r, n) = Bytes(r, n)
  <1>1. CASE n = 0
    BY <1>1 DEF Bytes
  <1>2. CASE n # 0
    <2> DEFINE piece == [rec |-> r, n |-> n]
    <2>1. <<>> \in Seq({piece}) /\ <<piece>> \in Seq({piece})
      OBVIOUS
    <2>2. <<>> \o <<piece>> = <<piece>>
      <3> HIDE DEF piece
      <3> QED BY <2>1
    <2> QED BY <1>2, <2>2 DEF Bytes
  <1> QED BY <1>1, <1>2

-----------------------------------------------------------------------------
(* The invariant is inductive *)

LEMMA WalInit == Init => IndInv
  <1> SUFFICES ASSUME Init PROVE IndInv
    OBVIOUS
  <1>1. TypeOK /\ Phase
    BY RecordAssumption DEF Init, TypeOK, Phase
  <1>2. AckedIsDurable
    BY DEF Init, AckedIsDurable
  <1>3. NeverMixed
    BY DEF Init, NeverMixed, Torn
  <1> QED BY <1>1, <1>2, <1>3 DEF IndInv

\* A Write begins: nothing has changed yet, but the old record is no longer owed.
LEMMA SeekKeeps == ASSUME IndInv, NEW r \in Records, WriteSeek(r) PROVE IndInv'
  <1> USE DEF IndInv
  <1>1. TypeOK'
    BY DEF TypeOK, WriteSeek
  <1>2. Phase'
    BY DEF Phase, WriteSeek
  <1>3. AckedIsDurable'
    BY DEF AckedIsDurable, WriteSeek
  <1>4. NeverMixed'
    BY TornGrows DEF NeverMixed, WriteSeek, Whole, Bytes, Torn
  <1> QED BY <1>1, <1>2, <1>3, <1>4

LEMMA TruncateKeeps == ASSUME IndInv, WriteTruncate PROVE IndInv'
  <1> USE DEF IndInv
  <1>1. TypeOK'
    BY DEF TypeOK, WriteTruncate, Changed
  <1>2. Phase'
    BY DEF Phase, WriteTruncate, Changed
  <1>3. AckedIsDurable'
    BY DEF Phase, AckedIsDurable, WriteTruncate
  <1>4. NeverMixed'
    BY DEF NeverMixed, WriteTruncate, Changed, Torn, Whole
  <1> QED BY <1>1, <1>2, <1>3, <1>4

LEMMA BytesKeep == ASSUME IndInv, NEW n \in Nat, WriteBytes(n) PROVE IndInv'
  <1> USE DEF IndInv
  <1>1. rec \in since /\ since \subseteq Records /\ file = <<>> /\ read = <<>>
    BY DEF TypeOK, Phase, WriteBytes
  <1>2. Size[rec] \in Nat /\ n \in 0..Size[rec]
    BY <1>1, RecordAssumption DEF WriteBytes
  <1>3. file' = Bytes(rec, n) /\ disk' = disk \cup {Bytes(rec, k) : k \in 0..n}
    BY <1>1, AppendToEmpty DEF WriteBytes
  <1>4. TypeOK'
    BY <1>2, <1>3 DEF TypeOK, WriteBytes
  <1>5. Phase'
    BY <1>1, <1>2, <1>3 DEF Phase, WriteBytes, Whole
  <1>6. AckedIsDurable'
    BY <1>1 DEF AckedIsDurable, WriteBytes
  <1>7. \A k \in 0..n : Bytes(rec, k) \in Torn(since)
    BY <1>1, <1>2, TornHasBytes
  <1>8. NeverMixed'
    BY <1>3, <1>7 DEF NeverMixed, WriteBytes, Whole
  <1> QED BY <1>4, <1>5, <1>6, <1>8

LEMMA SyncKeeps == ASSUME IndInv, WriteSync PROVE IndInv'
  <1> USE DEF IndInv
  <1>1. rec \in Records /\ file = Whole(rec) /\ read = <<>> /\ rec # NoRecord
    BY RecordAssumption DEF TypeOK, Phase, WriteSync
  <1>2. TypeOK'
    BY <1>1 DEF TypeOK, WriteSync
  <1>3. Phase'
    BY DEF Phase, WriteSync
  <1>4. AckedIsDurable'
    BY <1>1 DEF AckedIsDurable, WriteSync, Whole
  <1>5. NeverMixed'
    BY <1>1 DEF NeverMixed, WriteSync, Whole
  <1> QED BY <1>2, <1>3, <1>4, <1>5

\* A crash leaves one of the contents that were possible; the others are gone.
LEMMA CrashKeeps == ASSUME IndInv, NEW c \in disk, Crash(c) PROVE IndInv'
  <1> USE DEF IndInv
  <1>1. TypeOK'
    BY DEF TypeOK, Crash
  <1>2. Phase'
    BY DEF Phase, Crash
  <1>3. AckedIsDurable'
    BY DEF AckedIsDurable, Crash, Whole
  <1>4. NeverMixed'
    BY DEF NeverMixed, Crash, Whole
  <1> QED BY <1>1, <1>2, <1>3, <1>4

\* The steps that leave the file alone.
LEMMA OthersKeep ==
  ASSUME IndInv, NewSimpleFileWAL \/ WriteFails \/ Read \/ Close \/ UNCHANGED vars
  PROVE  IndInv'
  <1> USE DEF IndInv
  <1> UNCHANGED <<file, disk, acked, since>>
    BY DEF NewSimpleFileWAL, WriteFails, Read, Close, vars
  <1>1. TypeOK'
    BY DEF TypeOK, NewSimpleFileWAL, WriteFails, Read, Close, vars
  <1>2. Phase'
    BY DEF Phase, NewSimpleFileWAL, WriteFails, Read, Close, vars
  <1>3. AckedIsDurable'
    BY DEF AckedIsDurable, Whole, NewSimpleFileWAL, WriteFails, Read, Close, vars
  <1>4. NeverMixed'
    BY DEF NeverMixed, Whole
  <1> QED BY <1>1, <1>2, <1>3, <1>4

LEMMA WalNext == IndInv /\ [Next]_vars => IndInv'
  <1> SUFFICES ASSUME IndInv, [Next]_vars PROVE IndInv'
    OBVIOUS
  <1>1. CASE \E r \in Records : WriteSeek(r)
    BY <1>1, SeekKeeps
  <1>2. CASE WriteTruncate
    BY <1>2, TruncateKeeps
  <1>3. CASE \E n \in 0..(IF rec = NoRecord THEN 0 ELSE Size[rec]) : WriteBytes(n)
    <2>1. PICK n \in 0..(IF rec = NoRecord THEN 0 ELSE Size[rec]) : WriteBytes(n)
      BY <1>3
    <2>2. n \in Nat
      OBVIOUS
    <2> QED BY <2>1, <2>2, BytesKeep
  <1>4. CASE WriteSync
    BY <1>4, SyncKeeps
  <1>5. CASE \E c \in disk : Crash(c)
    BY <1>5, CrashKeeps
  <1>6. CASE NewSimpleFileWAL \/ WriteFails \/ Read \/ Close \/ UNCHANGED vars
    BY <1>6, OthersKeep
  <1> QED BY <1>1, <1>2, <1>3, <1>4, <1>5, <1>6 DEF Next

LEMMA WalInvariant == Spec => []IndInv
  <1>1. Init => IndInv
    BY WalInit
  <1>2. IndInv /\ [Next]_vars => IndInv'
    BY WalNext
  <1> QED BY <1>1, <1>2, PTL DEF Spec

-----------------------------------------------------------------------------
(* Theorems *)

\* A record that Write acknowledged is what Read returns and what any crash
\* leaves, until the next Write begins.
THEOREM WalDurable == Spec => []AckedIsDurable
  <1>1. IndInv => AckedIsDurable
    BY DEF IndInv
  <1> QED BY <1>1, WalInvariant, PTL

\* Whatever fails, the log is a beginning of one record and never a mix of two.
THEOREM WalNeverMixed == Spec => []NeverMixed
  <1>1. IndInv => NeverMixed
    BY DEF IndInv
  <1> QED BY <1>1, WalInvariant, PTL
=============================================================================
