-------------------------- MODULE FileStoreProofs --------------------------
(***************************************************************************)
(* Proofs about FileStore for every set of events, every batch and every   *)
(* backup limit: the in-memory log is the file's between mutations, a      *)
(* power loss never leaves a log that cannot be loaded, an acknowledged    *)
(* log survives, and a mutation's result tells whether it committed.       *)
(***************************************************************************)
EXTENDS FileStore, TLAPS

\* Appending a batch that MemoryStore.AppendBatch accepts to a chain gives a
\* chain that has the old log as a prefix.
LEMMA AppendKeepsChain ==
    ASSUME NEW s \in Seq(Event), NEW events \in Seq(Event),
           IsChain(s), CanAppend(s, events)
    PROVE  /\ s \o events \in Seq(Event)
           /\ IsChain(s \o events)
           /\ IsPrefixOf(s, s \o events)
  <1> DEFINE new == s \o events
  <1>1. /\ new \in Seq(Event) /\ Len(new) = Len(s) + Len(events)
        /\ \A k \in 1 .. Len(s) : new[k] = s[k]
    OBVIOUS
  <1>2. ASSUME NEW k \in 1 .. Len(new) PROVE Links(new, k)
    <2>1. CASE k \in 1 .. Len(s)
      <3>1. Links(s, k)
        BY <2>1 DEF IsChain
      <3>2. new[k] = s[k] /\ (k # 1 => new[k - 1] = s[k - 1])
        BY <1>1, <2>1
      <3> QED
        BY <3>1, <3>2 DEF Links, PrevHash
    <2>2. CASE k \in Len(s) + 1 .. Len(s) + Len(events)
      BY <2>2 DEF CanAppend
    <2> QED
      BY <1>1, <2>1, <2>2
  <1> QED
    BY <1>1, <1>2 DEF IsChain, IsPrefixOf

\* Being a prefix is transitive.
LEMMA PrefixTransitive ==
    ASSUME NEW r \in Seq(Event), NEW s \in Seq(Event), NEW t \in Seq(Event),
           IsPrefixOf(r, s), IsPrefixOf(s, t)
    PROVE  IsPrefixOf(r, t)
  BY DEF IsPrefixOf

\* Every log is a prefix of itself.
LEMMA PrefixReflexive ==
    ASSUME NEW s \in Seq(Event) PROVE IsPrefixOf(s, s)
  BY DEF IsPrefixOf

\* While a mutation writes, the log is still the old one; once the log itself
\* is renamed it is the new one.
Written == pc = "syncdir" /\ op.target = "log"

MutationInv ==
    /\ ~up => pc = "idle"
    /\ up /\ pc = "idle" => memory = file
    /\ pc # "idle" => /\ op.old = memory
                      /\ op.kind \in {"append", "replace"}
                      /\ IsChain(op.next)
                      /\ op.kind = "append" => IsPrefixOf(op.old, op.next) /\ op.target = "log"
                      /\ file = IF Written THEN op.next ELSE op.old
    /\ pc = "rename" => op.synced

DiskInv ==
    /\ file \in disk
    /\ \A content \in disk : content \in Seq(Event) /\ IsChain(content)

AckInv ==
    /\ acked # Nothing => \A content \in disk : IsPrefixOf(acked, content)
    /\ acked # Nothing /\ Written => op.kind = "append"

\* The inductive invariant.
IInv == TypeOK /\ MutationInv /\ DiskInv /\ AckInv

-----------------------------------------------------------------------------
\* Backups keep their type when a directory sync makes them durable.
LEMMA AllDurableType ==
    ASSUME NEW bs \in SUBSET BackupRec PROVE AllDurable(bs) \in SUBSET BackupRec
  BY Zenon DEF AllDurable, BackupRec

\* The idle operation record is one of its type.
LEMMA NoOpType == NoOp \in OpRec /\ <<>> \in Seq(Event)
  BY StoreAssumption DEF NoOp, OpRec, Content

\* A store opened on a missing file satisfies the invariant.
LEMMA InitInv == Init => IInv
  <1> SUFFICES ASSUME Init PROVE IInv
    OBVIOUS
  <1>1. <<>> \in Seq(Event) /\ IsChain(<<>>)
    BY DEF IsChain
  <1>2. TypeOK
    BY <1>1, NoOpType DEF Init, TypeOK, Content
  <1>3. MutationInv /\ DiskInv /\ AckInv
    BY <1>1 DEF Init, MutationInv, DiskInv, AckInv, Written
  <1> QED
    BY <1>2, <1>3 DEF IInv

-----------------------------------------------------------------------------
\* What the mutation's two entry points establish.
LEMMA BeginInv ==
    ASSUME IInv, NEW STATE accepted, NEW STATE first, accepted \in BOOLEAN, Begin(accepted, first),
           accepted => /\ first \in OpRec /\ first.kind # "none" /\ first.old = file
                       /\ IsChain(first.next)
                       /\ first.kind = "append" =>
                             IsPrefixOf(first.old, first.next) /\ first.target = "log"
    PROVE  IInv'
  <1>1. TypeOK'
    BY NoOpType DEF IInv, TypeOK, Begin, Return, diskVars
  <1>2. MutationInv'
    BY DEF IInv, TypeOK, OpRec, MutationInv, Begin, Return, Written, diskVars
  <1>3. DiskInv' /\ AckInv'
    BY DEF IInv, DiskInv, AckInv, Begin, Return, Written, diskVars
  <1> QED
    BY <1>1, <1>2, <1>3 DEF IInv

\* Every step of a mutation, every failure and every crash keeps it.
LEMMA NextInv == IInv /\ [Next]_vars => IInv'
  <1> SUFFICES ASSUME IInv, [Next]_vars PROVE IInv'
    OBVIOUS
  <1> USE DEF diskVars
  <1>1. CASE UNCHANGED vars
    BY <1>1 DEF vars, IInv, TypeOK, OpRec, MutationInv, DiskInv, AckInv, Written
  <1>2. ASSUME NEW events \in Batches, AppendBatch(events) PROVE IInv'
    <2> DEFINE first == Writing("append", memory \o events, "log")
    <2>1. events \in Seq(Event) /\ memory \in Seq(Event) /\ memory = file /\ IsChain(memory)
      BY <1>2, StoreAssumption DEF AppendBatch, Begin, IInv, TypeOK, OpRec, MutationInv, DiskInv
    <2>2. CanAppend(memory, events) =>
             /\ memory \o events \in Seq(Event) /\ IsChain(memory \o events)
             /\ IsPrefixOf(memory, memory \o events)
      BY <2>1, AppendKeepsChain
    <2>3. Begin(CanAppend(memory, events), first)
      BY <1>2 DEF AppendBatch
    <2>4. CanAppend(memory, events) \in BOOLEAN
      BY DEF CanAppend
    <2>5. CanAppend(memory, events) =>
             /\ first \in OpRec /\ first.kind # "none" /\ first.old = file
             /\ IsChain(first.next)
             /\ first.kind = "append" => IsPrefixOf(first.old, first.next) /\ first.target = "log"
      <3>1. file \in Content /\ 0 \in 0 .. MaxBackups
        BY StoreAssumption DEF IInv, TypeOK
      <3> QED
        BY <2>1, <2>2, <3>1 DEF OpRec, Writing
    <2> HIDE DEF first
    <2> QED
      BY <2>3, <2>4, <2>5, BeginInv
  <1>3. ASSUME NEW events \in Batches, ReplaceAll(events) PROVE IInv'
    <2> DEFINE first == Writing("replace", events, IF file = <<>> THEN "log" ELSE "backup")
    <2>1. events \in Seq(Event)
      BY StoreAssumption
    <2>2. Begin(IsChain(events), first)
      BY <1>3 DEF ReplaceAll
    <2>3. IsChain(events) \in BOOLEAN
      BY DEF IsChain
    <2>4. IsChain(events) =>
             /\ first \in OpRec /\ first.kind # "none" /\ first.old = file
             /\ IsChain(first.next)
             /\ first.kind = "append" => IsPrefixOf(first.old, first.next) /\ first.target = "log"
      <3>1. file \in Content /\ 0 \in 0 .. MaxBackups
        BY StoreAssumption DEF IInv, TypeOK
      <3> QED
        BY <2>1, <3>1 DEF OpRec, Writing
    <2> HIDE DEF first
    <2> QED
      BY <2>2, <2>3, <2>4, BeginInv
  <1>4. CASE WriteTemp
    BY <1>4, Zenon DEF WriteTemp, IInv, TypeOK, OpRec, MutationInv, DiskInv, AckInv, Written
  <1>5. CASE SyncTemp
    BY <1>5, Zenon DEF SyncTemp, IInv, TypeOK, OpRec, MutationInv, DiskInv, AckInv, Written
  <1>6. CASE Rename
    <2>1. CASE op.target = "log"
      <3>1. /\ file' = op.next /\ disk' = disk \union {op.next} /\ pc' = "syncdir"
            /\ acked' = IF op.kind = "replace" THEN Nothing ELSE acked
            /\ UNCHANGED <<backups, op, up, memory, res>>
        BY <1>6, <2>1 DEF Rename, IInv, MutationInv
      <3>2. /\ op.next \in Seq(Event) /\ IsChain(op.next) /\ op.old = file /\ file \in disk
            /\ file \in Seq(Event) /\ op.kind \in {"append", "replace"}
            /\ op.kind = "append" => IsPrefixOf(file, op.next)
        BY <1>6, <2>1 DEF Rename, IInv, TypeOK, OpRec, MutationInv, DiskInv, Written
      <3>3. TypeOK'
        BY <3>1, <3>2 DEF IInv, TypeOK, Content
      <3>4. MutationInv'
        BY <1>6, <2>1, <3>1 DEF Rename, IInv, MutationInv, Written
      <3>5. DiskInv'
        BY <3>1, <3>2 DEF IInv, DiskInv
      <3>6. AckInv'
        <4>1. CASE op.kind = "replace"
          BY <3>1, <4>1 DEF AckInv, Written
        <4>2. CASE op.kind = "append" /\ acked # Nothing
          <5>1. acked \in Seq(Event) /\ IsPrefixOf(acked, file)
            BY <3>2, <4>2 DEF IInv, TypeOK, AckInv
          <5>2. IsPrefixOf(acked, op.next)
            BY <3>2, <4>2, <5>1, PrefixTransitive
          <5> QED
            BY <3>1, <4>2, <5>2 DEF IInv, AckInv, Written
        <4>3. CASE op.kind = "append" /\ acked = Nothing
          BY <3>1, <4>3 DEF AckInv
        <4> QED
          BY <3>2, <4>1, <4>2, <4>3
      <3> QED
        BY <3>3, <3>4, <3>5, <3>6 DEF IInv
    <2>2. CASE op.target = "backup"
      <3>1. PICK now \in 1 .. MaxBackups :
               /\ backups' = backups \union {[at |-> now, data |-> file, durable |-> FALSE]}
               /\ op' = [op EXCEPT !.backup = now]
        BY <1>6, <2>2 DEF Rename
      <3>2. UNCHANGED <<file, disk, acked, up, memory, res>> /\ pc = "rename" /\ pc' = "syncdir"
        BY <1>6, <2>2 DEF Rename
      <3>3. TypeOK'
        <4>1. op' \in OpRec
          <5>1. op \in OpRec /\ now \in 0 .. MaxBackups
            BY StoreAssumption DEF IInv, TypeOK
          <5> QED
            BY <3>1, <5>1 DEF OpRec
        <4>2. backups' \in SUBSET BackupRec
          <5>1. file \in Content /\ backups \in SUBSET BackupRec
            BY DEF IInv, TypeOK
          <5>2. [at |-> now, data |-> file, durable |-> FALSE] \in BackupRec
            BY <5>1 DEF BackupRec
          <5> QED
            BY <3>1, <5>1, <5>2, Zenon
        <4> QED
          BY <3>2, <4>1, <4>2 DEF IInv, TypeOK
      <3>4. MutationInv'
        BY <2>2, <3>1, <3>2 DEF IInv, TypeOK, OpRec, MutationInv, Written
      <3>5. DiskInv' /\ AckInv'
        BY <2>2, <3>1, <3>2 DEF IInv, TypeOK, DiskInv, AckInv, Written
      <3> QED
        BY <3>3, <3>4, <3>5 DEF IInv
    <2> QED
      BY <2>1, <2>2 DEF IInv, TypeOK, OpRec
  <1>7. CASE SyncDir
    <2>0. pc = "syncdir" /\ up /\ UNCHANGED <<up, file>> /\ disk' = {file}
      BY <1>7 DEF SyncDir
    <2>1. CASE op.target = "log"
      <3>1. /\ memory' = op.next /\ backups' = AllDurable(backups) /\ acked' = op.next
            /\ pc' = "idle" /\ op' = NoOp /\ res' = "ok"
        BY <1>7, <2>1 DEF SyncDir, Return
      <3>2. file = op.next /\ op.next \in Seq(Event) /\ IsChain(op.next)
        BY <2>0, <2>1 DEF IInv, TypeOK, OpRec, MutationInv, Written
      <3>3. TypeOK'
        BY <2>0, <3>1, <3>2, AllDurableType, NoOpType DEF IInv, TypeOK, Content
      <3>4. MutationInv'
        BY <2>0, <3>1, <3>2 DEF MutationInv
      <3>5. DiskInv' /\ AckInv'
        BY <2>0, <3>1, <3>2, PrefixReflexive DEF DiskInv, AckInv, Written
      <3> QED
        BY <3>3, <3>4, <3>5 DEF IInv
    <2>2. CASE op.target = "backup"
      <3>1. /\ backups' = AllDurable(Without(Excess)) /\ pc' = "write"
            /\ op' = [op EXCEPT !.target = "log"] /\ UNCHANGED <<memory, acked, res>>
        BY <1>7, <2>2 DEF SyncDir
      <3>2. Without(Excess) \subseteq backups
        BY DEF Without
      <3>3. TypeOK'
        <4>1. backups' \in SUBSET BackupRec
          BY <3>1, <3>2, AllDurableType DEF IInv, TypeOK, OpRec
        <4>2. op' \in OpRec
          BY <3>1 DEF IInv, TypeOK, OpRec
        <4> QED
          BY <2>0, <3>1, <4>1, <4>2 DEF IInv, TypeOK, Content
      <3>4. MutationInv'
        BY <2>0, <2>2, <3>1 DEF IInv, TypeOK, OpRec, MutationInv, Written
      <3>5. DiskInv' /\ AckInv'
        BY <2>0, <3>1 DEF IInv, DiskInv, AckInv, Written
      <3> QED
        BY <3>3, <3>4, <3>5 DEF IInv
    <2> QED
      BY <2>1, <2>2 DEF IInv, TypeOK, OpRec
  <1>8. CASE SyncDirFails
    <2>1. TypeOK'
      <3>1. op.next \in Seq(Event)
        BY DEF IInv, TypeOK, OpRec
      <3> QED
        BY <1>8, <3>1, NoOpType DEF SyncDirFails, SyncDirError, Return, IInv, TypeOK
    <2>2. MutationInv' /\ DiskInv' /\ AckInv'
      BY <1>8 DEF SyncDirFails, Return, IInv, TypeOK, OpRec, MutationInv, DiskInv, AckInv, Written
    <2> QED
      BY <2>1, <2>2 DEF IInv
  <1>9. CASE WriteFails
    <2>1. TypeOK'
      BY <1>9, NoOpType DEF WriteFails, Return, IInv, TypeOK
    <2>2. MutationInv' /\ DiskInv' /\ AckInv'
      BY <1>9 DEF WriteFails, Return, IInv, MutationInv, DiskInv, AckInv, Written
    <2> QED
      BY <2>1, <2>2 DEF IInv
  <1>10. CASE PruneFails
    <2>1. PICK n \in 0 .. Excess - 1 : backups' = AllDurable(Without(n))
      BY <1>10 DEF PruneFails
    <2>2. Without(n) \subseteq backups
      BY DEF Without
    <2>3. TypeOK'
      <3>1. backups' \in SUBSET BackupRec
        BY <2>1, <2>2, AllDurableType DEF IInv, TypeOK, OpRec
      <3> QED
        BY <1>10, <3>1, NoOpType DEF PruneFails, Return, IInv, TypeOK
    <2>4. MutationInv' /\ DiskInv' /\ AckInv'
      BY <1>10 DEF PruneFails, Return, IInv, MutationInv, DiskInv, AckInv, Written
    <2> QED
      BY <2>3, <2>4 DEF IInv
  <1>11. CASE Kill
    <2>1. TypeOK'
      BY <1>11, NoOpType, Zenon DEF Kill, Down, IInv, TypeOK
    <2>2. MutationInv' /\ DiskInv' /\ AckInv'
      BY <1>11 DEF Kill, Down, IInv, MutationInv, DiskInv, AckInv, Written
    <2> QED
      BY <2>1, <2>2 DEF IInv
  <1>12. CASE PowerLoss
    <2>1. PICK content \in disk : file' = content /\ disk' = {content}
      BY <1>12 DEF PowerLoss
    <2>2. PICK lost \in SUBSET {b \in backups : ~b.durable} : backups' = AllDurable(backups \ lost)
      BY <1>12, Zenon DEF PowerLoss
    <2>3. TypeOK'
      <3>1. backups' \in SUBSET BackupRec
        <4>1. backups \ lost \in SUBSET BackupRec
          BY DEF IInv, TypeOK, OpRec
        <4> QED
          BY <2>2, <4>1, AllDurableType
      <3> QED
        BY <1>12, <2>1, <3>1, NoOpType, Zenon DEF PowerLoss, Down, IInv, TypeOK
    <2>4. MutationInv' /\ DiskInv' /\ AckInv'
      BY <1>12, <2>1 DEF PowerLoss, Down, IInv, MutationInv, DiskInv, AckInv, Written
    <2> QED
      BY <2>3, <2>4 DEF IInv
  <1>13. CASE Restart
    <2>1. TypeOK'
      BY <1>13 DEF Restart, Loadable, IInv, TypeOK, Content
    <2>2. MutationInv' /\ DiskInv' /\ AckInv'
      BY <1>13 DEF Restart, IInv, MutationInv, DiskInv, AckInv, Written
    <2> QED
      BY <2>1, <2>2 DEF IInv
  <1> QED
    BY <1>1, <1>2, <1>3, <1>4, <1>5, <1>6, <1>7, <1>8, <1>9, <1>10, <1>11, <1>12, <1>13 DEF Next

\* The inductive invariant holds of every behaviour of the store.
THEOREM Invariance == Spec => []IInv
  BY InitInv, NextInv, PTL DEF Spec

\* The state of the store is well typed.
THEOREM TypeCorrect == Spec => []TypeOK
  BY Invariance, PTL DEF IInv

\* Between mutations, Head and Range serve the log the file holds.
THEOREM MemoryMatchesFileTheorem == Spec => []MemoryMatchesFile
  <1>1. IInv => MemoryMatchesFile
    BY DEF IInv, MutationInv, MemoryMatchesFile
  <1> QED
    BY <1>1, Invariance, PTL

\* A log whose write returned nil stays a prefix of the file across failed
\* mutations, kills and power losses, until a ReplaceAll commits.
THEOREM AckedSurvivesTheorem == Spec => []AckedSurvives
  <1>1. IInv => AckedSurvives
    BY StoreAssumption DEF IInv, DiskInv, AckInv, AckedSurvives
  <1> QED
    BY <1>1, Invariance, PTL

\* Whatever a crash leaves at the log path is a log NewFileStore loads.
THEOREM AlwaysLoadableTheorem == Spec => []AlwaysLoadable
  <1>1. IInv => AlwaysLoadable
    BY StoreAssumption DEF IInv, DiskInv, AlwaysLoadable, Loadable
  <1> QED
    BY <1>1, Invariance, PTL

\* The result of AppendBatch and ReplaceAll, read through CommitSucceeded,
\* tells whether the log was replaced.
THEOREM ResultTellsCommitTheorem == Spec => ResultTellsCommit
  <1> DEFINE Told == up /\ up' /\ pc # "idle" /\ pc' = "idle" =>
                        file' = IF res' \in {"ok", "committed"} THEN op.next ELSE op.old
  <1>1. IInv /\ [Next]_vars => [Told]_vars
    <2> SUFFICES ASSUME IInv, Next, up, up', pc # "idle", pc' = "idle"
                 PROVE  file' = IF res' \in {"ok", "committed"} THEN op.next ELSE op.old
      BY DEF vars
    <2> USE DEF diskVars
    <2>1. SyncDir \/ SyncDirFails \/ WriteFails \/ PruneFails
      BY DEF Next, AppendBatch, ReplaceAll, Begin, WriteTemp, SyncTemp, Rename, Kill, PowerLoss,
             Down, Restart
    <2>2. CASE SyncDir
      BY <2>2 DEF SyncDir, Return, IInv, TypeOK, OpRec, MutationInv, Written
    <2>3. CASE SyncDirFails
      BY <2>3 DEF SyncDirFails, SyncDirError, Return, IInv, TypeOK, OpRec, MutationInv, Written
    <2>4. CASE WriteFails
      BY <2>4 DEF WriteFails, Return, IInv, MutationInv, Written
    <2>5. CASE PruneFails
      BY <2>5 DEF PruneFails, Return, IInv, MutationInv, Written
    <2> QED
      BY <2>1, <2>2, <2>3, <2>4, <2>5
  <1> QED
    BY <1>1, Invariance, PTL DEF Spec, ResultTellsCommit
=============================================================================
