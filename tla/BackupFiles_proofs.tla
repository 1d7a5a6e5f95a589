------------------------- MODULE BackupFiles_proofs -------------------------
(***************************************************************************)
(* Theorems about BackupFiles, for any number of triggers, calls, batches  *)
(* and builders: the invariants of its run, whoever crashes when.          *)
(***************************************************************************)
EXTENDS BackupFiles, FiniteSetTheorems, TLAPS

-----------------------------------------------------------------------------
(* Types.                                                                  *)

Begun(t) == started[t] \in Seconds

(* What a producer has in hand goes with the place where it is.            *)
Places ==
  \A p \in Producers :
    /\ pc[p] = "idle" <=> task[p] = NoTrigger
    /\ pc[p] # "idle" => Begun(task[p])
    /\ pc[p] \in {"idle", "count"} => \A i \in Batch : built[p][i] = "no"

(* An instance that has rows, or is complete, was started.                 *)
Born == \A t \in Triggers : produced[t] \/ (\E i \in Batch : row[t][i] # "absent") => Begun(t)

Types == TypeOK /\ Places /\ Born

(* The call ends, with or without its process.                             *)
Quit(p) == (ReturnError(p) \/ Crash(p)) /\ UNCHANGED <<started, produced, row, file, overlap>>

LEMMA NextIsStep ==
  ASSUME [Next]_vars
  PROVE  \/ UNCHANGED vars
         \/ \E p \in Producers, t \in Triggers, s \in Seconds : RunBizTask(p, t, s)
         \/ \E p \in Producers : CountBatches(p)
         \/ \E p \in Producers, i \in Batch : Truncate(p, i)
         \/ \E p \in Producers, i \in Batch : WriteSome(p, i)
         \/ \E p \in Producers, i \in Batch : Write(p, i)
         \/ \E p \in Producers : CreateBatch(p)
         \/ \E p \in Producers : UpdateProducedMeta(p)
         \/ \E p \in Producers : ProduceFails(p)
         \/ \E p \in Producers : Quit(p)
         \/ \E t \in Triggers, i \in Batch : Upload(t, i)
BY DEF Next, Produce, Quit, ReturnError, Crash

(* A builder belongs to a call that is at work on an instance.             *)
LEMMA BuilderHasTask ==
  ASSUME Types, NEW p \in Producers, NEW i \in Batch, built[p][i] # "no"
  PROVE  /\ pc[p] \in {"produce", "drain"}
         /\ task[p] \in Triggers
         /\ Begun(task[p])
         /\ Name(task[p], i) \in Seconds \X Batch
<1>1. pc[p] \in {"produce", "drain"}
  BY DEF Types, TypeOK, Places
<1>2. task[p] \in Triggers /\ Begun(task[p])
  BY <1>1 DEF Types, TypeOK, Places
<1> QED
  BY <1>1, <1>2 DEF Name, Begun

LEMMA BusyHasTask ==
  ASSUME Types, NEW p \in Producers, pc[p] # "idle"
  PROVE  task[p] \in Triggers /\ Begun(task[p])
BY DEF Types, TypeOK, Places

(* CountBatches finds at most NumBatches rows.                             *)
LEMMA ResumeBound ==
  ASSUME TypeOK, NEW t \in Triggers
  PROVE  ResumeIndex(t) \in 1 .. NumBatches + 1
<1> DEFINE Rows == {i \in Batch : row[t][i] # "absent"}
<1>1. IsFiniteSet(Batch) /\ Cardinality(Batch) = NumBatches
  BY BackupOK, FS_Interval DEF Batch
<1>2. IsFiniteSet(Rows) /\ Cardinality(Rows) <= NumBatches
  BY <1>1, FS_Subset
<1>3. Cardinality(Rows) \in Nat
  BY <1>2, FS_CardinalityType
<1>4. ResumeIndex(t) = Cardinality(Rows) + 1
  BY DEF ResumeIndex
<1> HIDE DEF Rows
<1> QED
  BY <1>2, <1>3, <1>4, BackupOK

LEMMA InitTypes == Init => Types
BY BackupOK DEF Init, Types, TypeOK, Places, Born, Content, Batch

LEMMA NextTypes ==
  ASSUME Types, [Next]_vars
  PROVE  Types'
<1> USE DEF producerVars
<1>1. CASE UNCHANGED vars
  BY <1>1 DEF vars, Types, TypeOK, Places, Born, Begun
<1>2. ASSUME NEW p \in Producers, NEW t \in Triggers, NEW s \in Seconds, RunBizTask(p, t, s)
      PROVE  Types'
  <2>1. TypeOK'
    BY <1>2 DEF RunBizTask, Types, TypeOK
  <2>2. \A u \in Triggers : Begun(u) => Begun(u)'
    BY <1>2, BackupOK DEF RunBizTask, Types, TypeOK, Begun
  <2>3. Begun(t)'
    BY <1>2, BackupOK DEF RunBizTask, Types, TypeOK, Begun
  <2>4. Places'
    <3> SUFFICES ASSUME NEW q \in Producers
                 PROVE  /\ pc'[q] = "idle" <=> task'[q] = NoTrigger
                        /\ pc'[q] # "idle" => Begun(task[q])'
                        /\ pc'[q] \in {"idle", "count"} => \A i \in Batch : built'[q][i] = "no"
      BY DEF Places
    <3>1. CASE q = p
      BY <3>1, <1>2, <2>3, BackupOK DEF RunBizTask, Types, TypeOK, Places, Begun
    <3>2. CASE q # p
      <4>1. pc'[q] = pc[q] /\ task'[q] = task[q] /\ built'[q] = built[q]
        BY <3>2, <1>2 DEF RunBizTask, Types, TypeOK
      <4>2. pc[q] # "idle" => Begun(task[q])'
        BY <4>1, <2>2, BusyHasTask DEF Begun
      <4> QED
        BY <4>1, <4>2 DEF Types, Places
    <3> QED
      BY <3>1, <3>2
  <2>5. Born'
    BY <1>2, <2>2 DEF RunBizTask, Types, Born, Begun
  <2> QED
    BY <2>1, <2>4, <2>5 DEF Types
<1>3. ASSUME NEW p \in Producers, CountBatches(p)
      PROVE  Types'
  <2>1. next' \in [Producers -> 0 .. NumBatches + 1]
    <3>1. ResumeIndex(task[p]) \in 1 .. NumBatches + 1
      BY <1>3, BusyHasTask, ResumeBound DEF CountBatches, Types
    <3>2. ResumeIndex(task[p]) \in 0 .. NumBatches + 1
      BY <3>1, BackupOK
    <3> QED
      BY <3>2, <1>3 DEF CountBatches, Types, TypeOK
  <2> QED
    BY <2>1, <1>3 DEF CountBatches, Types, TypeOK, Places, Born, Begun
<1>4. ASSUME NEW p \in Producers, NEW i \in Batch, Truncate(p, i)
      PROVE  Types'
  <2>1. TypeOK'
    BY <1>4 DEF Truncate, Types, TypeOK, Content
  <2>2. Places'
    <3>1. \A q \in Producers : \A j \in Batch :
            built'[q][j] # "no" => built[q][j] # "no" \/ q = p
      BY <1>4 DEF Truncate, Builder
    <3> QED
      BY <3>1, <1>4 DEF Truncate, MayBuild, Types, TypeOK, Places, Begun
  <2> QED
    BY <2>1, <2>2, <1>4 DEF Truncate, Types, Born, Begun
<1>5. ASSUME NEW p \in Producers, NEW i \in Batch, WriteSome(p, i)
      PROVE  Types'
  BY <1>5 DEF WriteSome, Types, TypeOK, Places, Born, Begun, Content
<1>6. ASSUME NEW p \in Producers, NEW i \in Batch, Write(p, i)
      PROVE  Types'
  <2>1. pc[p] \in {"produce", "drain"} /\ task[p] \in Triggers
    BY <1>6, BuilderHasTask DEF Write, Builder
  <2>2. Outcomes(p, i) \subseteq Content
    BY <2>1 DEF Outcomes, Content
  <2>3. PICK c \in Content : file' = [file EXCEPT ![Name(task[p], i)] = c]
    BY <2>2, <1>6 DEF Write
  <2>4. TypeOK'
    BY <2>3, <1>6 DEF Write, Types, TypeOK
  <2> QED
    BY <2>1, <2>4, <1>6 DEF Write, Types, TypeOK, Places, Born, Begun
<1>7. ASSUME NEW p \in Producers, CreateBatch(p)
      PROVE  Types'
  <2>1. task[p] \in Triggers /\ Begun(task[p])
    BY <1>7, BusyHasTask DEF CreateBatch
  <2>2. next[p] + 1 \in 0 .. NumBatches + 1
    BY <1>7, BackupOK DEF CreateBatch, Ready, Batch
  <2>3. TypeOK'
    BY <1>7, <2>2 DEF CreateBatch, Types, TypeOK
  <2> QED
    BY <1>7, <2>1, <2>3 DEF CreateBatch, Types, TypeOK, Places, Born, Begun
<1>8. ASSUME NEW p \in Producers, UpdateProducedMeta(p)
      PROVE  Types'
  <2>1. task[p] \in Triggers /\ Begun(task[p])
    BY <1>8, BusyHasTask DEF UpdateProducedMeta
  <2>2. TypeOK'
    <3>1. Leave(p) /\ produced' \in [Triggers -> BOOLEAN]
      BY <1>8 DEF UpdateProducedMeta, Types, TypeOK
    <3>2. UNCHANGED <<started, row, file, overlap>>
      BY <1>8 DEF UpdateProducedMeta
    <3> QED
      BY <3>1, <3>2, BackupOK DEF Leave, Types, TypeOK
  <2> QED
    BY <1>8, <2>1, <2>2 DEF UpdateProducedMeta, Leave, Types, TypeOK, Places, Born, Begun
<1>9. ASSUME NEW p \in Producers, ProduceFails(p)
      PROVE  Types'
  <2>1. TypeOK'
    <3>1. built' \in [Producers -> [Batch -> {"no", "writing", "disturbed", "saved"}]]
      <4>1. CASE UNCHANGED built
        BY <4>1 DEF Types, TypeOK
      <4>2. ASSUME NEW i \in Builder(p), built' = [built EXCEPT ![p][i] = "saved"]
            PROVE  built' \in [Producers -> [Batch -> {"no", "writing", "disturbed", "saved"}]]
        <5>1. i \in Batch
          BY <4>2 DEF Builder
        <5> QED
          BY <4>2, <5>1 DEF Types, TypeOK
      <4> QED
        BY <4>1, <4>2, <1>9 DEF ProduceFails
    <3> QED
      BY <3>1, <1>9 DEF ProduceFails, Types, TypeOK
  <2>2. \A q \in Producers : \A j \in Batch : built'[q][j] # "no" => built[q][j] # "no"
    BY <1>9 DEF ProduceFails, Builder, Types, TypeOK
  <2> QED
    BY <1>9, <2>1, <2>2 DEF ProduceFails, Types, TypeOK, Places, Born, Begun
<1>10. ASSUME NEW p \in Producers, Quit(p)
       PROVE  Types'
  <2>1. Leave(p)
    BY <1>10 DEF Quit, ReturnError, Crash
  <2>2. TypeOK'
    BY <1>10, <2>1, BackupOK DEF Quit, Leave, Types, TypeOK
  <2> QED
    BY <1>10, <2>1, <2>2 DEF Quit, Leave, Types, TypeOK, Places, Born, Begun
<1>11. ASSUME NEW t \in Triggers, NEW i \in Batch, Upload(t, i)
       PROVE  Types'
  BY <1>11 DEF Upload, Types, TypeOK, Places, Born, Begun
<1> QED
  BY <1>1, <1>2, <1>3, <1>4, <1>5, <1>6, <1>7, <1>8, <1>9, <1>10, <1>11, NextIsStep

(* Every variable keeps its type; in particular the index at which a       *)
(* production resumes is at most one beyond the last batch.                *)
THEOREM Typing == Spec => []TypeOK
<1>1. Types => TypeOK
  BY DEF Types
<1> QED
  BY <1>1, InitTypes, NextTypes, PTL DEF Spec

-----------------------------------------------------------------------------
(* What no step takes away: names, rows and files.                         *)

LEMMA NameStays ==
  ASSUME Types, [Next]_vars, NEW t \in Triggers, Begun(t)
  PROVE  started'[t] = started[t]
<1>1. ASSUME NEW p \in Producers, NEW u \in Triggers, NEW s \in Seconds, RunBizTask(p, u, s)
      PROVE  started'[t] = started[t]
  BY <1>1, BackupOK DEF RunBizTask, Types, TypeOK, Begun
<1> QED
  BY <1>1, NextIsStep DEF vars, CountBatches, Truncate, WriteSome, Write, CreateBatch,
     UpdateProducedMeta, ProduceFails, Quit, Upload

LEMMA RowStays ==
  ASSUME Types, [Next]_vars, NEW t \in Triggers, NEW i \in Batch, row[t][i] # "absent"
  PROVE  row'[t][i] # "absent"
<1>1. ASSUME NEW p \in Producers, CreateBatch(p)
      PROVE  row'[t][i] # "absent"
  BY <1>1 DEF CreateBatch, Types, TypeOK
<1>2. ASSUME NEW u \in Triggers, NEW j \in Batch, Upload(u, j)
      PROVE  row'[t][i] # "absent"
  BY <1>2 DEF Upload, Types, TypeOK
<1> QED
  BY <1>1, <1>2, NextIsStep DEF vars, RunBizTask, CountBatches, Truncate, WriteSome, Write,
     UpdateProducedMeta, ProduceFails, Quit

(* Only CreateBatch makes a row appear: that of the index a call is at,    *)
(* unless its name is taken.                                               *)
LEMMA RowMade ==
  ASSUME Types, [Next]_vars, NEW t \in Triggers, NEW i \in Batch,
         row[t][i] = "absent", row'[t][i] # "absent"
  PROVE  \E p \in Producers : /\ CreateBatch(p)
                              /\ t = task[p] /\ i = next[p]
                              /\ ~Taken(task[p], next[p])
<1>1. ASSUME NEW p \in Producers, CreateBatch(p)
      PROVE  t = task[p] /\ i = next[p] /\ ~Taken(task[p], next[p])
  BY <1>1 DEF CreateBatch, Types, TypeOK
<1>2. ASSUME NEW u \in Triggers, NEW j \in Batch, Upload(u, j)
      PROVE  FALSE
  BY <1>2 DEF Upload, Types, TypeOK
<1> QED
  BY <1>1, <1>2, NextIsStep DEF vars, RunBizTask, CountBatches, Truncate, WriteSome, Write,
     UpdateProducedMeta, ProduceFails, Quit

LEMMA FileStays ==
  ASSUME Types, [Next]_vars, NEW n \in Seconds \X Batch, file[n] # "absent"
  PROVE  file'[n] # "absent"
<1>1. ASSUME NEW p \in Producers, NEW i \in Batch, Truncate(p, i)
      PROVE  file'[n] # "absent"
  BY <1>1 DEF Truncate, Types, TypeOK
<1>2. ASSUME NEW p \in Producers, NEW i \in Batch, WriteSome(p, i)
      PROVE  file'[n] # "absent"
  BY <1>2 DEF WriteSome, Types, TypeOK
<1>3. ASSUME NEW p \in Producers, NEW i \in Batch, Write(p, i)
      PROVE  file'[n] # "absent"
  <2>1. task[p] \in Triggers
    BY <1>3, BuilderHasTask DEF Write, Builder
  <2>2. \A c \in Outcomes(p, i) : c # "absent"
    BY <2>1, BackupOK DEF Outcomes
  <2> QED
    BY <1>3, <2>2 DEF Write, Types, TypeOK
<1> QED
  BY <1>1, <1>2, <1>3, NextIsStep DEF vars, RunBizTask, CountBatches, CreateBatch,
     UpdateProducedMeta, ProduceFails, Quit, Upload

-----------------------------------------------------------------------------
(* A row points to a file: it is created when its file was saved, or by    *)
(* the writer's own account was, and files are not deleted.                *)

BuiltIsThere ==
  \A p \in Producers : \A i \in Batch :
    built[p][i] # "no" => file[Name(task[p], i)] # "absent"

FileInv == FileNeverMissing /\ BuiltIsThere

(* What a builder has in hand it had before, unless it is the one that     *)
(* truncates its file; and its call is the same.                           *)
LEMMA BuiltBefore ==
  ASSUME Types, [Next]_vars, NEW p \in Producers, NEW i \in Batch, built'[p][i] # "no"
  PROVE  Truncate(p, i) \/ (built[p][i] # "no" /\ task'[p] = task[p])
<1>1. ASSUME NEW q \in Producers, NEW t \in Triggers, NEW s \in Seconds, RunBizTask(q, t, s)
      PROVE  built[p][i] # "no" /\ task'[p] = task[p]
  BY <1>1 DEF RunBizTask, Types, TypeOK, Places
<1>2. ASSUME NEW q \in Producers, NEW j \in Batch, Truncate(q, j), ~Truncate(p, i)
      PROVE  built[p][i] # "no" /\ task'[p] = task[p]
  BY <1>2 DEF Truncate, Builder
<1>3. ASSUME NEW q \in Producers, NEW j \in Batch, Write(q, j)
      PROVE  built[p][i] # "no" /\ task'[p] = task[p]
  BY <1>3 DEF Write, Builder, Types, TypeOK
<1>4. ASSUME NEW q \in Producers, ProduceFails(q)
      PROVE  built[p][i] # "no" /\ task'[p] = task[p]
  <2>1. CASE UNCHANGED built
    BY <2>1, <1>4 DEF ProduceFails
  <2>2. ASSUME NEW j \in Builder(q), built' = [built EXCEPT ![q][j] = "saved"]
        PROVE  built[p][i] # "no"
    BY <2>2 DEF Builder, Types, TypeOK
  <2> QED
    BY <2>1, <2>2, <1>4 DEF ProduceFails
<1>5. ASSUME NEW q \in Producers, Leave(q)
      PROVE  built[p][i] # "no" /\ task'[p] = task[p]
  BY <1>5 DEF Leave, Types, TypeOK
<1> QED
  BY <1>1, <1>2, <1>3, <1>4, <1>5, NextIsStep
     DEF vars, producerVars, CountBatches, WriteSome, CreateBatch, UpdateProducedMeta, Quit,
         ReturnError, Crash, Upload

LEMMA NextFile ==
  ASSUME Types, FileInv, [Next]_vars
  PROVE  FileInv'
<1>1. ASSUME NEW p \in Producers, NEW i \in Batch, built'[p][i] # "no"
      PROVE  file'[Name(task[p], i)'] # "absent"
  <2>1. CASE Truncate(p, i)
    <3>1. task[p] \in Triggers /\ Begun(task[p])
      BY <2>1, BusyHasTask DEF Truncate, MayBuild
    <3>2. Name(task[p], i) \in Seconds \X Batch /\ Name(task[p], i)' = Name(task[p], i)
      BY <2>1, <3>1 DEF Truncate, Name, Begun
    <3> QED
      BY <2>1, <3>2 DEF Truncate, Types, TypeOK
  <2>2. CASE built[p][i] # "no" /\ task'[p] = task[p]
    <3>1. task[p] \in Triggers /\ Begun(task[p]) /\ Name(task[p], i) \in Seconds \X Batch
      BY <2>2, BuilderHasTask
    <3>2. Name(task[p], i)' = Name(task[p], i)
      BY <2>2, <3>1, NameStays DEF Name
    <3> QED
      BY <2>2, <3>1, <3>2, FileStays DEF FileInv, BuiltIsThere
  <2> QED
    BY <1>1, <2>1, <2>2, BuiltBefore
<1>2. ASSUME NEW t \in Triggers, NEW i \in Batch, row'[t][i] # "absent"
      PROVE  file'[Name(t, i)'] # "absent"
  <2>1. CASE row[t][i] # "absent"
    <3>1. Begun(t)
      BY <2>1 DEF Types, Born
    <3>2. Name(t, i)' = Name(t, i) /\ Name(t, i) \in Seconds \X Batch
      BY <3>1, NameStays DEF Name, Begun
    <3> QED
      BY <2>1, <3>2, FileStays DEF FileInv, FileNeverMissing
  <2>2. CASE row[t][i] = "absent"
    <3>1. PICK p \in Producers : CreateBatch(p) /\ t = task[p] /\ i = next[p]
      BY <1>2, <2>2, RowMade
    <3>2. file[Name(t, i)] # "absent"
      BY <3>1 DEF CreateBatch, Ready, FileInv, BuiltIsThere
    <3> QED
      BY <3>1, <3>2 DEF CreateBatch, Name
  <2> QED
    BY <2>1, <2>2
<1> QED
  BY <1>1, <1>2 DEF FileInv, FileNeverMissing, BuiltIsThere, Name

(* README.md calls the backup files the only source of retries: a row      *)
(* always points to a file that is there, whichever call saved it and      *)
(* whichever call or process died on the way.                              *)
THEOREM NothingMissing == Spec => []FileNeverMissing
<1>1. Init => FileInv
  BY DEF Init, FileInv, FileNeverMissing, BuiltIsThere
<1>2. FileInv => FileNeverMissing
  BY DEF FileInv
<1> QED
  BY <1>1, <1>2, InitTypes, NextTypes, NextFile, PTL DEF Spec

-----------------------------------------------------------------------------
(* Production leaves no gap, unless a shared name makes it skip a row.     *)

Gapless(t) ==
  \A i, j \in Batch : i < j /\ row[t][j] # "absent" => row[t][i] # "absent"

(* A call at an index has every row before it behind it.                   *)
Behind(t) ==
  \A p \in Producers : task[p] = t /\ pc[p] \in {"produce", "drain"} =>
    \A i \in Batch : i < next[p] => row[t][i] # "absent"

Whole(t) == produced[t] => \A i \in Batch : row[t][i] # "absent"

InOrder(t) == Gapless(t) /\ Behind(t) /\ Whole(t)

PrefixInv == \A t \in Triggers : Begun(t) => SharesName(t) \/ InOrder(t)

(* Of rows without a gap, CountBatches + 1 is the first that is missing.   *)
LEMMA ResumeIsFirstMissing ==
  ASSUME NEW t \in Triggers, Gapless(t), NEW b \in Batch
  PROVE  row[t][b] # "absent" <=> b < ResumeIndex(t)
<1> DEFINE Rows == {i \in Batch : row[t][i] # "absent"}
<1>1. IsFiniteSet(Rows) /\ Cardinality(Rows) \in Nat
  <2>1. IsFiniteSet(Batch)
    BY BackupOK, FS_Interval DEF Batch
  <2>2. IsFiniteSet(Rows)
    BY <2>1, FS_Subset
  <2> QED
    BY <2>2, FS_CardinalityType
<1>2. \A n \in Nat : IsFiniteSet(1 .. n) /\ Cardinality(1 .. n) = n
  BY FS_Interval
<1>3. ASSUME b \in Rows
      PROVE  b <= Cardinality(Rows)
  <2>1. 1 .. b \subseteq Rows
    BY <1>3, BackupOK DEF Gapless, Batch
  <2>2. Cardinality(1 .. b) <= Cardinality(Rows)
    BY <1>1, <2>1, FS_Subset
  <2> QED
    BY <1>2, <2>2 DEF Batch
<1>4. ASSUME b \notin Rows
      PROVE  Cardinality(Rows) < b
  <2>1. Rows \subseteq 1 .. (b - 1)
    BY <1>4, BackupOK DEF Gapless, Batch
  <2>2. b - 1 \in Nat
    BY DEF Batch
  <2>3. Cardinality(Rows) <= Cardinality(1 .. (b - 1))
    BY <1>2, <2>1, <2>2, FS_Subset
  <2>4. Cardinality(1 .. (b - 1)) = b - 1
    BY <1>2, <2>2
  <2> HIDE DEF Rows
  <2> QED
    BY <1>1, <2>2, <2>3, <2>4 DEF Batch
<1>5. ResumeIndex(t) = Cardinality(Rows) + 1
  BY DEF ResumeIndex
<1>6. row[t][b] # "absent" <=> b \in Rows
  OBVIOUS
<1> HIDE DEF Rows
<1> QED
  BY <1>1, <1>3, <1>4, <1>5, <1>6 DEF Batch

LEMMA SharesStays ==
  ASSUME Types, [Next]_vars, NEW t \in Triggers, Begun(t), SharesName(t)
  PROVE  SharesName(t)'
<1>1. PICK u \in Triggers \ {t} : started[u] = started[t]
  BY DEF SharesName
<1>2. started'[t] = started[t] /\ started'[u] = started[u]
  BY <1>1, NameStays DEF Begun
<1> QED
  BY <1>1, <1>2 DEF SharesName

(* How a call comes to be, or stays, at an index.                          *)
LEMMA ProducerMoves ==
  ASSUME Types, [Next]_vars, NEW p \in Producers, pc'[p] \in {"produce", "drain"}
  PROVE  /\ pc[p] # "idle"
         /\ task'[p] = task[p]
         /\ \/ CountBatches(p)
            \/ CreateBatch(p)
            \/ pc[p] \in {"produce", "drain"} /\ next'[p] = next[p]
<1>1. ASSUME NEW q \in Producers, NEW t \in Triggers, NEW s \in Seconds, RunBizTask(q, t, s)
      PROVE  pc[p] \in {"produce", "drain"} /\ next'[p] = next[p] /\ task'[p] = task[p]
  BY <1>1 DEF RunBizTask, Types, TypeOK
<1>2. ASSUME NEW q \in Producers, CountBatches(q), q # p
      PROVE  pc[p] \in {"produce", "drain"} /\ next'[p] = next[p] /\ task'[p] = task[p]
  BY <1>2 DEF CountBatches, Types, TypeOK
<1>3. ASSUME NEW q \in Producers, CreateBatch(q), q # p
      PROVE  pc[p] \in {"produce", "drain"} /\ next'[p] = next[p] /\ task'[p] = task[p]
  BY <1>3 DEF CreateBatch, Types, TypeOK
<1>4. ASSUME NEW q \in Producers, ProduceFails(q)
      PROVE  pc[p] \in {"produce", "drain"} /\ next'[p] = next[p] /\ task'[p] = task[p]
  BY <1>4 DEF ProduceFails, Types, TypeOK
<1>5. ASSUME NEW q \in Producers, Leave(q)
      PROVE  pc[p] \in {"produce", "drain"} /\ next'[p] = next[p] /\ task'[p] = task[p]
  BY <1>5 DEF Leave, Types, TypeOK
<1>6. CASE CountBatches(p)
  BY <1>6 DEF CountBatches
<1>7. CASE CreateBatch(p)
  BY <1>7 DEF CreateBatch
<1> QED
  BY <1>1, <1>2, <1>3, <1>4, <1>5, <1>6, <1>7, NextIsStep
     DEF vars, producerVars, Truncate, WriteSome, Write, UpdateProducedMeta, Quit,
         ReturnError, Crash, Upload

LEMMA BecomesProduced ==
  ASSUME Types, [Next]_vars, NEW t \in Triggers, produced'[t]
  PROVE  produced[t] \/ \E p \in Producers : UpdateProducedMeta(p) /\ task[p] = t
<1>1. ASSUME NEW p \in Producers, UpdateProducedMeta(p), task[p] # t
      PROVE  produced'[t] = produced[t]
  BY <1>1 DEF UpdateProducedMeta, Types, TypeOK
<1> QED
  BY <1>1, NextIsStep
     DEF vars, RunBizTask, CountBatches, Truncate, WriteSome, Write, CreateBatch,
         ProduceFails, Quit, Upload

(* A name that is taken is that of an own row, or is shared.               *)
LEMMA TakenExplained ==
  ASSUME NEW t \in Triggers, NEW i \in Batch, Taken(t, i)
  PROVE  row[t][i] # "absent" \/ SharesName(t)
BY DEF Taken, Name, SharesName

LEMMA NextPrefix ==
  ASSUME Types, PrefixInv, [Next]_vars
  PROVE  PrefixInv'
<1> SUFFICES ASSUME NEW t \in Triggers, Begun(t)', ~SharesName(t)'
             PROVE  InOrder(t)'
  BY DEF PrefixInv
<1>1. CASE ~Begun(t)
  <2>1. \A i \in Batch : row[t][i] = "absent"
    BY <1>1 DEF Types, Born
  <2>2. ~produced[t]
    BY <1>1 DEF Types, Born
  <2>3. \A p \in Producers : task[p] # t
    BY <1>1, BackupOK DEF Types, TypeOK, Places
  <2>4. \A i \in Batch : row'[t][i] = "absent"
    BY <2>1, <2>3, RowMade
  <2>5. ~produced'[t]
    BY <2>2, <2>3, BecomesProduced
  <2>6. \A p \in Producers : pc'[p] \in {"produce", "drain"} => task'[p] # t
    BY <2>3, ProducerMoves
  <2> QED
    BY <2>4, <2>5, <2>6 DEF InOrder, Gapless, Behind, Whole
<1>2. CASE Begun(t)
  <2>1. ~SharesName(t) /\ InOrder(t)
    BY <1>2, SharesStays DEF PrefixInv
  <2>2. \A i \in Batch : row[t][i] # "absent" => row'[t][i] # "absent"
    BY RowStays
  <2>3. Gapless(t)'
    <3> SUFFICES ASSUME NEW i \in Batch, NEW j \in Batch, i < j, row'[t][j] # "absent"
                 PROVE  row'[t][i] # "absent"
      BY DEF Gapless
    <3>1. CASE row[t][j] # "absent"
      BY <3>1, <2>1, <2>2 DEF InOrder, Gapless
    <3>2. CASE row[t][j] = "absent"
      <4>1. PICK p \in Producers : CreateBatch(p) /\ t = task[p] /\ j = next[p]
        BY <3>2, RowMade
      <4>2. row[t][i] # "absent"
        BY <4>1, <2>1 DEF CreateBatch, InOrder, Behind
      <4> QED
        BY <4>2, <2>2
    <3> QED
      BY <3>1, <3>2
  <2>4. Behind(t)'
    <3> SUFFICES ASSUME NEW p \in Producers, task'[p] = t, pc'[p] \in {"produce", "drain"},
                        NEW i \in Batch, i < next'[p]
                 PROVE  row'[t][i] # "absent"
      BY DEF Behind
    <3>1. task[p] = t
      BY ProducerMoves
    <3>2. CASE CountBatches(p)
      <4>1. next'[p] = ResumeIndex(t)
        BY <3>1, <3>2 DEF CountBatches, Types, TypeOK
      <4> QED
        BY <4>1, <2>1, <2>2, ResumeIsFirstMissing DEF InOrder
    <3>3. CASE CreateBatch(p)
      <4>1. next[p] \in Batch /\ next'[p] = next[p] + 1 /\ pc[p] = "produce"
        BY <3>3 DEF CreateBatch, Ready, Types, TypeOK
      <4>2. CASE i < next[p]
        BY <4>1, <4>2, <3>1, <2>1, <2>2 DEF InOrder, Behind
      <4>3. CASE i = next[p]
        <5>1. CASE Taken(t, i)
          BY <5>1, <2>1, <2>2, TakenExplained
        <5>2. CASE ~Taken(t, i)
          BY <5>2, <4>3, <3>1, <3>3 DEF CreateBatch, Types, TypeOK
        <5> QED
          BY <5>1, <5>2
      <4> QED
        BY <4>1, <4>2, <4>3 DEF Batch
    <3>4. CASE pc[p] \in {"produce", "drain"} /\ next'[p] = next[p]
      BY <3>1, <3>4, <2>1, <2>2 DEF InOrder, Behind
    <3> QED
      BY <3>2, <3>3, <3>4, ProducerMoves
  <2>5. Whole(t)'
    <3>1. CASE produced[t]
      BY <3>1, <2>1, <2>2 DEF InOrder, Whole
    <3>2. ASSUME NEW p \in Producers, UpdateProducedMeta(p), task[p] = t
          PROVE  \A i \in Batch : row[t][i] # "absent"
      <4>1. pc[p] = "produce" /\ next[p] > NumBatches /\ next[p] \in 0 .. NumBatches + 1
        BY <3>2 DEF UpdateProducedMeta, Types, TypeOK
      <4>2. \A i \in Batch : i < next[p]
        BY <4>1, BackupOK DEF Batch
      <4> QED
        BY <4>1, <4>2, <3>2, <2>1 DEF InOrder, Behind
    <3> QED
      BY <3>1, <3>2, <2>2, BecomesProduced DEF Whole
  <2> QED
    BY <2>3, <2>4, <2>5 DEF InOrder
<1> QED
  BY <1>1, <1>2

(* An instance that is complete in its own eyes lacks rows only if another *)
(* instance of the task was started in the same second, so that the two    *)
(* have the same file names and a violated uk_file_name was taken for an   *)
(* own row.                                                                *)
THEOREM LossExplained == Spec => []LostNeedsSharedName
<1>1. Init => PrefixInv
  BY BackupOK DEF Init, PrefixInv, Begun
<1>2. Types /\ PrefixInv => LostNeedsSharedName
  BY DEF Types, Born, PrefixInv, InOrder, Whole, LostNeedsSharedName
<1> QED
  BY <1>1, <1>2, InitTypes, NextTypes, NextPrefix, PTL DEF Spec

-----------------------------------------------------------------------------
(* What an upload reads.                                                   *)

(* Nobody has written a file whose second no instance was started in.      *)
Fresh ==
  \A s \in Seconds : \A i \in Batch :
    (\E t \in Triggers : started[t] = s) \/ file[<<s, i>>] = "absent"

FilesOf(t) == \A i \in Batch : file[Name(t, i)] \in {"absent", "partial", t}

(* What a call that is alone with its instance knows of its files: its own *)
(* builders are at indexes without a row, and nobody disturbs them.        *)
Knows(p, t) ==
  \A i \in Batch :
    /\ built[p][i] # "disturbed"
    /\ pc[p] = "produce" /\ built[p][i] = "saved" => file[Name(t, i)] = t
    /\ built[p][i] = "writing" => row[t][i] = "absent"
    /\ pc[p] \in {"produce", "drain"} /\ row[t][i] # "absent" => i < next[p]

RowsHaveData(t) == \A i \in Batch : row[t][i] # "absent" => file[Name(t, i)] = t

OneCall(t) == \A p, q \in Producers : task[p] = t /\ task[q] = t => p = q

Solo(t) ==
  /\ OneCall(t)
  /\ RowsHaveData(t)
  /\ \A p \in Producers : task[p] = t => Knows(p, t)

Own(t) == FilesOf(t) /\ (t \in overlap \/ Solo(t))

DataInv == Fresh /\ \A t \in Triggers : Begun(t) => SharesName(t) \/ Own(t)

LEMMA OwnName ==
  ASSUME NEW t \in Triggers, ~SharesName(t), NEW u \in Triggers,
         NEW i \in Batch, NEW j \in Batch, Name(u, j) = Name(t, i)
  PROVE  u = t /\ j = i
BY DEF Name, SharesName

(* The files of an instance that shares no name are written by its own     *)
(* builders only.                                                          *)
LEMMA FileWriter ==
  ASSUME Types, [Next]_vars, NEW t \in Triggers, Begun(t), ~SharesName(t), NEW i \in Batch,
         file'[Name(t, i)] # file[Name(t, i)]
  PROVE  \E p \in Producers : task[p] = t /\ (Truncate(p, i) \/ WriteSome(p, i) \/ Write(p, i))
<1>1. ASSUME NEW p \in Producers, NEW j \in Batch, Truncate(p, j) \/ WriteSome(p, j) \/ Write(p, j)
      PROVE  task[p] = t /\ i = j
  <2>1. task[p] \in Triggers
    BY <1>1, BusyHasTask, BuilderHasTask DEF Truncate, MayBuild, WriteSome, Write, Builder
  <2>2. \E c : file' = [file EXCEPT ![Name(task[p], j)] = c]
    BY <1>1, Zenon DEF Truncate, WriteSome, Write
  <2>3. Name(task[p], j) = Name(t, i)
    BY <2>2 DEF Types, TypeOK, Name, Begun
  <2> QED
    BY <2>1, <2>3, OwnName
<1> QED
  BY <1>1, NextIsStep
     DEF vars, RunBizTask, CountBatches, CreateBatch, UpdateProducedMeta, ProduceFails, Quit,
         Upload

(* WriteSome is for files another instance has written to.                 *)
LEMMA OwnFileNotMixed ==
  ASSUME Types, FileInv, NEW p \in Producers, NEW i \in Batch, FilesOf(task[p])
  PROVE  ~WriteSome(p, i)
BY DEF WriteSome, Builder, FilesOf, FileInv, BuiltIsThere

(* What a builder of an instance with names of its own leaves behind.      *)
LEMMA OwnFileWritten ==
  ASSUME Types, FileInv, NEW p \in Producers, NEW i \in Batch, FilesOf(task[p]), Write(p, i)
  PROVE  /\ file'[Name(task[p], i)] \in {"partial", task[p]}
         /\ built[p][i] = "writing" => file'[Name(task[p], i)] = task[p]
<1>1. task[p] \in Triggers /\ Name(task[p], i) \in Seconds \X Batch
  BY BuilderHasTask DEF Write, Builder
<1>2. file[Name(task[p], i)] \in {"partial", task[p]}
  BY DEF Write, Builder, FilesOf, FileInv, BuiltIsThere
<1>3. PICK c \in Outcomes(p, i) : file' = [file EXCEPT ![Name(task[p], i)] = c]
  BY DEF Write
<1>4. file'[Name(task[p], i)] = c
  BY <1>1, <1>3 DEF Types, TypeOK
<1> QED
  BY <1>2, <1>4 DEF Outcomes

LEMMA NextFilesOf ==
  ASSUME Types, FileInv, [Next]_vars, NEW t \in Triggers, Begun(t), ~SharesName(t), FilesOf(t)
  PROVE  FilesOf(t)'
<1> SUFFICES ASSUME NEW i \in Batch
             PROVE  file'[Name(t, i)] \in {"absent", "partial", t}
  BY NameStays DEF FilesOf, Name
<1>1. CASE file'[Name(t, i)] = file[Name(t, i)]
  BY <1>1 DEF FilesOf
<1>2. ASSUME NEW p \in Producers, task[p] = t, Truncate(p, i)
      PROVE  file'[Name(t, i)] = "partial"
  BY <1>2 DEF Truncate, Types, TypeOK, Name, Begun
<1> QED
  BY <1>1, <1>2, FileWriter, OwnFileNotMixed, OwnFileWritten

LEMMA NextFresh ==
  ASSUME Types, Fresh, [Next]_vars
  PROVE  Fresh'
<1> SUFFICES ASSUME NEW s \in Seconds, NEW i \in Batch,
                    \A t \in Triggers : started'[t] # s
             PROVE  file'[<<s, i>>] = "absent"
  BY DEF Fresh
<1>1. \A t \in Triggers : started[t] # s
  BY NameStays DEF Begun
<1>2. file[<<s, i>>] = "absent"
  BY <1>1 DEF Fresh
<1>3. ASSUME NEW p \in Producers, NEW j \in Batch, Truncate(p, j) \/ WriteSome(p, j) \/ Write(p, j)
      PROVE  file'[<<s, i>>] = file[<<s, i>>]
  <2>1. task[p] \in Triggers
    BY <1>3, BusyHasTask, BuilderHasTask DEF Truncate, MayBuild, WriteSome, Write, Builder
  <2>2. Name(task[p], j) # <<s, i>>
    BY <2>1, <1>1 DEF Name
  <2> QED
    BY <2>2, <1>3 DEF Truncate, WriteSome, Write, Types, TypeOK
<1> QED
  BY <1>2, <1>3, NextIsStep
     DEF vars, RunBizTask, CountBatches, CreateBatch, UpdateProducedMeta, ProduceFails, Quit,
         Upload

LEMMA OverlapGrows ==
  ASSUME Types, [Next]_vars
  PROVE  overlap \subseteq overlap'
BY NextIsStep
   DEF vars, RunBizTask, CountBatches, Truncate, WriteSome, Write, CreateBatch,
       UpdateProducedMeta, ProduceFails, Quit, Upload

(* A call has its instance from before, or begins; in the latter case the  *)
(* instance was in nobody's hands, or it becomes an overlap.               *)
LEMMA TaskFrom ==
  ASSUME Types, [Next]_vars, NEW t \in Triggers, t \notin overlap',
         NEW p \in Producers, task'[p] = t
  PROVE  \/ task[p] = t /\ (pc'[p] = "idle" <=> pc[p] = "idle")
         \/ /\ ~Busy(t)
            /\ \E s \in Seconds : RunBizTask(p, t, s)
<1>1. ASSUME NEW q \in Producers, NEW u \in Triggers, NEW s \in Seconds, RunBizTask(q, u, s)
      PROVE  \/ task[p] = t /\ pc'[p] = pc[p]
             \/ ~Busy(t) /\ \E r \in Seconds : RunBizTask(p, t, r)
  <2>1. CASE q = p
    <3>1. u = t
      BY <2>1, <1>1 DEF RunBizTask, Types, TypeOK
    <3>2. ~Busy(t)
      BY <3>1, <1>1 DEF RunBizTask
    <3> QED
      BY <2>1, <3>1, <3>2, <1>1
  <2>2. CASE q # p
    BY <2>2, <1>1 DEF RunBizTask, Types, TypeOK
  <2> QED
    BY <2>1, <2>2
<1>2. ASSUME NEW q \in Producers, CountBatches(q) \/ CreateBatch(q) \/ ProduceFails(q)
      PROVE  task[p] = t /\ (pc'[p] = "idle" <=> pc[p] = "idle")
  BY <1>2 DEF CountBatches, CreateBatch, ProduceFails, Types, TypeOK
<1>3. ASSUME NEW q \in Producers, Leave(q)
      PROVE  task[p] = t /\ pc'[p] = pc[p]
  BY <1>3, BackupOK DEF Leave, Types, TypeOK
<1> QED
  BY <1>1, <1>2, <1>3, NextIsStep
     DEF vars, producerVars, Truncate, WriteSome, Write, UpdateProducedMeta, Quit,
         ReturnError, Crash, Upload

LEMMA NextOneCall ==
  ASSUME Types, [Next]_vars, NEW t \in Triggers, t \notin overlap', OneCall(t)
  PROVE  OneCall(t)'
<1> SUFFICES ASSUME NEW p \in Producers, NEW q \in Producers, task'[p] = t, task'[q] = t
             PROVE  p = q
  BY DEF OneCall
<1>1. CASE task[p] = t /\ task[q] = t
  BY <1>1 DEF OneCall
<1>2. ASSUME NEW r \in Producers, NEW s \in Seconds, RunBizTask(r, t, s), ~Busy(t)
      PROVE  p = q
  BY <1>2 DEF RunBizTask, Busy, Types, TypeOK
<1> QED
  BY <1>1, <1>2, TaskFrom

(* Who truncates or writes a file of an instance knows that it has no row. *)
LEMMA NextRowsHaveData ==
  ASSUME Types, FileInv, [Next]_vars, NEW t \in Triggers, Begun(t), ~SharesName(t),
         FilesOf(t), Solo(t)
  PROVE  RowsHaveData(t)'
<1> SUFFICES ASSUME NEW i \in Batch, row'[t][i] # "absent"
             PROVE  file'[Name(t, i)] = t
  BY NameStays DEF RowsHaveData, Name
<1>1. ASSUME NEW p \in Producers, task[p] = t, Truncate(p, i)
      PROVE  FALSE
  <2>1. row[t][i] # "absent"
    BY <1>1 DEF Truncate
  <2>2. i < next[p]
    BY <1>1, <2>1 DEF Truncate, MayBuild, Solo, Knows
  <2> QED
    BY <1>1, <2>2 DEF Truncate, MayBuild, Types, TypeOK, Batch
<1>2. ASSUME NEW p \in Producers, task[p] = t, Write(p, i)
      PROVE  file'[Name(t, i)] = t
  <2>1. built[p][i] = "writing"
    BY <1>2 DEF Write, Builder, Solo, Knows
  <2> QED
    BY <1>2, <2>1, OwnFileWritten
<1>3. CASE file'[Name(t, i)] = file[Name(t, i)]
  <2>1. CASE row[t][i] # "absent"
    BY <2>1, <1>3 DEF Solo, RowsHaveData
  <2>2. CASE row[t][i] = "absent"
    <3>1. PICK p \in Producers : CreateBatch(p) /\ t = task[p] /\ i = next[p]
      BY <2>2, RowMade
    <3>2. pc[p] = "produce" /\ built[p][i] = "saved"
      BY <3>1 DEF CreateBatch, Ready
    <3> QED
      BY <3>1, <3>2, <1>3 DEF Solo, Knows
  <2> QED
    BY <2>1, <2>2
<1> QED
  BY <1>1, <1>2, <1>3, FileWriter, OwnFileNotMixed

LEMMA NextKnows ==
  ASSUME Types, FileInv, [Next]_vars, NEW t \in Triggers, Begun(t), ~SharesName(t),
         Gapless(t), FilesOf(t), Solo(t), t \notin overlap',
         NEW p \in Producers, task'[p] = t, task[p] = t
  PROVE  Knows(p, t)'
<1> SUFFICES ASSUME NEW i \in Batch
             PROVE  /\ built'[p][i] # "disturbed"
                    /\ pc'[p] = "produce" /\ built'[p][i] = "saved" => file'[Name(t, i)] = t
                    /\ built'[p][i] = "writing" => row'[t][i] = "absent"
                    /\ pc'[p] \in {"produce", "drain"} /\ row'[t][i] # "absent" => i < next'[p]
  BY NameStays DEF Knows, Name
<1> DEFINE Goal == /\ built'[p][i] # "disturbed"
                   /\ pc'[p] = "produce" /\ built'[p][i] = "saved" => file'[Name(t, i)] = t
                   /\ built'[p][i] = "writing" => row'[t][i] = "absent"
                   /\ pc'[p] \in {"produce", "drain"} /\ row'[t][i] # "absent" => i < next'[p]
<1>1. /\ built[p][i] # "disturbed"
      /\ pc[p] = "produce" /\ built[p][i] = "saved" => file[Name(t, i)] = t
      /\ built[p][i] = "writing" => row[t][i] = "absent"
      /\ pc[p] \in {"produce", "drain"} /\ row[t][i] # "absent" => i < next[p]
  BY DEF Solo, Knows
<1>2. \A q \in Producers : q # p => task[q] # t
  BY DEF Solo, OneCall
<1>4. ASSUME NEW q \in Producers, q # p
      PROVE  ~(task[q] = t /\ (Truncate(q, i) \/ WriteSome(q, i) \/ Write(q, i)))
  BY <1>4, <1>2
<1>5. ASSUME ~Truncate(p, i), ~Write(p, i)
      PROVE  file'[Name(t, i)] = file[Name(t, i)]
  BY <1>4, <1>5, FileWriter, OwnFileNotMixed
<1>7. ASSUME NEW q \in Producers, NEW u \in Triggers, NEW s \in Seconds, RunBizTask(q, u, s)
      PROVE  Goal
  <2>1. q # p
    BY <1>7, BackupOK DEF RunBizTask, Types, Places, TypeOK
  <2> QED
    BY <2>1, <1>1, <1>7 DEF RunBizTask, Types, TypeOK
<1>8. ASSUME NEW q \in Producers, CountBatches(q)
      PROVE  Goal
  <2>1. CASE q = p
    <3>1. built'[p][i] = "no" /\ next'[p] = ResumeIndex(t) /\ row' = row
      BY <2>1, <1>8 DEF CountBatches, Types, TypeOK, Places
    <3> QED
      BY <3>1, ResumeIsFirstMissing
  <2>2. CASE q # p
    BY <2>2, <1>1, <1>8 DEF CountBatches, Types, TypeOK
  <2> QED
    BY <2>1, <2>2
<1>9. ASSUME NEW q \in Producers, NEW j \in Batch, Truncate(q, j)
      PROVE  Goal
  <2>1. UNCHANGED <<row, pc, next>>
    BY <1>9 DEF Truncate
  <2>2. CASE q = p /\ j = i
    <3>1. built'[p][i] = "writing"
      BY <2>2, <1>9 DEF Truncate
    <3>2. pc[p] \in {"produce", "drain"} /\ ~(i < next[p])
      BY <2>2, <1>9 DEF Truncate, MayBuild, Types, TypeOK, Batch
    <3> QED
      BY <2>1, <3>1, <3>2, <1>1
  <2>3. CASE ~(q = p /\ j = i)
    <3>1. task[q] \in Triggers
      BY <1>9, BusyHasTask DEF Truncate, MayBuild
    <3>2. Name(task[q], j) # Name(t, i)
      BY <2>3, <3>1, <1>2, OwnName
    <3>3. built'[p][i] = built[p][i]
      BY <2>3, <3>2, <1>9 DEF Truncate
    <3>4. file'[Name(t, i)] = file[Name(t, i)]
      BY <3>2, <1>9 DEF Truncate, Types, TypeOK, Name, Begun
    <3> QED
      BY <2>1, <3>3, <3>4, <1>1
  <2> QED
    BY <2>2, <2>3
<1>10. ASSUME NEW q \in Producers, NEW j \in Batch, WriteSome(q, j)
       PROVE  Goal
  <2>1. UNCHANGED <<row, pc, next, built>>
    BY <1>10 DEF WriteSome, producerVars
  <2>2. file'[Name(t, i)] = file[Name(t, i)]
    <3>1. ~Truncate(p, i) /\ ~Write(p, i)
      BY <2>1, <1>1 DEF Truncate, Write, MayBuild, Builder, Types, TypeOK
    <3> QED
      BY <3>1, <1>5
  <2> QED
    BY <2>1, <2>2, <1>1
<1>11. ASSUME NEW q \in Producers, NEW j \in Batch, Write(q, j)
       PROVE  Goal
  <2>1. UNCHANGED <<row, pc, next>>
    BY <1>11 DEF Write
  <2>2. CASE q = p /\ j = i
    <3>1. built'[p][i] = "saved"
      BY <2>2, <1>11 DEF Write, Types, TypeOK
    <3>2. built[p][i] = "writing"
      BY <2>2, <1>11, <1>1 DEF Write, Builder
    <3>3. file'[Name(t, i)] = t
      BY <2>2, <3>2, <1>11, OwnFileWritten
    <3> QED
      BY <2>1, <3>1, <3>3, <1>1
  <2>3. CASE ~(q = p /\ j = i)
    <3>1. built'[p][i] = built[p][i]
      BY <2>3, <1>11 DEF Write, Types, TypeOK
    <3>2. task[q] \in Triggers
      BY <1>11, BuilderHasTask DEF Write, Builder
    <3>3. Name(task[q], j) # Name(t, i)
      BY <2>3, <3>2, <1>2, OwnName
    <3>4. file'[Name(t, i)] = file[Name(t, i)]
      <4>1. PICK c : file' = [file EXCEPT ![Name(task[q], j)] = c]
        BY <1>11 DEF Write
      <4> QED
        BY <4>1, <3>3 DEF Types, TypeOK, Name, Begun
    <3> QED
      BY <2>1, <3>1, <3>4, <1>1
  <2> QED
    BY <2>2, <2>3
<1>12. ASSUME NEW q \in Producers, CreateBatch(q)
       PROVE  Goal
  <2>1. UNCHANGED <<file, pc, built>>
    BY <1>12 DEF CreateBatch
  <2>2. CASE q = p
    <3>1. next'[p] = next[p] + 1 /\ next[p] \in Batch /\ built[p][next[p]] = "saved"
      BY <2>2, <1>12 DEF CreateBatch, Ready, Types, TypeOK
    <3>2. i # next[p] => row'[t][i] = row[t][i]
      BY <2>2, <1>12 DEF CreateBatch, Types, TypeOK
    <3>3. i < next[p] \/ i = next[p] => i < next[p] + 1
      BY <3>1 DEF Batch
    <3> QED
      BY <2>1, <3>1, <3>2, <3>3, <1>1
  <2>3. CASE q # p
    <3>1. row'[t][i] = row[t][i] /\ next'[p] = next[p]
      BY <2>3, <1>2, <1>12 DEF CreateBatch, Types, TypeOK
    <3> QED
      BY <2>1, <3>1, <1>1
  <2> QED
    BY <2>2, <2>3
<1>13. ASSUME NEW q \in Producers, ProduceFails(q)
       PROVE  Goal
  <2>1. UNCHANGED <<file, row, next>>
    BY <1>13 DEF ProduceFails
  <2>2. CASE q # p
    <3>1. pc'[p] = pc[p]
      BY <2>2, <1>13 DEF ProduceFails, Types, TypeOK
    <3>2. built'[p] = built[p]
      BY <2>2, <1>13, Zenon DEF ProduceFails, Types, TypeOK
    <3> QED
      BY <2>1, <3>1, <3>2, <1>1
  <2>3. CASE q = p
    <3>1. pc'[p] = "drain" /\ pc[p] \in {"produce", "drain"}
      BY <2>3, <1>13 DEF ProduceFails, Types, TypeOK
    <3>2. built'[p][i] = built[p][i] \/ built'[p][i] = "saved"
      <4>1. ASSUME NEW j \in Builder(q), built' = [built EXCEPT ![q][j] = "saved"]
            PROVE  built'[p][i] = built[p][i] \/ built'[p][i] = "saved"
        BY <4>1, <2>3 DEF Builder, Types, TypeOK
      <4> QED
        BY <4>1, <1>13 DEF ProduceFails
    <3> QED
      BY <2>1, <3>1, <3>2, <1>1
  <2> QED
    BY <2>2, <2>3
<1>14. ASSUME NEW q \in Producers, Leave(q), UNCHANGED <<row, file>>
       PROVE  Goal
  <2>1. q # p
    BY <1>14, BackupOK DEF Leave, Types, TypeOK
  <2> QED
    BY <2>1, <1>1, <1>14 DEF Leave, Types, TypeOK
<1>15. ASSUME NEW u \in Triggers, NEW j \in Batch, Upload(u, j)
       PROVE  Goal
  <2>1. UNCHANGED <<file, pc, built, next>>
    BY <1>15 DEF Upload, producerVars
  <2>2. row'[t][i] = "absent" <=> row[t][i] = "absent"
    BY <1>15 DEF Upload, Types, TypeOK
  <2> QED
    BY <2>1, <2>2, <1>1
<1>16. CASE UNCHANGED vars
  BY <1>16, <1>1 DEF vars
<1>17. Goal
  BY <1>7, <1>8, <1>9, <1>10, <1>11, <1>12, <1>13, <1>14, <1>15, <1>16, NextIsStep
     DEF UpdateProducedMeta, Quit, ReturnError, Crash
<1> QED
  BY <1>17

(* An instance begins with no rows, no files and one call.                 *)
LEMMA BeginsOwn ==
  ASSUME Types, Fresh, [Next]_vars, NEW t \in Triggers, ~Begun(t), Begun(t)', ~SharesName(t)'
  PROVE  FilesOf(t)' /\ Solo(t)'
<1>1. PICK p \in Producers, s \in Seconds : RunBizTask(p, t, s)
  <2>1. ASSUME NEW p \in Producers, NEW u \in Triggers, NEW s \in Seconds, RunBizTask(p, u, s)
        PROVE  u = t
    BY <2>1 DEF RunBizTask, Types, TypeOK, Begun
  <2>2. \E p \in Producers, u \in Triggers, s \in Seconds : RunBizTask(p, u, s)
    BY NextIsStep
       DEF vars, CountBatches, Truncate, WriteSome, Write, CreateBatch, UpdateProducedMeta,
           ProduceFails, Quit, Upload, Begun
  <2> QED
    BY <2>1, <2>2
<1>2. started'[t] = s /\ UNCHANGED <<row, file>>
  BY <1>1 DEF RunBizTask, Types, TypeOK, Begun
<1>3. \A u \in Triggers : started[u] # s
  BY <1>2, NameStays DEF SharesName, Begun
<1>4. \A i \in Batch : Name(t, i)' = <<s, i>> /\ file[<<s, i>>] = "absent"
  BY <1>2, <1>3 DEF Fresh, Name
<1>5. \A i \in Batch : row[t][i] = "absent"
  BY DEF Types, Born
<1>6. \A q \in Producers : task[q] # t
  BY BackupOK DEF Types, TypeOK, Places
<1>7. \A q \in Producers : task'[q] = t => q = p
  BY <1>1, <1>6 DEF RunBizTask, Types, TypeOK
<1>8. pc'[p] = "count" /\ \A i \in Batch : built'[p][i] = "no"
  BY <1>1 DEF RunBizTask, Types, TypeOK, Places
<1>9. FilesOf(t)'
  BY <1>2, <1>4 DEF FilesOf
<1>10. Solo(t)'
  BY <1>2, <1>5, <1>7, <1>8 DEF Solo, OneCall, RowsHaveData, Knows
<1> QED
  BY <1>9, <1>10

LEMMA NextSolo ==
  ASSUME Types, FileInv, [Next]_vars, NEW t \in Triggers, Begun(t), ~SharesName(t),
         Gapless(t), FilesOf(t), Solo(t), t \notin overlap'
  PROVE  Solo(t)'
<1>1. OneCall(t)'
  BY NextOneCall DEF Solo
<1>2. RowsHaveData(t)'
  BY NextRowsHaveData
<1>3. ASSUME NEW p \in Producers, task'[p] = t
      PROVE  Knows(p, t)'
  <2>1. CASE task[p] = t
    BY <1>3, <2>1, NextKnows
  <2>2. ASSUME NEW s \in Seconds, RunBizTask(p, t, s)
        PROVE  Knows(p, t)'
    BY <2>2 DEF RunBizTask, Knows, Types, TypeOK, Places
  <2> QED
    BY <1>3, <2>1, <2>2, TaskFrom
<1> QED
  BY <1>1, <1>2, <1>3 DEF Solo

LEMMA NextData ==
  ASSUME Types, FileInv, PrefixInv, DataInv, [Next]_vars
  PROVE  DataInv'
<1>1. Fresh'
  BY NextFresh DEF DataInv
<1>2. ASSUME NEW t \in Triggers, Begun(t)', ~SharesName(t)'
      PROVE  Own(t)'
  <2>1. CASE ~Begun(t)
    BY <2>1, <1>2, BeginsOwn DEF DataInv, Own
  <2>2. CASE Begun(t)
    <3>1. ~SharesName(t) /\ Own(t) /\ Gapless(t)
      BY <2>2, <1>2, SharesStays DEF DataInv, PrefixInv, InOrder
    <3>2. FilesOf(t)'
      BY <2>2, <3>1, NextFilesOf DEF Own
    <3>3. t \notin overlap' => Solo(t)'
      BY <2>2, <3>1, OverlapGrows, NextSolo DEF Own
    <3> QED
      BY <3>2, <3>3 DEF Own
  <2> QED
    BY <2>1, <2>2
<1> QED
  BY <1>1, <1>2 DEF DataInv

(* An upload reads the data of its batch, unless two instances share their *)
(* names, or two calls produced the instance at a time and one truncated   *)
(* the file of a row the other had created.                                *)
THEOREM ReadsItsData == Spec => []WrongDataNeedsCause
<1>1. Init => PrefixInv /\ FileInv /\ DataInv
  BY BackupOK DEF Init, PrefixInv, FileInv, FileNeverMissing, BuiltIsThere, DataInv, Fresh, Begun
<1>2. Types /\ FileInv /\ DataInv => WrongDataNeedsCause
  <2> SUFFICES ASSUME Types, FileInv, DataInv, NEW t \in Triggers, NEW i \in Batch,
                      row[t][i] = "pending", ~SharesName(t)
               PROVE  file[Name(t, i)] = t \/ (file[Name(t, i)] = "partial" /\ t \in overlap)
    BY DEF WrongDataNeedsCause
  <2>1. Own(t)
    BY DEF Types, Born, DataInv
  <2>2. file[Name(t, i)] # "absent"
    BY DEF FileInv, FileNeverMissing
  <2> QED
    BY <2>1, <2>2 DEF Own, FilesOf, Solo, RowsHaveData
<1> QED
  BY <1>1, <1>2, InitTypes, NextTypes, NextFile, NextPrefix, NextData, PTL DEF Spec
=============================================================================
