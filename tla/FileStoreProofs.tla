-------------------------- MODULE FileStoreProofs ---------------------------
(***************************************************************************)
(* The safety properties of the files, for any number of tasks, names,     *)
(* contents, sizes and receive timeouts: every step preserves FileInv;     *)
(* and that the mutex is given back within a bounded number of steps.      *)
(*                                                                         *)
(* The task that holds the mutex is the only one whose steps change        *)
(* anything but its own request; the others are idle or wait (Alone).      *)
(***************************************************************************)
EXTENDS FileStore, TLAPS

(* Only the holder of the mutex is anywhere but idle or waiting. *)
LEMMA Alone ==
  ASSUME FileInv, NEW t \in Tasks, pc[t] \notin {"idle", "lock"}
  PROVE  lock = t /\ \A u \in Tasks \ {t} : pc[u] \in {"idle", "lock"}
BY DEF FileInv, Holding

(* What the records of the module are. *)
LEMMA Records ==
  /\ \A v \in Versions, k \in 0 .. Size :
       Content(v, k) \in Contents /\ Content(v, k) # Absent
  /\ \A c \in Contents : c.ver \in Versions /\ c.len \in 0 .. Size
  /\ \A v \in Versions, k \in 0 .. Size : Content(v, k).ver = v /\ Content(v, k).len = k
  /\ \A j \in Job : j.kind \in Kinds /\ j.name \in Names /\ j.ver \in Versions
  /\ \A j \in Job : j # NoJob
  /\ Whole \subseteq {Absent} \cup Contents
  /\ \A c \in Whole : c # Absent => c.len = Size
  /\ \A v \in Versions : Content(v, Size) \in Whole
  /\ Absent \in Whole /\ Size \in 0 .. Size /\ 0 \in 0 .. Size /\ 0 < Size
  /\ 0 \in 0 .. MaxTimeouts
BY FileAssumption DEF Content, Contents, Whole, Job, Kinds, NoJob

LEMMA BelowSize ==
  ASSUME NEW m \in 0 .. Size, m # Size
  PROVE  m < Size
BY FileAssumption

LEMMA LockStep ==
  ASSUME FileInv, NEW t \in Tasks, Lock(t)
  PROVE  FileInv'
<1> USE Records, FileAssumption
    DEF FileInv, TypeOK, At, Goto, Finished, Name, Uploads, New, Lock, Free, FirstStep,
        Pcs
<1>1. pc[t] # "idle" /\ job[t] \in Job /\ Name(t) \in Names
  BY DEF Serves
<1>2. lock = Nobody /\ \A u \in Tasks : pc[u] \in {"idle", "lock"}
  BY DEF Holding
<1>3. Serves(t) /\ UploadShape(t)
  OBVIOUS
<1>4. TypeOK'
  BY <1>1, <1>2, <1>3 DEF Serves, UploadShape, UploadPcs
<1>5. Holding'
  BY <1>1, <1>2, <1>3 DEF Holding
<1>6. WholeOrNothing'
  BY <1>1, <1>2, <1>3 DEF WholeOrNothing, UploadShape
<1>7. Leftover'
  BY <1>1, <1>2, <1>3 DEF Leftover, UploadPcs, UploadShape
<1>8. ParsesWhole'
  BY <1>1, <1>2, <1>3 DEF ParsesWhole, Serves, UploadPcs, WholeOrNothing
<1>9. Serves(t)' /\ UploadShape(t)'
  BY <1>1, <1>2, <1>3 DEF Serves, UploadShape, UploadPcs, Kinds
<1>10. ASSUME NEW u \in Tasks \ {t} PROVE Serves(u)' /\ UploadShape(u)'
  BY <1>1, <1>2, <1>3 DEF Serves, UploadShape, UploadPcs
<1> QED
  BY <1>4, <1>5, <1>6, <1>7, <1>8, <1>9, <1>10 DEF Serves, UploadShape

LEMMA UnlockStep ==
  ASSUME FileInv, NEW t \in Tasks, Unlock(t)
  PROVE  FileInv'
<1> USE Records, FileAssumption
    DEF FileInv, TypeOK, At, Goto, Finished, Name, Uploads, New, Unlock, Forget, Pcs
<1>1. pc[t] # "idle" /\ job[t] \in Job /\ Name(t) \in Names
  BY DEF Serves
<1>2. lock = t /\ \A u \in Tasks \ {t} : pc[u] \in {"idle", "lock"}
  BY Alone
<1>3. Serves(t) /\ UploadShape(t)
  OBVIOUS
<1>4. TypeOK'
  BY <1>1, <1>2, <1>3 DEF Serves, UploadShape, UploadPcs
<1>5. Holding'
  BY <1>1, <1>2, <1>3 DEF Holding
<1>6. WholeOrNothing'
  BY <1>1, <1>2, <1>3 DEF WholeOrNothing, UploadShape
<1>7. Leftover'
  BY <1>1, <1>2, <1>3 DEF Leftover, UploadPcs, UploadShape
<1>8. ParsesWhole'
  BY <1>1, <1>2, <1>3 DEF ParsesWhole, Serves, UploadPcs, WholeOrNothing
<1>9. Serves(t)' /\ UploadShape(t)'
  BY <1>1, <1>2, <1>3 DEF Serves, UploadShape, UploadPcs, Kinds
<1>10. ASSUME NEW u \in Tasks \ {t} PROVE Serves(u)' /\ UploadShape(u)'
  BY <1>1, <1>2, <1>3 DEF Serves, UploadShape, UploadPcs
<1> QED
  BY <1>4, <1>5, <1>6, <1>7, <1>8, <1>9, <1>10 DEF Serves, UploadShape

LEMMA OpenStep ==
  ASSUME FileInv, NEW t \in Tasks, Open(t)
  PROVE  FileInv'
<1> USE Records, FileAssumption
    DEF FileInv, TypeOK, At, Goto, Finished, Name, Uploads, New, Open, SetTmp, Pcs
<1>1. pc[t] # "idle" /\ job[t] \in Job /\ Name(t) \in Names
  BY DEF Serves
<1>2. lock = t /\ \A u \in Tasks \ {t} : pc[u] \in {"idle", "lock"}
  BY Alone
<1>3. Serves(t) /\ UploadShape(t)
  OBVIOUS
<1>4. TypeOK'
  BY <1>1, <1>2, <1>3 DEF Serves, UploadShape, UploadPcs
<1>5. Holding'
  BY <1>1, <1>2, <1>3 DEF Holding
<1>6. WholeOrNothing'
  BY <1>1, <1>2, <1>3 DEF WholeOrNothing, UploadShape
<1>7. Leftover'
  BY <1>1, <1>2, <1>3 DEF Leftover, UploadPcs, UploadShape
<1>8. ParsesWhole'
  BY <1>1, <1>2, <1>3 DEF ParsesWhole, Serves, UploadPcs, WholeOrNothing
<1>9. Serves(t)' /\ UploadShape(t)'
  BY <1>1, <1>2, <1>3 DEF Serves, UploadShape, UploadPcs, Kinds
<1>10. ASSUME NEW u \in Tasks \ {t} PROVE Serves(u)' /\ UploadShape(u)'
  BY <1>1, <1>2, <1>3 DEF Serves, UploadShape, UploadPcs
<1> QED
  BY <1>4, <1>5, <1>6, <1>7, <1>8, <1>9, <1>10 DEF Serves, UploadShape

LEMMA OpenFailsStep ==
  ASSUME FileInv, NEW t \in Tasks, OpenFails(t)
  PROVE  FileInv'
<1> USE Records, FileAssumption
    DEF FileInv, TypeOK, At, Goto, Finished, Name, Uploads, New, OpenFails, Pcs
<1>1. pc[t] # "idle" /\ job[t] \in Job /\ Name(t) \in Names
  BY DEF Serves
<1>2. lock = t /\ \A u \in Tasks \ {t} : pc[u] \in {"idle", "lock"}
  BY Alone
<1>3. Serves(t) /\ UploadShape(t)
  OBVIOUS
<1>4. TypeOK'
  BY <1>1, <1>2, <1>3 DEF Serves, UploadShape, UploadPcs
<1>5. Holding'
  BY <1>1, <1>2, <1>3 DEF Holding
<1>6. WholeOrNothing'
  BY <1>1, <1>2, <1>3 DEF WholeOrNothing, UploadShape
<1>7. Leftover'
  BY <1>1, <1>2, <1>3 DEF Leftover, UploadPcs, UploadShape
<1>8. ParsesWhole'
  BY <1>1, <1>2, <1>3 DEF ParsesWhole, Serves, UploadPcs, WholeOrNothing
<1>9. Serves(t)' /\ UploadShape(t)'
  BY <1>1, <1>2, <1>3 DEF Serves, UploadShape, UploadPcs, Kinds
<1>10. ASSUME NEW u \in Tasks \ {t} PROVE Serves(u)' /\ UploadShape(u)'
  BY <1>1, <1>2, <1>3 DEF Serves, UploadShape, UploadPcs
<1> QED
  BY <1>4, <1>5, <1>6, <1>7, <1>8, <1>9, <1>10 DEF Serves, UploadShape

LEMMA NoBufferStep ==
  ASSUME FileInv, NEW t \in Tasks, NoBuffer(t)
  PROVE  FileInv'
<1> USE Records, FileAssumption
    DEF FileInv, TypeOK, At, Goto, Finished, Name, Uploads, New, NoBuffer, RemoveTmp,
        SetTmp, Pcs
<1>1. pc[t] # "idle" /\ job[t] \in Job /\ Name(t) \in Names
  BY DEF Serves
<1>2. lock = t /\ \A u \in Tasks \ {t} : pc[u] \in {"idle", "lock"}
  BY Alone
<1>3. Serves(t) /\ UploadShape(t)
  OBVIOUS
<1>4. TypeOK'
  BY <1>1, <1>2, <1>3 DEF Serves, UploadShape, UploadPcs
<1>5. Holding'
  BY <1>1, <1>2, <1>3 DEF Holding
<1>6. WholeOrNothing'
  BY <1>1, <1>2, <1>3 DEF WholeOrNothing, UploadShape
<1>7. Leftover'
  BY <1>1, <1>2, <1>3 DEF Leftover, UploadPcs, UploadShape
<1>8. ParsesWhole'
  BY <1>1, <1>2, <1>3 DEF ParsesWhole, Serves, UploadPcs, WholeOrNothing
<1>9. Serves(t)' /\ UploadShape(t)'
  BY <1>1, <1>2, <1>3 DEF Serves, UploadShape, UploadPcs, Kinds
<1>10. ASSUME NEW u \in Tasks \ {t} PROVE Serves(u)' /\ UploadShape(u)'
  BY <1>1, <1>2, <1>3 DEF Serves, UploadShape, UploadPcs
<1> QED
  BY <1>4, <1>5, <1>6, <1>7, <1>8, <1>9, <1>10 DEF Serves, UploadShape

LEMMA RecvStep ==
  ASSUME FileInv, NEW t \in Tasks, NEW k \in 0 .. Chunk, Recv(t, k)
  PROVE  FileInv'
<1> USE Records, FileAssumption
    DEF FileInv, TypeOK, At, Goto, Finished, Name, Uploads, New, Recv, SetTmp, Pcs
<1>1. pc[t] # "idle" /\ job[t] \in Job /\ Name(t) \in Names
  BY DEF Serves
<1>2. lock = t /\ \A u \in Tasks \ {t} : pc[u] \in {"idle", "lock"}
  BY Alone
<1>3. Serves(t) /\ UploadShape(t)
  OBVIOUS
<1>4. TypeOK'
  <2>1. received[t] + k \in 0 .. Size /\ job[t].ver \in Versions
    BY <1>1
  <2>2. Content(job[t].ver, received[t] + k) \in Contents
    BY <2>1
  <2>3. tmp' \in [Names -> {Absent} \cup Contents]
    BY <1>1, <2>2
  <2>4. received' \in [Tasks -> 0 .. Size] /\ timeouts' \in [Tasks -> 0 .. MaxTimeouts]
    BY <2>1
  <2> QED
    BY <2>3, <2>4
<1>5. Holding'
  BY <1>1, <1>2, <1>3 DEF Holding
<1>6. WholeOrNothing'
  BY <1>1, <1>2, <1>3 DEF WholeOrNothing, UploadShape
<1>7. Leftover'
  BY <1>1, <1>2, <1>3 DEF Leftover, UploadPcs, UploadShape
<1>8. ParsesWhole'
  BY <1>1, <1>2, <1>3 DEF ParsesWhole, Serves, UploadPcs, WholeOrNothing
<1>9. Serves(t)' /\ UploadShape(t)'
  <2>1. Serves(t)'
    BY <1>1, <1>2, <1>3 DEF Serves, UploadPcs
  <2>2. received'[t] = received[t] + k /\ received[t] + k \in 0 .. Size /\ ok'[t]
    BY <1>1, <1>3 DEF UploadShape
  <2>3. tmp'[Name(t)] = Content(job[t].ver, received'[t]) /\ tmp'[Name(t)] \in Contents
    BY <1>1, <2>2
  <2>4. job' = job /\ file' = file /\ old' = old /\ file[Name(t)] = old[t]
        /\ ~renameFailed'[t]
    BY <1>3 DEF UploadShape
  <2>5. pc'[t] = IF received[t] + k = Size THEN "close" ELSE "recv"
    BY <1>1
  <2>6. received'[t] # Size => received'[t] < Size
    <3> HIDE Records, FileAssumption DEF FileInv, TypeOK, Recv, Pcs
    <3> QED
      BY <2>2, BelowSize
  <2>7. UploadShape(t)'
    <3> HIDE Records, FileAssumption DEF FileInv, TypeOK, Recv, Pcs
    <3> QED
      BY <2>2, <2>3, <2>4, <2>5, <2>6 DEF UploadShape
  <2> QED
    BY <2>1, <2>7
<1>10. ASSUME NEW u \in Tasks \ {t} PROVE Serves(u)' /\ UploadShape(u)'
  BY <1>1, <1>2, <1>3 DEF Serves, UploadShape, UploadPcs
<1> QED
  BY <1>4, <1>5, <1>6, <1>7, <1>8, <1>9, <1>10 DEF Serves, UploadShape

LEMMA RecvTimeoutStep ==
  ASSUME FileInv, NEW t \in Tasks, RecvTimeout(t)
  PROVE  FileInv'
<1> USE Records, FileAssumption
    DEF FileInv, TypeOK, At, Goto, Finished, Name, Uploads, New, RecvTimeout, MayWait, Pcs
<1>1. pc[t] # "idle" /\ job[t] \in Job /\ Name(t) \in Names
  BY DEF Serves
<1>2. lock = t /\ \A u \in Tasks \ {t} : pc[u] \in {"idle", "lock"}
  BY Alone
<1>3. Serves(t) /\ UploadShape(t)
  OBVIOUS
<1>4. TypeOK'
  BY <1>1, <1>2, <1>3 DEF Serves, UploadShape, UploadPcs
<1>5. Holding'
  BY <1>1, <1>2, <1>3 DEF Holding
<1>6. WholeOrNothing'
  BY <1>1, <1>2, <1>3 DEF WholeOrNothing, UploadShape
<1>7. Leftover'
  BY <1>1, <1>2, <1>3 DEF Leftover, UploadPcs, UploadShape
<1>8. ParsesWhole'
  BY <1>1, <1>2, <1>3 DEF ParsesWhole, Serves, UploadPcs, WholeOrNothing
<1>9. Serves(t)' /\ UploadShape(t)'
  BY <1>1, <1>2, <1>3 DEF Serves, UploadShape, UploadPcs, Kinds
<1>10. ASSUME NEW u \in Tasks \ {t} PROVE Serves(u)' /\ UploadShape(u)'
  BY <1>1, <1>2, <1>3 DEF Serves, UploadShape, UploadPcs
<1> QED
  BY <1>4, <1>5, <1>6, <1>7, <1>8, <1>9, <1>10 DEF Serves, UploadShape

LEMMA RecvFailsStep ==
  ASSUME FileInv, NEW t \in Tasks, NEW k \in 0 .. Chunk, RecvFails(t, k)
  PROVE  FileInv'
<1> USE Records, FileAssumption
    DEF FileInv, TypeOK, At, Goto, Finished, Name, Uploads, New, RecvFails, SetTmp, Pcs
<1>1. pc[t] # "idle" /\ job[t] \in Job /\ Name(t) \in Names
  BY DEF Serves
<1>2. lock = t /\ \A u \in Tasks \ {t} : pc[u] \in {"idle", "lock"}
  BY Alone
<1>3. Serves(t) /\ UploadShape(t)
  OBVIOUS
<1>4. TypeOK'
  BY <1>1, <1>2, <1>3 DEF Serves, UploadShape, UploadPcs
<1>5. Holding'
  BY <1>1, <1>2, <1>3 DEF Holding
<1>6. WholeOrNothing'
  BY <1>1, <1>2, <1>3 DEF WholeOrNothing, UploadShape
<1>7. Leftover'
  BY <1>1, <1>2, <1>3 DEF Leftover, UploadPcs, UploadShape
<1>8. ParsesWhole'
  BY <1>1, <1>2, <1>3 DEF ParsesWhole, Serves, UploadPcs, WholeOrNothing
<1>9. Serves(t)' /\ UploadShape(t)'
  BY <1>1, <1>2, <1>3 DEF Serves, UploadShape, UploadPcs, Kinds
<1>10. ASSUME NEW u \in Tasks \ {t} PROVE Serves(u)' /\ UploadShape(u)'
  BY <1>1, <1>2, <1>3 DEF Serves, UploadShape, UploadPcs
<1> QED
  BY <1>4, <1>5, <1>6, <1>7, <1>8, <1>9, <1>10 DEF Serves, UploadShape

LEMMA CloseStep ==
  ASSUME FileInv, NEW t \in Tasks, Close(t)
  PROVE  FileInv'
<1> USE Records, FileAssumption
    DEF FileInv, TypeOK, At, Goto, Finished, Name, Uploads, New, Close, Received, Pcs
<1>1. pc[t] # "idle" /\ job[t] \in Job /\ Name(t) \in Names
  BY DEF Serves
<1>2. lock = t /\ \A u \in Tasks \ {t} : pc[u] \in {"idle", "lock"}
  BY Alone
<1>3. Serves(t) /\ UploadShape(t)
  OBVIOUS
<1>4. TypeOK'
  BY <1>1, <1>2, <1>3 DEF Serves, UploadShape, UploadPcs
<1>5. Holding'
  BY <1>1, <1>2, <1>3 DEF Holding
<1>6. WholeOrNothing'
  BY <1>1, <1>2, <1>3 DEF WholeOrNothing, UploadShape
<1>7. Leftover'
  BY <1>1, <1>2, <1>3 DEF Leftover, UploadPcs, UploadShape
<1>8. ParsesWhole'
  BY <1>1, <1>2, <1>3 DEF ParsesWhole, Serves, UploadPcs, WholeOrNothing
<1>9. Serves(t)' /\ UploadShape(t)'
  BY <1>1, <1>2, <1>3 DEF Serves, UploadShape, UploadPcs, Kinds
<1>10. ASSUME NEW u \in Tasks \ {t} PROVE Serves(u)' /\ UploadShape(u)'
  BY <1>1, <1>2, <1>3 DEF Serves, UploadShape, UploadPcs
<1> QED
  BY <1>4, <1>5, <1>6, <1>7, <1>8, <1>9, <1>10 DEF Serves, UploadShape

LEMMA CloseFailsStep ==
  ASSUME FileInv, NEW t \in Tasks, CloseFails(t)
  PROVE  FileInv'
<1> USE Records, FileAssumption
    DEF FileInv, TypeOK, At, Goto, Finished, Name, Uploads, New, CloseFails, Pcs
<1>1. pc[t] # "idle" /\ job[t] \in Job /\ Name(t) \in Names
  BY DEF Serves
<1>2. lock = t /\ \A u \in Tasks \ {t} : pc[u] \in {"idle", "lock"}
  BY Alone
<1>3. Serves(t) /\ UploadShape(t)
  OBVIOUS
<1>4. TypeOK'
  BY <1>1, <1>2, <1>3 DEF Serves, UploadShape, UploadPcs
<1>5. Holding'
  BY <1>1, <1>2, <1>3 DEF Holding
<1>6. WholeOrNothing'
  BY <1>1, <1>2, <1>3 DEF WholeOrNothing, UploadShape
<1>7. Leftover'
  BY <1>1, <1>2, <1>3 DEF Leftover, UploadPcs, UploadShape
<1>8. ParsesWhole'
  BY <1>1, <1>2, <1>3 DEF ParsesWhole, Serves, UploadPcs, WholeOrNothing
<1>9. Serves(t)' /\ UploadShape(t)'
  BY <1>1, <1>2, <1>3 DEF Serves, UploadShape, UploadPcs, Kinds
<1>10. ASSUME NEW u \in Tasks \ {t} PROVE Serves(u)' /\ UploadShape(u)'
  BY <1>1, <1>2, <1>3 DEF Serves, UploadShape, UploadPcs
<1> QED
  BY <1>4, <1>5, <1>6, <1>7, <1>8, <1>9, <1>10 DEF Serves, UploadShape

LEMMA RemoveOldStep ==
  ASSUME FileInv, NEW t \in Tasks, RemoveOld(t)
  PROVE  FileInv'
<1> USE Records, FileAssumption
    DEF FileInv, TypeOK, At, Goto, Finished, Name, Uploads, New, RemoveOld, Pcs
<1>1. pc[t] # "idle" /\ job[t] \in Job /\ Name(t) \in Names
  BY DEF Serves
<1>2. lock = t /\ \A u \in Tasks \ {t} : pc[u] \in {"idle", "lock"}
  BY Alone
<1>3. Serves(t) /\ UploadShape(t)
  OBVIOUS
<1>4. TypeOK'
  BY <1>1, <1>2, <1>3 DEF Serves, UploadShape, UploadPcs
<1>5. Holding'
  BY <1>1, <1>2, <1>3 DEF Holding
<1>6. WholeOrNothing'
  BY <1>1, <1>2, <1>3 DEF WholeOrNothing, UploadShape
<1>7. Leftover'
  BY <1>1, <1>2, <1>3 DEF Leftover, UploadPcs, UploadShape
<1>8. ParsesWhole'
  BY <1>1, <1>2, <1>3 DEF ParsesWhole, Serves, UploadPcs, WholeOrNothing
<1>9. Serves(t)' /\ UploadShape(t)'
  BY <1>1, <1>2, <1>3 DEF Serves, UploadShape, UploadPcs, Kinds
<1>10. ASSUME NEW u \in Tasks \ {t} PROVE Serves(u)' /\ UploadShape(u)'
  BY <1>1, <1>2, <1>3 DEF Serves, UploadShape, UploadPcs
<1> QED
  BY <1>4, <1>5, <1>6, <1>7, <1>8, <1>9, <1>10 DEF Serves, UploadShape

LEMMA RenameStep ==
  ASSUME FileInv, NEW t \in Tasks, Rename(t)
  PROVE  FileInv'
<1> USE Records, FileAssumption
    DEF FileInv, TypeOK, At, Goto, Finished, Name, Uploads, New, Rename, SetTmp, Pcs
<1>1. pc[t] # "idle" /\ job[t] \in Job /\ Name(t) \in Names
  BY DEF Serves
<1>2. lock = t /\ \A u \in Tasks \ {t} : pc[u] \in {"idle", "lock"}
  BY Alone
<1>3. Serves(t) /\ UploadShape(t)
  OBVIOUS
<1>4. TypeOK'
  BY <1>1, <1>2, <1>3 DEF Serves, UploadShape, UploadPcs
<1>5. Holding'
  BY <1>1, <1>2, <1>3 DEF Holding
<1>6. WholeOrNothing'
  BY <1>1, <1>2, <1>3 DEF WholeOrNothing, UploadShape
<1>7. Leftover'
  BY <1>1, <1>2, <1>3 DEF Leftover, UploadPcs, UploadShape
<1>8. ParsesWhole'
  BY <1>1, <1>2, <1>3 DEF ParsesWhole, Serves, UploadPcs, WholeOrNothing
<1>9. Serves(t)' /\ UploadShape(t)'
  BY <1>1, <1>2, <1>3 DEF Serves, UploadShape, UploadPcs, Kinds
<1>10. ASSUME NEW u \in Tasks \ {t} PROVE Serves(u)' /\ UploadShape(u)'
  BY <1>1, <1>2, <1>3 DEF Serves, UploadShape, UploadPcs
<1> QED
  BY <1>4, <1>5, <1>6, <1>7, <1>8, <1>9, <1>10 DEF Serves, UploadShape

LEMMA RenameFailsStep ==
  ASSUME FileInv, NEW t \in Tasks, RenameFails(t)
  PROVE  FileInv'
<1> USE Records, FileAssumption
    DEF FileInv, TypeOK, At, Goto, Finished, Name, Uploads, New, RenameFails,
        AfterFailedRename, Pcs
<1>1. pc[t] # "idle" /\ job[t] \in Job /\ Name(t) \in Names
  BY DEF Serves
<1>2. lock = t /\ \A u \in Tasks \ {t} : pc[u] \in {"idle", "lock"}
  BY Alone
<1>3. Serves(t) /\ UploadShape(t)
  OBVIOUS
<1>4. TypeOK'
  BY <1>1, <1>2, <1>3 DEF Serves, UploadShape, UploadPcs
<1>5. Holding'
  BY <1>1, <1>2, <1>3 DEF Holding
<1>6. WholeOrNothing'
  BY <1>1, <1>2, <1>3 DEF WholeOrNothing, UploadShape
<1>7. Leftover'
  BY <1>1, <1>2, <1>3 DEF Leftover, UploadPcs, UploadShape
<1>8. ParsesWhole'
  BY <1>1, <1>2, <1>3 DEF ParsesWhole, Serves, UploadPcs, WholeOrNothing
<1>9. Serves(t)' /\ UploadShape(t)'
  BY <1>1, <1>2, <1>3 DEF Serves, UploadShape, UploadPcs, Kinds
<1>10. ASSUME NEW u \in Tasks \ {t} PROVE Serves(u)' /\ UploadShape(u)'
  BY <1>1, <1>2, <1>3 DEF Serves, UploadShape, UploadPcs
<1> QED
  BY <1>4, <1>5, <1>6, <1>7, <1>8, <1>9, <1>10 DEF Serves, UploadShape

LEMMA CleanupStep ==
  ASSUME FileInv, NEW t \in Tasks, Cleanup(t)
  PROVE  FileInv'
<1> USE Records, FileAssumption
    DEF FileInv, TypeOK, At, Goto, Finished, Name, Uploads, New, Cleanup, CleanupTmp,
        RemoveTmp, SetTmp, Pcs
<1>1. pc[t] # "idle" /\ job[t] \in Job /\ Name(t) \in Names
  BY DEF Serves
<1>2. lock = t /\ \A u \in Tasks \ {t} : pc[u] \in {"idle", "lock"}
  BY Alone
<1>3. Serves(t) /\ UploadShape(t)
  OBVIOUS
<1>4. TypeOK'
  <2>1. tmp' \in [Names -> {Absent} \cup Contents] /\ stale' \in SUBSET Names
    BY <1>1
  <2> QED
    BY <2>1
<1>5. Holding'
  BY <1>1, <1>2, <1>3 DEF Holding
<1>6. WholeOrNothing'
  BY <1>1, <1>2, <1>3 DEF WholeOrNothing, UploadShape
<1>7. Leftover'
  BY <1>1, <1>2, <1>3 DEF Leftover, UploadPcs, UploadShape
<1>8. ParsesWhole'
  BY <1>1, <1>2, <1>3 DEF ParsesWhole, Serves, UploadPcs, WholeOrNothing
<1>9. Serves(t)' /\ UploadShape(t)'
  BY <1>1, <1>2, <1>3 DEF Serves, UploadShape, UploadPcs, Kinds
<1>10. ASSUME NEW u \in Tasks \ {t} PROVE Serves(u)' /\ UploadShape(u)'
  BY <1>1, <1>2, <1>3 DEF Serves, UploadShape, UploadPcs
<1> QED
  BY <1>4, <1>5, <1>6, <1>7, <1>8, <1>9, <1>10 DEF Serves, UploadShape

LEMMA DeleteStep ==
  ASSUME FileInv, NEW t \in Tasks, Delete(t)
  PROVE  FileInv'
<1> USE Records, FileAssumption
    DEF FileInv, TypeOK, At, Goto, Finished, Name, Uploads, New, Delete, Pcs
<1>1. pc[t] # "idle" /\ job[t] \in Job /\ Name(t) \in Names
  BY DEF Serves
<1>2. lock = t /\ \A u \in Tasks \ {t} : pc[u] \in {"idle", "lock"}
  BY Alone
<1>3. Serves(t) /\ UploadShape(t)
  OBVIOUS
<1>4. TypeOK'
  BY <1>1, <1>2, <1>3 DEF Serves, UploadShape, UploadPcs
<1>5. Holding'
  BY <1>1, <1>2, <1>3 DEF Holding
<1>6. WholeOrNothing'
  BY <1>1, <1>2, <1>3 DEF WholeOrNothing, UploadShape
<1>7. Leftover'
  BY <1>1, <1>2, <1>3 DEF Leftover, UploadPcs, UploadShape
<1>8. ParsesWhole'
  BY <1>1, <1>2, <1>3 DEF ParsesWhole, Serves, UploadPcs, WholeOrNothing
<1>9. Serves(t)' /\ UploadShape(t)'
  BY <1>1, <1>2, <1>3 DEF Serves, UploadShape, UploadPcs, Kinds
<1>10. ASSUME NEW u \in Tasks \ {t} PROVE Serves(u)' /\ UploadShape(u)'
  BY <1>1, <1>2, <1>3 DEF Serves, UploadShape, UploadPcs
<1> QED
  BY <1>4, <1>5, <1>6, <1>7, <1>8, <1>9, <1>10 DEF Serves, UploadShape

LEMMA DeleteTmpStep ==
  ASSUME FileInv, NEW t \in Tasks, DeleteTmp(t)
  PROVE  FileInv'
<1> USE Records, FileAssumption
    DEF FileInv, TypeOK, At, Goto, Finished, Name, Uploads, New, DeleteTmp, SetTmp, Pcs
<1>1. pc[t] # "idle" /\ job[t] \in Job /\ Name(t) \in Names
  BY DEF Serves
<1>2. lock = t /\ \A u \in Tasks \ {t} : pc[u] \in {"idle", "lock"}
  BY Alone
<1>3. Serves(t) /\ UploadShape(t)
  OBVIOUS
<1>4. TypeOK'
  BY <1>1, <1>2, <1>3 DEF Serves, UploadShape, UploadPcs
<1>5. Holding'
  BY <1>1, <1>2, <1>3 DEF Holding
<1>6. WholeOrNothing'
  BY <1>1, <1>2, <1>3 DEF WholeOrNothing, UploadShape
<1>7. Leftover'
  BY <1>1, <1>2, <1>3 DEF Leftover, UploadPcs, UploadShape
<1>8. ParsesWhole'
  BY <1>1, <1>2, <1>3 DEF ParsesWhole, Serves, UploadPcs, WholeOrNothing
<1>9. Serves(t)' /\ UploadShape(t)'
  BY <1>1, <1>2, <1>3 DEF Serves, UploadShape, UploadPcs, Kinds
<1>10. ASSUME NEW u \in Tasks \ {t} PROVE Serves(u)' /\ UploadShape(u)'
  BY <1>1, <1>2, <1>3 DEF Serves, UploadShape, UploadPcs
<1> QED
  BY <1>4, <1>5, <1>6, <1>7, <1>8, <1>9, <1>10 DEF Serves, UploadShape

LEMMA DeleteFailsStep ==
  ASSUME FileInv, NEW t \in Tasks, DeleteFails(t)
  PROVE  FileInv'
<1> USE Records, FileAssumption
    DEF FileInv, TypeOK, At, Goto, Finished, Name, Uploads, New, DeleteFails, Pcs
<1>1. pc[t] # "idle" /\ job[t] \in Job /\ Name(t) \in Names
  BY DEF Serves
<1>2. lock = t /\ \A u \in Tasks \ {t} : pc[u] \in {"idle", "lock"}
  BY Alone
<1>3. Serves(t) /\ UploadShape(t)
  OBVIOUS
<1>4. TypeOK'
  BY <1>1, <1>2, <1>3 DEF Serves, UploadShape, UploadPcs
<1>5. Holding'
  BY <1>1, <1>2, <1>3 DEF Holding
<1>6. WholeOrNothing'
  BY <1>1, <1>2, <1>3 DEF WholeOrNothing, UploadShape
<1>7. Leftover'
  BY <1>1, <1>2, <1>3 DEF Leftover, UploadPcs, UploadShape
<1>8. ParsesWhole'
  BY <1>1, <1>2, <1>3 DEF ParsesWhole, Serves, UploadPcs, WholeOrNothing
<1>9. Serves(t)' /\ UploadShape(t)'
  BY <1>1, <1>2, <1>3 DEF Serves, UploadShape, UploadPcs, Kinds
<1>10. ASSUME NEW u \in Tasks \ {t} PROVE Serves(u)' /\ UploadShape(u)'
  BY <1>1, <1>2, <1>3 DEF Serves, UploadShape, UploadPcs
<1> QED
  BY <1>4, <1>5, <1>6, <1>7, <1>8, <1>9, <1>10 DEF Serves, UploadShape

LEMMA ReadStep ==
  ASSUME FileInv, NEW t \in Tasks, Read(t)
  PROVE  FileInv'
<1> USE Records, FileAssumption
    DEF FileInv, TypeOK, At, Goto, Finished, Name, Uploads, New, Read, Pcs
<1>1. pc[t] # "idle" /\ job[t] \in Job /\ Name(t) \in Names
  BY DEF Serves
<1>2. lock = t /\ \A u \in Tasks \ {t} : pc[u] \in {"idle", "lock"}
  BY Alone
<1>3. Serves(t) /\ UploadShape(t)
  OBVIOUS
<1>4. TypeOK'
  BY <1>1, <1>2, <1>3 DEF Serves, UploadShape, UploadPcs
<1>5. Holding'
  BY <1>1, <1>2, <1>3 DEF Holding
<1>6. WholeOrNothing'
  BY <1>1, <1>2, <1>3 DEF WholeOrNothing, UploadShape
<1>7. Leftover'
  BY <1>1, <1>2, <1>3 DEF Leftover, UploadPcs, UploadShape
<1>8. ParsesWhole'
  BY <1>1, <1>2, <1>3 DEF ParsesWhole, Serves, UploadPcs, WholeOrNothing
<1>9. Serves(t)' /\ UploadShape(t)'
  BY <1>1, <1>2, <1>3 DEF Serves, UploadShape, UploadPcs, Kinds
<1>10. ASSUME NEW u \in Tasks \ {t} PROVE Serves(u)' /\ UploadShape(u)'
  BY <1>1, <1>2, <1>3 DEF Serves, UploadShape, UploadPcs
<1> QED
  BY <1>4, <1>5, <1>6, <1>7, <1>8, <1>9, <1>10 DEF Serves, UploadShape

LEMMA ReadEndsStep ==
  ASSUME FileInv, NEW t \in Tasks, ReadEnds(t)
  PROVE  FileInv'
<1> USE Records, FileAssumption
    DEF FileInv, TypeOK, At, Goto, Finished, Name, Uploads, New, ReadEnds, Parsable, Pcs
<1>1. pc[t] # "idle" /\ job[t] \in Job /\ Name(t) \in Names
  BY DEF Serves
<1>2. lock = t /\ \A u \in Tasks \ {t} : pc[u] \in {"idle", "lock"}
  BY Alone
<1>3. Serves(t) /\ UploadShape(t)
  OBVIOUS
<1>4. TypeOK'
  BY <1>1, <1>2, <1>3 DEF Serves, UploadShape, UploadPcs
<1>5. Holding'
  BY <1>1, <1>2, <1>3 DEF Holding
<1>6. WholeOrNothing'
  BY <1>1, <1>2, <1>3 DEF WholeOrNothing, UploadShape
<1>7. Leftover'
  BY <1>1, <1>2, <1>3 DEF Leftover, UploadPcs, UploadShape
<1>8. ParsesWhole'
  BY <1>1, <1>2, <1>3 DEF ParsesWhole, Serves, UploadPcs, WholeOrNothing
<1>9. Serves(t)' /\ UploadShape(t)'
  BY <1>1, <1>2, <1>3 DEF Serves, UploadShape, UploadPcs, Kinds
<1>10. ASSUME NEW u \in Tasks \ {t} PROVE Serves(u)' /\ UploadShape(u)'
  BY <1>1, <1>2, <1>3 DEF Serves, UploadShape, UploadPcs
<1> QED
  BY <1>4, <1>5, <1>6, <1>7, <1>8, <1>9, <1>10 DEF Serves, UploadShape

LEMMA ReadFailsStep ==
  ASSUME FileInv, NEW t \in Tasks, ReadFails(t)
  PROVE  FileInv'
<1> USE Records, FileAssumption
    DEF FileInv, TypeOK, At, Goto, Finished, Name, Uploads, New, ReadFails, Pcs
<1>1. pc[t] # "idle" /\ job[t] \in Job /\ Name(t) \in Names
  BY DEF Serves
<1>2. lock = t /\ \A u \in Tasks \ {t} : pc[u] \in {"idle", "lock"}
  BY Alone
<1>3. Serves(t) /\ UploadShape(t)
  OBVIOUS
<1>4. TypeOK'
  BY <1>1, <1>2, <1>3 DEF Serves, UploadShape, UploadPcs
<1>5. Holding'
  BY <1>1, <1>2, <1>3 DEF Holding
<1>6. WholeOrNothing'
  BY <1>1, <1>2, <1>3 DEF WholeOrNothing, UploadShape
<1>7. Leftover'
  BY <1>1, <1>2, <1>3 DEF Leftover, UploadPcs, UploadShape
<1>8. ParsesWhole'
  BY <1>1, <1>2, <1>3 DEF ParsesWhole, Serves, UploadPcs, WholeOrNothing
<1>9. Serves(t)' /\ UploadShape(t)'
  BY <1>1, <1>2, <1>3 DEF Serves, UploadShape, UploadPcs, Kinds
<1>10. ASSUME NEW u \in Tasks \ {t} PROVE Serves(u)' /\ UploadShape(u)'
  BY <1>1, <1>2, <1>3 DEF Serves, UploadShape, UploadPcs
<1> QED
  BY <1>4, <1>5, <1>6, <1>7, <1>8, <1>9, <1>10 DEF Serves, UploadShape

LEMMA ListEntryStep ==
  ASSUME FileInv, NEW t \in Tasks, ListEntry(t)
  PROVE  FileInv'
<1> USE Records, FileAssumption
    DEF FileInv, TypeOK, At, Goto, Finished, Name, Uploads, New, ListEntry, Pcs
<1>1. pc[t] # "idle" /\ job[t] \in Job /\ Name(t) \in Names
  BY DEF Serves
<1>2. lock = t /\ \A u \in Tasks \ {t} : pc[u] \in {"idle", "lock"}
  BY Alone
<1>3. Serves(t) /\ UploadShape(t)
  OBVIOUS
<1>4. TypeOK'
  BY <1>1, <1>2, <1>3 DEF Serves, UploadShape, UploadPcs
<1>5. Holding'
  BY <1>1, <1>2, <1>3 DEF Holding
<1>6. WholeOrNothing'
  BY <1>1, <1>2, <1>3 DEF WholeOrNothing, UploadShape
<1>7. Leftover'
  BY <1>1, <1>2, <1>3 DEF Leftover, UploadPcs, UploadShape
<1>8. ParsesWhole'
  BY <1>1, <1>2, <1>3 DEF ParsesWhole, Serves, UploadPcs, WholeOrNothing
<1>9. Serves(t)' /\ UploadShape(t)'
  BY <1>1, <1>2, <1>3 DEF Serves, UploadShape, UploadPcs, Kinds
<1>10. ASSUME NEW u \in Tasks \ {t} PROVE Serves(u)' /\ UploadShape(u)'
  BY <1>1, <1>2, <1>3 DEF Serves, UploadShape, UploadPcs
<1> QED
  BY <1>4, <1>5, <1>6, <1>7, <1>8, <1>9, <1>10 DEF Serves, UploadShape

LEMMA ListEndsStep ==
  ASSUME FileInv, NEW t \in Tasks, ListEnds(t)
  PROVE  FileInv'
<1> USE Records, FileAssumption
    DEF FileInv, TypeOK, At, Goto, Finished, Name, Uploads, New, ListEnds, Pcs
<1>1. pc[t] # "idle" /\ job[t] \in Job /\ Name(t) \in Names
  BY DEF Serves
<1>2. lock = t /\ \A u \in Tasks \ {t} : pc[u] \in {"idle", "lock"}
  BY Alone
<1>3. Serves(t) /\ UploadShape(t)
  OBVIOUS
<1>4. TypeOK'
  BY <1>1, <1>2, <1>3 DEF Serves, UploadShape, UploadPcs
<1>5. Holding'
  BY <1>1, <1>2, <1>3 DEF Holding
<1>6. WholeOrNothing'
  BY <1>1, <1>2, <1>3 DEF WholeOrNothing, UploadShape
<1>7. Leftover'
  BY <1>1, <1>2, <1>3 DEF Leftover, UploadPcs, UploadShape
<1>8. ParsesWhole'
  BY <1>1, <1>2, <1>3 DEF ParsesWhole, Serves, UploadPcs, WholeOrNothing
<1>9. Serves(t)' /\ UploadShape(t)'
  BY <1>1, <1>2, <1>3 DEF Serves, UploadShape, UploadPcs, Kinds
<1>10. ASSUME NEW u \in Tasks \ {t} PROVE Serves(u)' /\ UploadShape(u)'
  BY <1>1, <1>2, <1>3 DEF Serves, UploadShape, UploadPcs
<1> QED
  BY <1>4, <1>5, <1>6, <1>7, <1>8, <1>9, <1>10 DEF Serves, UploadShape

LEMMA RequestStep ==
  ASSUME FileInv, NEW t \in Tasks, NEW j \in Job, Request(t, j)
  PROVE  FileInv'
<1> USE Records DEF FileInv, TypeOK, At, Goto, Name, Uploads, New, Request, Pcs
<1>1. TypeOK' /\ Holding' /\ WholeOrNothing'
  BY DEF Holding, WholeOrNothing
<1>2. Leftover'
  BY DEF Leftover, UploadPcs
<1>3. ParsesWhole'
  BY DEF ParsesWhole
<1>4. ASSUME NEW u \in Tasks PROVE Serves(u)' /\ UploadShape(u)'
  BY <1>4 DEF Serves, UploadShape, UploadPcs
<1> QED
  BY <1>1, <1>2, <1>3, <1>4 DEF Serves, UploadShape

LEMMA RestartStep ==
  ASSUME FileInv, Restart
  PROVE  FileInv'
<1> USE Records, FileAssumption
    DEF FileInv, TypeOK, At, Name, Uploads, New, Restart, Forget, Pcs
<1>1. /\ tmp' \in [Names -> {Absent} \cup Contents]
      /\ \A n \in Names : tmp[n] = Absent => tmp'[n] = Absent
  <2>1. CASE UNCHANGED tmp
    BY <2>1
  <2>2. CASE pc[lock] \in {"recv", "close"} /\ Truncated(Name(lock))
    <3>1. lock \in Tasks
      BY DEF Restart
    <3>5. UploadShape(lock) /\ job[lock] \in Job
      <4>1. Serves(lock) /\ UploadShape(lock)
        BY <3>1
      <4> QED
        BY <2>2, <3>1, <4>1 DEF Serves
    <3>2. tmp[Name(lock)] \in Contents
      <4>1. CASE At(lock, "recv")
        BY <3>5, <4>1 DEF UploadShape
      <4>2. CASE At(lock, "close")
        BY <3>5, <4>2 DEF UploadShape
      <4> QED
        BY <2>2, <4>1, <4>2
    <3>3. PICK k \in 0 .. Size :
            tmp' = [tmp EXCEPT ![Name(lock)] = Content(tmp[Name(lock)].ver, k)]
      BY <2>2 DEF Truncated
    <3>4. Content(tmp[Name(lock)].ver, k) \in Contents /\ tmp[Name(lock)] # Absent
      BY <3>2 DEF Contents
    <3> QED
      BY <3>1, <3>3, <3>4, <3>5
  <2> QED
    BY <2>1, <2>2
<1>2. TypeOK' /\ Holding' /\ WholeOrNothing'
  BY <1>1 DEF Holding, WholeOrNothing
<1>3. Leftover'
  BY <1>1 DEF Leftover
<1>4. ParsesWhole'
  BY DEF ParsesWhole
<1>5. ASSUME NEW u \in Tasks PROVE Serves(u)' /\ UploadShape(u)'
  BY DEF Serves, UploadShape, UploadPcs, NoJob
<1> QED
  BY <1>2, <1>3, <1>4, <1>5 DEF Serves, UploadShape

LEMMA InitHolds == Init => FileInv
<1> SUFFICES ASSUME Init PROVE FileInv
  OBVIOUS
<1> USE Records, FileAssumption DEF Init, At
<1>1. TypeOK /\ WholeOrNothing
  BY DEF TypeOK, WholeOrNothing, Pcs
<1>2. Holding /\ Leftover /\ ParsesWhole
  BY DEF Holding, Leftover, ParsesWhole
<1>3. ASSUME NEW t \in Tasks PROVE Serves(t) /\ UploadShape(t)
  BY DEF Serves, UploadShape, UploadPcs
<1> QED
  BY <1>1, <1>2, <1>3 DEF FileInv

LEMMA StepHolds ==
  ASSUME FileInv, NEW t \in Tasks, Step(t)
  PROVE  FileInv'
<1>1. CASE Upload(t)
  <2>1. ASSUME NEW k \in 1 .. Chunk, Recv(t, k) PROVE FileInv'
    <3>1. k \in 0 .. Chunk
      OBVIOUS
    <3> QED
      BY <2>1, <3>1, RecvStep
  <2>2. ASSUME NEW k \in 0 .. Chunk - 1, RecvFails(t, k) PROVE FileInv'
    <3>1. k \in 0 .. Chunk
      BY FileAssumption
    <3> QED
      BY <2>2, <3>1, RecvFailsStep
  <2> QED
    BY <1>1, <2>1, <2>2, OpenStep, OpenFailsStep, NoBufferStep, RecvTimeoutStep, CloseStep,
       CloseFailsStep, RemoveOldStep, RenameStep, RenameFailsStep, CleanupStep DEF Upload
<1>2. CASE Lock(t) \/ Unlock(t)
  BY <1>2, LockStep, UnlockStep
<1>3. CASE Delete(t) \/ DeleteTmp(t) \/ DeleteFails(t)
  BY <1>3, DeleteStep, DeleteTmpStep, DeleteFailsStep
<1>4. CASE Read(t) \/ ReadEnds(t) \/ ReadFails(t) \/ ListEntry(t) \/ ListEnds(t)
  BY <1>4, ReadStep, ReadEndsStep, ReadFailsStep, ListEntryStep, ListEndsStep
<1> QED
  BY <1>1, <1>2, <1>3, <1>4 DEF Step

LEMMA NextHolds == FileInv /\ [Next]_vars => FileInv'
<1> SUFFICES ASSUME FileInv, [Next]_vars PROVE FileInv'
  OBVIOUS
<1>1. CASE UNCHANGED vars
  BY <1>1 DEF vars, taskVars, FileInv, TypeOK, Holding, WholeOrNothing, Leftover, ParsesWhole,
              Serves, UploadShape, At, Name, Uploads, New
<1>2. ASSUME NEW t \in Tasks, Step(t) \/ \E j \in Job : Request(t, j) PROVE FileInv'
  BY <1>2, StepHolds, RequestStep
<1>3. CASE Restart
  BY <1>3, RestartStep
<1> QED
  BY <1>1, <1>2, <1>3 DEF Next

(* FileInv is an invariant: every handler keeps to the mutex, and an upload *)
(* writes nothing but its temporary until it is complete.                   *)
THEOREM FileInductive == Spec => []FileInv
BY InitHolds, NextHolds, PTL DEF Spec

(* The variables keep their types; a silent client is waited for no more    *)
(* than MaxTimeouts times in a row.                                         *)
THEOREM FileTypes == Spec => []TypeOK
<1>1. FileInv => TypeOK
  BY DEF FileInv
<1> QED
  BY <1>1, FileInductive, PTL

(* A name holds a complete upload or nothing, through failures and restarts.*)
THEOREM NamesWhole == Spec => []WholeOrNothing
<1>1. FileInv => WholeOrNothing
  BY DEF FileInv
<1> QED
  BY <1>1, FileInductive, PTL

(* A success that upload_handler answers is true: the upload is the file.    *)
THEOREM SuccessIsStored == Spec => []OkMeansStored
<1>1. FileInv => OkMeansStored
  BY DEF FileInv, OkMeansStored, UploadShape, At
<1> QED
  BY <1>1, FileInductive, PTL

(* A failure that it answers, other than that of the rename, has left the    *)
(* old file.                                                                 *)
THEOREM FailureKeepsOld == Spec => []FailKeepsOld
<1>1. FileInv => FailKeepsOld
  BY DEF FileInv, FailKeepsOld, UploadShape, At
<1> QED
  BY <1>1, FileInductive, PTL

(* At every moment of a replacement the old or the new content is complete  *)
(* on the disk, so a restart at that moment loses at most one of them.      *)
THEOREM OneCopySurvives == Spec => []KeepsACopy
<1>1. ASSUME FileInv PROVE KeepsACopy
  <2> SUFFICES ASSUME NEW t \in Tasks, lock = t, Uploads(t), ~renameFailed[t]
               PROVE  file[Name(t)] \in {old[t], New(t)} \/ tmp[Name(t)] = New(t)
    BY DEF KeepsACopy
  <2>1. pc[t] \in UploadPcs \cup {"unlock"}
    BY <1>1 DEF FileInv, TypeOK, Pcs, Holding, Serves, Uploads, At, UploadPcs
  <2> QED
    BY <1>1, <2>1 DEF FileInv, UploadShape, UploadPcs, At
<1> QED
  BY <1>1, FileInductive, PTL

(* A temporary belongs to the upload under way or was left by a restart or  *)
(* a failed remove.                                                         *)
THEOREM TmpRemoved == Spec => []NoLeftovers
<1>1. FileInv => NoLeftovers
  BY DEF FileInv, NoLeftovers, Leftover, Holding, Serves, UploadPcs
<1> QED
  BY <1>1, FileInductive, PTL

(* A configuration is parsed from a complete upload only.                   *)
THEOREM ParsedWhole == Spec => []ParsesWhole
<1>1. FileInv => ParsesWhole
  BY DEF FileInv
<1> QED
  BY <1>1, FileInductive, PTL

(* No file changes while a handler reads or lists: the mutex excludes every *)
(* step that changes one.                                                   *)
THEOREM ReadersUndisturbed == Spec => ReaderStable
<1>1. ASSUME FileInv, [Next]_vars
      PROVE  (\E t \in Tasks : pc[t] \in {"read", "list"}) => UNCHANGED file
  <2> SUFFICES ASSUME NEW t \in Tasks, pc[t] \in {"read", "list"} PROVE UNCHANGED file
    OBVIOUS
  <2>1. \A u \in Tasks : pc[u] \in {"idle", "lock", "read", "list"}
    BY <1>1, Alone
  <2>2. ASSUME NEW u \in Tasks, Step(u) PROVE UNCHANGED file
    BY <2>1, <2>2 DEF Step, Upload, Lock, Unlock, Open, OpenFails, NoBuffer, Recv, RecvTimeout,
      RecvFails, Close, CloseFails, RemoveOld, Rename, RenameFails, Cleanup, Delete, DeleteTmp,
      DeleteFails, Read, ReadEnds, ReadFails, ListEntry, ListEnds, At
  <2>3. ASSUME NEW u \in Tasks, NEW j \in Job, Request(u, j) PROVE UNCHANGED file
    BY <2>3 DEF Request
  <2> QED
    BY <1>1, <2>2, <2>3 DEF Next, Restart, vars
<1> QED
  BY <1>1, FileInductive, PTL DEF Spec, ReaderStable

-----------------------------------------------------------------------------
(* Who holds the mutex comes nearer to giving it back with every step.     *)

\* The waits for a client that its upload may still spend in the loop: on the
\* units to come, each with its timeouts, and on the timeouts of this one.
WaitsLeft(t) == (Size - received[t]) * (MaxTimeouts + 1) + MaxTimeouts - timeouts[t]

\* The most steps that a task still makes before the mutex is free again.
StepsLeft(t) ==
  CASE At(t, "open") -> 7 + Size * (MaxTimeouts + 1) + MaxTimeouts
    [] At(t, "recv") -> 6 + WaitsLeft(t)
    [] At(t, "close") -> 5
    [] At(t, "replace") -> 4
    [] At(t, "rename") -> 3
    [] pc[t] \in {"cleanup", "delete"} -> 2
    [] pc[t] \in {"read", "list"} -> 2 + Size - received[t]
    [] OTHER -> 1
MostSteps == 7 + Size * (MaxTimeouts + 1) + MaxTimeouts

\* As long as a task holds the mutex, nobody sets it back.
ComesNearer ==
  \A t \in Tasks : lock = t =>
    \/ lock' = Nobody
    \/ lock' = t /\ StepsLeft(t)' <= StepsLeft(t) /\ (Step(t) => StepsLeft(t)' < StepsLeft(t))

LEMMA WaitsFit ==
  ASSUME NEW a \in Nat, NEW b \in Nat, a < b
  PROVE  /\ a * (MaxTimeouts + 1) \in Nat /\ b * (MaxTimeouts + 1) \in Nat
         /\ a * (MaxTimeouts + 1) + MaxTimeouts + 1 <= b * (MaxTimeouts + 1)
<1> DEFINE m == MaxTimeouts + 1  c == b - (a + 1)
<1>1. m \in Nat /\ c \in Nat /\ b = (a + 1) + c
  BY FileAssumption
<1> HIDE DEF m, c
<1>2. a * m \in Nat /\ b * m \in Nat /\ c * m \in Nat
  BY <1>1
<1>3. ((a + 1) + c) * m = (a * m + m) + c * m
  BY <1>1
<1>4. a * m + m <= b * m
  BY <1>1, <1>2, <1>3
<1> QED
  BY <1>1, <1>2, <1>4, FileAssumption DEF m

\* Where the holder of the mutex can be, and its numbers there.
LEMMA HolderIs ==
  ASSUME FileInv, NEW t \in Tasks, lock = t
  PROVE  /\ pc[t] \in Pcs \ {"idle", "lock"}
         /\ received[t] \in 0 .. Size /\ timeouts[t] \in 0 .. MaxTimeouts
         /\ At(t, "recv") => received[t] < Size
         /\ Size \in Nat \ {0} /\ MaxTimeouts \in Nat
BY FileAssumption DEF FileInv, TypeOK, Holding, UploadShape, At

LEMMA StepsLeftIs ==
  ASSUME FileInv, NEW t \in Tasks, lock = t
  PROVE  StepsLeft(t) \in Nat /\ 1 <= StepsLeft(t) /\ StepsLeft(t) <= MostSteps
<1>1. Size * (MaxTimeouts + 1) \in Nat /\ Size <= Size * (MaxTimeouts + 1)
  <2>1. 0 \in Nat /\ Size * (MaxTimeouts + 1) = Size * MaxTimeouts + Size
        /\ Size * MaxTimeouts \in Nat
    BY FileAssumption
  <2> QED
    BY <2>1, FileAssumption
<1>2. CASE At(t, "recv")
  <2>1. StepsLeft(t) = 6 + WaitsLeft(t)
    BY <1>2 DEF StepsLeft, At
  <2>2. /\ (Size - received[t]) * (MaxTimeouts + 1) \in Nat
        /\ (Size - received[t]) * (MaxTimeouts + 1) <= Size * (MaxTimeouts + 1)
    <3>1. CASE received[t] = 0
      BY <1>1, <3>1, HolderIs
    <3>2. CASE received[t] > 0
      <4> DEFINE a == Size - received[t]
      <4>1. a \in Nat /\ Size \in Nat /\ a < Size
        BY <3>2, HolderIs
      <4> HIDE DEF a
      <4>2. a * (MaxTimeouts + 1) \in Nat /\ a * (MaxTimeouts + 1) <= Size * (MaxTimeouts + 1)
        BY <1>1, <4>1, WaitsFit, FileAssumption
      <4> QED
        BY <4>2 DEF a
    <3> QED
      BY <3>1, <3>2, HolderIs
  <2> DEFINE w == (Size - received[t]) * (MaxTimeouts + 1)  z == Size * (MaxTimeouts + 1)
  <2>3. WaitsLeft(t) = w + MaxTimeouts - timeouts[t] /\ MostSteps = 7 + z + MaxTimeouts
    BY DEF WaitsLeft, MostSteps
  <2>4. w \in Nat /\ z \in Nat /\ w <= z
    BY <1>1, <2>2
  <2> HIDE DEF w, z
  <2> QED
    BY <2>1, <2>3, <2>4, HolderIs
<1>3. CASE ~At(t, "recv")
  <2> DEFINE z == Size * (MaxTimeouts + 1)
  <2>1. z \in Nat /\ Size <= z /\ MostSteps = 7 + z + MaxTimeouts
    BY <1>1 DEF MostSteps
  <2>2. At(t, "open") => StepsLeft(t) = 7 + z + MaxTimeouts
    BY DEF StepsLeft, At
  <2>3. ~At(t, "open") => StepsLeft(t) \in {1, 2, 3, 4, 5, 2 + Size - received[t]}
    BY <1>3 DEF StepsLeft
  <2> HIDE DEF z
  <2> QED
    BY <2>1, <2>2, <2>3, HolderIs
<1> QED
  BY <1>2, <1>3

\* What a step of the holder does.
Nearer(t) == StepsLeft(t)' \in Int /\ StepsLeft(t)' < StepsLeft(t)

\* A receive, and a timeout, leave fewer waits.
LEMMA FewerWaits ==
  ASSUME FileInv, NEW t \in Tasks, lock = t, At(t, "recv")
  PROVE  /\ WaitsLeft(t) \in Nat
         /\ \A k \in 1 .. Chunk : Recv(t, k) => Nearer(t)
         /\ RecvTimeout(t) => Nearer(t)
<1> USE DEF Nearer
<1> DEFINE w == (Size - received[t]) * (MaxTimeouts + 1)
<1>1. w \in Nat /\ Size - received[t] \in Nat
  <2> DEFINE a == Size - received[t]
  <2>1. a \in Nat /\ a < a + 1
    BY HolderIs
  <2> HIDE DEF a
  <2>2. a * (MaxTimeouts + 1) \in Nat
    BY <2>1, WaitsFit
  <2> QED
    BY <2>1, <2>2 DEF a
<1>2. WaitsLeft(t) = w + MaxTimeouts - timeouts[t] /\ StepsLeft(t) = 6 + WaitsLeft(t)
  BY DEF WaitsLeft, StepsLeft, At
<1>3. ASSUME NEW k \in 1 .. Chunk, Recv(t, k) PROVE Nearer(t)
  <2>1. received[t]' = received[t] + k /\ timeouts[t]' = 0 /\ k <= Size - received[t]
        /\ received[t] + k \in 0 .. Size
        /\ pc[t]' = IF received[t] + k = Size THEN "close" ELSE "recv"
    BY <1>3, HolderIs, FileAssumption DEF Recv, Goto, FileInv, TypeOK
  <2>2. CASE received[t] + k = Size
    <3>1. StepsLeft(t)' = 5
      BY <2>1, <2>2 DEF StepsLeft, At
    <3> HIDE DEF w
    <3> QED
      BY <1>1, <1>2, <3>1, HolderIs
  <2>3. CASE received[t] + k # Size
    <3> DEFINE a == Size - (received[t] + k)  v == a * (MaxTimeouts + 1)
    <3>1. StepsLeft(t)' = 6 + (v + MaxTimeouts - 0)
      <4>1. WaitsLeft(t)' = v + MaxTimeouts - 0
        BY <2>1 DEF WaitsLeft
      <4> QED
        BY <2>1, <2>3, <4>1 DEF StepsLeft, At
    <3>2. a \in Nat /\ a < Size - received[t]
      BY <2>1, HolderIs, FileAssumption
    <3>3. v \in Nat /\ v + MaxTimeouts + 1 <= w
      BY <1>1, <3>2, WaitsFit
    <3> HIDE DEF v, w
    <3> QED
      BY <1>1, <1>2, <3>1, <3>3, HolderIs
  <2> QED
    BY <2>2, <2>3
<1>4. ASSUME RecvTimeout(t) PROVE Nearer(t)
  <2>1. received[t]' = received[t] /\ timeouts[t]' = timeouts[t] + 1 /\ pc[t]' = pc[t]
    BY <1>4 DEF RecvTimeout, FileInv, TypeOK
  <2>2. StepsLeft(t)' = 6 + (w + MaxTimeouts - (timeouts[t] + 1))
    BY <2>1 DEF StepsLeft, WaitsLeft, At
  <2> HIDE DEF w
  <2> QED
    BY <1>1, <1>2, <2>2, HolderIs
<1>5. WaitsLeft(t) \in Nat
  <2> HIDE DEF w
  <2> QED
    BY <1>1, <1>2, HolderIs
<1> QED
  BY <1>3, <1>4, <1>5

\* What the holder does brings it nearer to giving the mutex back.
LEMMA HolderGoesOn ==
  ASSUME FileInv, NEW t \in Tasks, lock = t, Step(t)
  PROVE  lock' = Nobody \/ (lock' = t /\ Nearer(t))
<1> USE DEF Nearer
<1> DEFINE z == Size * (MaxTimeouts + 1)
<1>1. pc \in [Tasks -> Pcs] /\ ok \in [Tasks -> BOOLEAN] /\ received \in [Tasks -> 0 .. Size]
  BY DEF FileInv, TypeOK
<1>2. ~Lock(t)
  <2>1. pc[t] # "lock"
    BY HolderIs
  <2> QED
    BY <2>1 DEF Lock, At
<1>3. CASE Unlock(t)
  BY <1>3 DEF Unlock
<1>4. CASE Open(t)
  <2>1. lock' = t /\ pc[t] = "open" /\ pc[t]' = "recv" /\ UNCHANGED <<received, timeouts>>
    BY <1>1, <1>4 DEF Open, At, Goto
  <2>2. received[t] = 0
    BY <2>1 DEF FileInv, UploadShape, At
  <2>3. /\ StepsLeft(t) = 7 + z + MaxTimeouts
        /\ StepsLeft(t)' = 6 + ((Size - 0) * (MaxTimeouts + 1) + MaxTimeouts - timeouts[t])
    BY <2>1, <2>2 DEF StepsLeft, WaitsLeft, At
  <2>4. z \in Nat /\ (Size - 0) * (MaxTimeouts + 1) = z
    BY FileAssumption
  <2> HIDE DEF z
  <2> QED
    BY <2>1, <2>3, <2>4, HolderIs
<1>5. CASE \E k \in 1 .. Chunk : Recv(t, k)
  <2>1. At(t, "recv") /\ lock' = t
    BY <1>5 DEF Recv
  <2> QED
    BY <1>5, <2>1, FewerWaits
<1>6. CASE RecvTimeout(t)
  <2>1. At(t, "recv") /\ lock' = t
    BY <1>6 DEF RecvTimeout
  <2> QED
    BY <1>6, <2>1, FewerWaits
<1>7. CASE \E k \in 0 .. Chunk - 1 : RecvFails(t, k)
  <2>1. At(t, "recv") /\ lock' = t /\ pc[t]' = "close"
    BY <1>1, <1>7 DEF RecvFails, Goto
  <2>2. StepsLeft(t) = 6 + WaitsLeft(t) /\ StepsLeft(t)' = 5 /\ WaitsLeft(t) \in Nat
    BY <2>1, FewerWaits DEF StepsLeft, At
  <2> QED
    BY <2>1, <2>2
<1>8. CASE Read(t) \/ ListEntry(t)
  <2>1. lock' = t /\ pc[t] \in {"read", "list"} /\ pc' = pc /\ received[t]' = received[t] + 1
    BY <1>1, <1>8 DEF Read, ListEntry, At
  <2>2. /\ StepsLeft(t) = 2 + Size - received[t]
        /\ StepsLeft(t)' = 2 + Size - (received[t] + 1)
    BY <2>1 DEF StepsLeft, At
  <2> QED
    BY <2>1, <2>2, HolderIs
<1>9. CASE OpenFails(t) \/ NoBuffer(t)
  <2>1. lock' = t /\ pc[t] = "open" /\ pc[t]' = "unlock"
    BY <1>1, <1>9 DEF OpenFails, NoBuffer, At, Goto
  <2>2. StepsLeft(t) = 7 + z + MaxTimeouts /\ StepsLeft(t)' = 1 /\ z \in Nat
    BY <2>1, FileAssumption DEF StepsLeft, At
  <2> HIDE DEF z
  <2> QED
    BY <2>1, <2>2, FileAssumption
<1>10. CASE ReadEnds(t) \/ ReadFails(t) \/ ListEnds(t)
  <2>1. lock' = t /\ pc[t] \in {"read", "list"} /\ pc[t]' = "unlock"
    BY <1>1, <1>10 DEF ReadEnds, ReadFails, ListEnds, At, Goto
  <2>2. StepsLeft(t) = 2 + Size - received[t] /\ StepsLeft(t)' = 1
    BY <2>1 DEF StepsLeft, At
  <2> QED
    BY <2>1, <2>2, HolderIs
<1>11. CASE \/ Close(t) \/ CloseFails(t) \/ RemoveOld(t) \/ Rename(t) \/ RenameFails(t)
            \/ Cleanup(t) \/ Delete(t) \/ DeleteTmp(t) \/ DeleteFails(t)
  <2>1. /\ lock' = t
        /\ <<pc[t], pc[t]'>> \in
             {<<"close", "replace">>, <<"close", "cleanup">>, <<"replace", "rename">>,
              <<"rename", "unlock">>, <<"rename", "cleanup">>, <<"cleanup", "unlock">>,
              <<"delete", "unlock">>}
    BY <1>1, <1>11 DEF Close, CloseFails, RemoveOld, Rename, RenameFails, AfterFailedRename,
      Cleanup, Delete, DeleteTmp, DeleteFails, At, Goto
  <2>2. Nearer(t)
    BY <2>1 DEF StepsLeft, At
  <2> QED
    BY <2>1, <2>2
<1> QED
  BY <1>2, <1>3, <1>4, <1>5, <1>6, <1>7, <1>8, <1>9, <1>10, <1>11 DEF Step, Upload

\* The requests of others, and their waiting, leave the holder where it is.
LEMMA OthersWait ==
  ASSUME FileInv, NEW t \in Tasks, lock = t, NEW u \in Tasks \ {t}
  PROVE  /\ ~Step(u)
         /\ \A j \in Job : Request(u, j) => lock' = t /\ StepsLeft(t)' = StepsLeft(t)
<1>1. pc[u] \in {"idle", "lock"} /\ lock # Nobody
  BY FileAssumption DEF FileInv, Holding
<1>2. ~Step(u)
  BY <1>1 DEF Step, Upload, Lock, Free, Unlock, Open, OpenFails, NoBuffer, Recv, RecvTimeout,
    RecvFails, Close, CloseFails, RemoveOld, Rename, RenameFails, Cleanup, Delete, DeleteTmp,
    DeleteFails, Read, ReadEnds, ReadFails, ListEntry, ListEnds, At
<1>3. ASSUME NEW j \in Job, Request(u, j) PROVE lock' = t /\ StepsLeft(t)' = StepsLeft(t)
  <2>1. lock' = t /\ pc[t]' = pc[t] /\ UNCHANGED <<received, timeouts>>
    BY <1>3 DEF Request, Goto, FileInv, TypeOK
  <2> QED
    BY <2>1 DEF StepsLeft, WaitsLeft, At
<1> QED
  BY <1>2, <1>3

\* No handler keeps the mutex: its holder makes at most MostSteps steps before it
\* gives it back, each of them brings it nearer, and nothing another task does
\* sets it back.  (fs_lock, fs_unlock and the loops of upload_handler,
\* stream_file and list_dir_entries.)  With the calls returning, this is why
\* EveryRequestAnswered holds for files of every size.
THEOREM MutexGivenBack ==
  Spec => /\ [](\A t \in Tasks : lock = t => StepsLeft(t) \in 1 .. MostSteps)
          /\ [][ComesNearer]_vars
<1>1. FileInv => \A t \in Tasks : lock = t => StepsLeft(t) \in 1 .. MostSteps
  <2> SUFFICES ASSUME FileInv, NEW t \in Tasks, lock = t
               PROVE  StepsLeft(t) \in 1 .. MostSteps
    OBVIOUS
  <2>1. Size * (MaxTimeouts + 1) \in Nat
    BY FileAssumption
  <2>2. MostSteps \in Nat
    BY <2>1, FileAssumption DEF MostSteps
  <2> QED
    BY <2>2, StepsLeftIs
<1>2. FileInv /\ [Next]_vars => [ComesNearer]_vars
  <2> SUFFICES ASSUME FileInv, Next PROVE ComesNearer
    OBVIOUS
  <2> SUFFICES ASSUME NEW t \in Tasks, lock = t
               PROVE  \/ lock' = Nobody
                      \/ /\ lock' = t /\ StepsLeft(t)' <= StepsLeft(t)
                         /\ Step(t) => StepsLeft(t)' < StepsLeft(t)
    BY DEF ComesNearer
  <2>1. StepsLeft(t) \in Nat
    BY StepsLeftIs
  <2>2. CASE Step(t)
    BY <2>1, <2>2, HolderGoesOn DEF Nearer
  <2>3. CASE ~Step(t) /\ \E u \in Tasks : Step(u) \/ \E j \in Job : Request(u, j)
    <3>1. \A j \in Job : ~Request(t, j)
      BY HolderIs DEF Request, At
    <3> QED
      BY <2>1, <2>3, <3>1, OthersWait
  <2>4. CASE Restart
    BY <2>4 DEF Restart
  <2>5. (\E u \in Tasks : Step(u) \/ \E j \in Job : Request(u, j)) \/ Restart
    BY DEF Next
  <2> QED
    BY <2>2, <2>3, <2>4, <2>5
<1> QED
  BY <1>1, <1>2, FileInductive, PTL DEF Spec
=============================================================================
