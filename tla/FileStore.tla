----------------------------- MODULE FileStore -----------------------------
(***************************************************************************)
(* The files under /disk and the HTTP handlers that use them:              *)
(* upload_handler and download_handler (app_web_file_transfer.c),          *)
(* delete_handler, files_handler, bin_parse_handler and load_parsed_bin,   *)
(* each under the filesystem mutex of app_storage_lock.c.                  *)
(*                                                                         *)
(* In the firmware one task, that of the HTTP server, runs every handler;  *)
(* the mutex is there for any number, and so is this module.  A name is    *)
(* that of a board configuration (x.bin, all the page uploads); its        *)
(* temporary is x.bin.tmp.  The FAT file system is external: each of its   *)
(* calls may fail, a rename fails when the new name exists, and a directory*)
(* entry is changed at once.  The ESP32 may restart between any two calls. *)
(***************************************************************************)
EXTENDS Integers

CONSTANTS
  Tasks,        \* tasks that run handlers
  Nobody,       \* the holder of a free mutex
  Names,        \* board configurations
  Versions,     \* the contents that are uploaded
  Absent,       \* no such file
  Size,         \* content_len, in units of what one receive may bring
  Chunk,        \* APP_WEB_UPLOAD_BUF_SIZE
  MaxTimeouts   \* max_timeout_count

ASSUME FileAssumption ==
  /\ Nobody \notin Tasks
  /\ Size \in Nat \ {0} /\ Chunk \in Nat \ {0} /\ MaxTimeouts \in Nat
  /\ Absent \notin [ver : Versions, len : 0 .. Size]

VARIABLES
  file,       \* the files, by name
  tmp,        \* their temporaries
  lock,       \* holder of s_fs_mutex
  pc,         \* where each task is
  job,        \* the request each task serves
  received,   \* bytes received by an upload, or entries listed, or chunks sent
  timeouts,   \* timeout_count
  ok,         \* ret == ESP_OK
  old,        \* history: what an upload found under its name
  stale,      \* history: names whose temporary a restart or a failed remove left
  renameFailed \* history: the upload's rename failed

taskVars == <<pc, job, received, timeouts, ok, old, renameFailed>>
vars == <<file, tmp, lock, stale, taskVars>>

-----------------------------------------------------------------------------
Content(v, k) == [ver |-> v, len |-> k]
Contents == [ver : Versions, len : 0 .. Size]
Whole == {Absent} \cup {Content(v, Size) : v \in Versions}
Kinds == {"upload", "download", "parse", "delete", "deleteTmp", "list"}
Job == [kind : Kinds, name : Names, ver : Versions]
NoJob == [kind |-> "none"]
Pcs == {"idle", "lock", "open", "recv", "close", "replace", "rename", "cleanup", "delete",
        "read", "list", "unlock"}

At(t, l) == pc[t] = l
Goto(t, l) == pc' = [pc EXCEPT ![t] = l]
Name(t) == job[t].name
Finished(t, b) == ok' = [ok EXCEPT ![t] = b]

Init ==
  /\ file \in [Names -> Whole]
  /\ tmp = [n \in Names |-> Absent]
  /\ lock = Nobody /\ stale = {}
  /\ pc = [t \in Tasks |-> "idle"]
  /\ job = [t \in Tasks |-> NoJob]
  /\ received = [t \in Tasks |-> 0] /\ timeouts = [t \in Tasks |-> 0]
  /\ ok = [t \in Tasks |-> TRUE] /\ renameFailed = [t \in Tasks |-> FALSE]
  /\ old = [t \in Tasks |-> Absent]

\* A request arrives; what is refused before the lock changes nothing.
Request(t, j) ==
  /\ At(t, "idle")
  /\ Goto(t, "lock")
  /\ job' = [job EXCEPT ![t] = j]
  /\ UNCHANGED <<file, tmp, lock, stale, received, timeouts, ok, old, renameFailed>>

\* (Variant: a handler that reads does not take the lock in earnest.)
FreeOrReading == lock = Nobody \/ \E u \in Tasks : lock = u /\ pc[u] = "read"
Free == lock = Nobody

FirstStep(kind) ==
  CASE kind = "upload" -> "open"
    [] kind \in {"delete", "deleteTmp"} -> "delete"
    [] kind = "list" -> "list"
    [] OTHER -> "read"

Lock(t) ==
  /\ At(t, "lock") /\ Free
  /\ lock' = t
  /\ Goto(t, FirstStep(job[t].kind))
  /\ old' = [old EXCEPT ![t] = file[Name(t)]]
  /\ UNCHANGED <<file, tmp, stale, job, received, timeouts, ok, renameFailed>>

\* The handler returns, and its variables are gone.
Forget(S) ==
  /\ pc' = [t \in Tasks |-> IF t \in S THEN "idle" ELSE pc[t]]
  /\ job' = [t \in Tasks |-> IF t \in S THEN NoJob ELSE job[t]]
  /\ received' = [t \in Tasks |-> IF t \in S THEN 0 ELSE received[t]]
  /\ timeouts' = [t \in Tasks |-> IF t \in S THEN 0 ELSE timeouts[t]]
  /\ ok' = [t \in Tasks |-> t \in S \/ ok[t]]
  /\ old' = [t \in Tasks |-> IF t \in S THEN Absent ELSE old[t]]
  /\ renameFailed' = [t \in Tasks |-> t \notin S /\ renameFailed[t]]

Unlock(t) ==
  /\ At(t, "unlock")
  /\ lock' = Nobody
  /\ Forget({t})
  /\ UNCHANGED <<file, tmp, stale>>

-----------------------------------------------------------------------------
(* upload_handler.                                                          *)

SetTmp(t, c) == tmp' = [tmp EXCEPT ![Name(t)] = c]

\* remove(tmp_path), whose result is not looked at: c is what stays if it fails.
RemoveTmp(t, c) ==
  \/ SetTmp(t, Absent) /\ stale' = stale \ {Name(t)}
  \/ SetTmp(t, c) /\ stale' = stale \cup {Name(t)}

\* (Variant: the old file makes way at once.)
OpenRemovesOld(t) ==
  /\ At(t, "open")
  /\ SetTmp(t, Content(job[t].ver, 0))
  /\ file' = [file EXCEPT ![Name(t)] = Absent]
  /\ stale' = stale \ {Name(t)}
  /\ Goto(t, "recv")
  /\ UNCHANGED <<lock, job, received, timeouts, ok, old, renameFailed>>
\* fopen(tmp_path, "wb") truncates what is there.
Open(t) ==
  /\ At(t, "open")
  /\ SetTmp(t, Content(job[t].ver, 0))
  /\ stale' = stale \ {Name(t)}
  /\ Goto(t, "recv")
  /\ UNCHANGED <<file, lock, job, received, timeouts, ok, old, renameFailed>>

\* (Variant: the lock is not given back.)
OpenFailsLocked(t) ==
  /\ At(t, "open")
  /\ Forget({t})
  /\ UNCHANGED <<file, tmp, lock, stale>>
OpenFails(t) ==
  /\ At(t, "open")
  /\ Goto(t, "unlock") /\ Finished(t, FALSE)
  /\ UNCHANGED <<file, tmp, lock, stale, job, received, timeouts, old, renameFailed>>

\* No memory for the buffer: the file is closed and removed again.
NoBuffer(t) ==
  /\ At(t, "open")
  /\ RemoveTmp(t, Content(job[t].ver, 0))
  /\ Goto(t, "unlock") /\ Finished(t, FALSE)
  /\ UNCHANGED <<file, lock, job, received, timeouts, old, renameFailed>>

\* The next k bytes are received and written.
Recv(t, k) ==
  /\ At(t, "recv")
  /\ k <= Size - received[t]
  /\ timeouts' = [timeouts EXCEPT ![t] = 0]
  /\ received' = [received EXCEPT ![t] = @ + k]
  /\ SetTmp(t, Content(job[t].ver, received[t] + k))
  /\ Goto(t, IF received[t] + k = Size THEN "close" ELSE "recv")
  /\ UNCHANGED <<file, lock, stale, job, ok, old, renameFailed>>

MayWait(t) == timeouts[t] < MaxTimeouts

RecvTimeout(t) ==
  /\ At(t, "recv") /\ MayWait(t)
  /\ timeouts' = [timeouts EXCEPT ![t] = @ + 1]
  /\ UNCHANGED <<file, tmp, lock, stale, pc, job, received, ok, old, renameFailed>>

\* The connection fails or times out once too often (k = 0), or fwrite has
\* written k units of what it was given and no more.
RecvFails(t, k) ==
  /\ At(t, "recv")
  /\ k <= Size - received[t]
  /\ SetTmp(t, Content(job[t].ver, received[t] + k))
  /\ Finished(t, FALSE)
  /\ Goto(t, "close")
  /\ UNCHANGED <<file, lock, stale, job, received, timeouts, old, renameFailed>>

\* (Variant: how the loop ended does not matter.)
ReceivedAlways(t) == TRUE
Received(t) == ok[t] /\ received[t] = Size

\* fflush and fclose.
Close(t) ==
  /\ At(t, "close") /\ Received(t)
  /\ Goto(t, "replace")
  /\ UNCHANGED <<file, tmp, lock, stale, job, received, timeouts, ok, old, renameFailed>>

CloseFails(t) ==
  /\ At(t, "close")
  /\ Finished(t, FALSE)
  /\ Goto(t, "cleanup")
  /\ UNCHANGED <<file, tmp, lock, stale, job, received, timeouts, old, renameFailed>>

\* remove(full_path), whose result is not looked at.
RemoveOld(t) ==
  /\ At(t, "replace")
  /\ \/ file' = [file EXCEPT ![Name(t)] = Absent]
     \/ UNCHANGED file
  /\ Goto(t, "rename")
  /\ UNCHANGED <<tmp, lock, stale, job, received, timeouts, ok, old, renameFailed>>

Rename(t) ==
  /\ At(t, "rename") /\ file[Name(t)] = Absent
  /\ file' = [file EXCEPT ![Name(t)] = tmp[Name(t)]]
  /\ SetTmp(t, Absent)
  /\ Goto(t, "unlock")
  /\ UNCHANGED <<lock, stale, job, received, timeouts, ok, old, renameFailed>>

\* (Variant: the result of the rename is not looked at.)
AfterFailedRenameOk(t) == Goto(t, "unlock") /\ UNCHANGED ok
AfterFailedRename(t) == Goto(t, "cleanup") /\ Finished(t, FALSE)

RenameFails(t) ==
  /\ At(t, "rename")
  /\ renameFailed' = [renameFailed EXCEPT ![t] = TRUE]
  /\ AfterFailedRename(t)
  /\ UNCHANGED <<file, tmp, lock, stale, job, received, timeouts, old>>

CleanupTmp(t) == RemoveTmp(t, tmp[Name(t)])

Cleanup(t) ==
  /\ At(t, "cleanup")
  /\ CleanupTmp(t)
  /\ Goto(t, "unlock")
  /\ UNCHANGED <<file, lock, job, received, timeouts, ok, old, renameFailed>>

-----------------------------------------------------------------------------
(* The other handlers.                                                      *)

\* delete_handler: stat, remove.  Any path may be named, a temporary's too.
Delete(t) ==
  /\ At(t, "delete") /\ job[t].kind = "delete"
  /\ file[Name(t)] # Absent
  /\ file' = [file EXCEPT ![Name(t)] = Absent]
  /\ Goto(t, "unlock")
  /\ UNCHANGED <<tmp, lock, stale, job, received, timeouts, ok, old, renameFailed>>

DeleteTmp(t) ==
  /\ At(t, "delete") /\ job[t].kind = "deleteTmp"
  /\ tmp[Name(t)] # Absent
  /\ SetTmp(t, Absent)
  /\ stale' = stale \ {Name(t)}
  /\ Goto(t, "unlock")
  /\ UNCHANGED <<file, lock, job, received, timeouts, ok, old, renameFailed>>

DeleteFails(t) ==
  /\ At(t, "delete")
  /\ Goto(t, "unlock") /\ Finished(t, FALSE)
  /\ UNCHANGED <<file, tmp, lock, stale, job, received, timeouts, old, renameFailed>>

\* stream_file chunk by chunk, or app_param_bin_parse_file.
Read(t) ==
  /\ At(t, "read")
  /\ file[Name(t)] # Absent /\ received[t] < file[Name(t)].len
  /\ received' = [received EXCEPT ![t] = @ + 1]
  /\ UNCHANGED <<file, tmp, lock, stale, pc, job, timeouts, ok, old, renameFailed>>

Parsable(t) == received[t] = file[Name(t)].len

\* fread returns nothing: the end of the file, or an error, which stream_file
\* takes for the end and read_whole_file notices.
ReadEnds(t) ==
  /\ At(t, "read")
  /\ file[Name(t)] # Absent
  /\ job[t].kind = "parse" => Parsable(t)
  /\ Goto(t, "unlock")
  /\ UNCHANGED <<file, tmp, lock, stale, job, received, timeouts, ok, old, renameFailed>>

\* No such file, no memory, a read that falls short, a client that is gone.
ReadFails(t) ==
  /\ At(t, "read")
  /\ Goto(t, "unlock") /\ Finished(t, FALSE)
  /\ UNCHANGED <<file, tmp, lock, stale, job, received, timeouts, old, renameFailed>>

\* files_handler: opendir, then one entry after the other.
ListEntry(t) ==
  /\ At(t, "list") /\ received[t] < Size
  /\ received' = [received EXCEPT ![t] = @ + 1]
  /\ UNCHANGED <<file, tmp, lock, stale, pc, job, timeouts, ok, old, renameFailed>>

ListEnds(t) ==
  /\ At(t, "list")
  /\ Goto(t, "unlock")
  /\ UNCHANGED <<file, tmp, lock, stale, job, received, timeouts, ok, old, renameFailed>>

-----------------------------------------------------------------------------
\* A file that was not closed may have lost its end.
Truncated(n) ==
  \E k \in 0 .. Size : k <= tmp[n].len /\ tmp' = [tmp EXCEPT ![n] = Content(tmp[n].ver, k)]

\* Outside a handler a restart has no effect on the files.
Restart ==
  /\ lock # Nobody
  /\ \/ UNCHANGED tmp
     \/ pc[lock] \in {"recv", "close"} /\ Truncated(Name(lock))
  /\ stale' = stale \cup {n \in Names : tmp[n] # Absent}
  /\ lock' = Nobody
  /\ Forget(Tasks)
  /\ UNCHANGED file

Upload(t) ==
  \/ Open(t) \/ OpenFails(t) \/ NoBuffer(t)
  \/ \E k \in 1 .. Chunk : Recv(t, k)
  \/ RecvTimeout(t) \/ \E k \in 0 .. Chunk - 1 : RecvFails(t, k)
  \/ Close(t) \/ CloseFails(t)
  \/ RemoveOld(t) \/ Rename(t) \/ RenameFails(t) \/ Cleanup(t)

Step(t) ==
  \/ Lock(t) \/ Unlock(t) \/ Upload(t)
  \/ Delete(t) \/ DeleteTmp(t) \/ DeleteFails(t)
  \/ Read(t) \/ ReadEnds(t) \/ ReadFails(t)
  \/ ListEntry(t) \/ ListEnds(t)

Next ==
  \/ \E t \in Tasks : Step(t) \/ \E j \in Job : Request(t, j)
  \/ Restart

Spec == Init /\ [][Next]_vars

\* A call of the file system or of the socket returns: a receive waits at
\* most 60 s, a send 30 s (app_web_file_server.c:38-39).  A task that waits
\* for the mutex gets it in the end.
FairSpec == Spec /\ \A t \in Tasks : WF_vars(Step(t)) /\ SF_vars(Lock(t))

-----------------------------------------------------------------------------
Uploads(t) == job[t].kind = "upload"
New(t) == Content(job[t].ver, Size)

\* Types.  A silent client has been waited for at most MaxTimeouts times.
TypeOK ==
  /\ file \in [Names -> {Absent} \cup Contents]
  /\ tmp \in [Names -> {Absent} \cup Contents]
  /\ lock \in Tasks \cup {Nobody}
  /\ pc \in [Tasks -> Pcs]
  /\ job \in [Tasks -> Job \cup {NoJob}]
  /\ received \in [Tasks -> 0 .. Size]
  /\ timeouts \in [Tasks -> 0 .. MaxTimeouts]
  /\ ok \in [Tasks -> BOOLEAN]
  /\ old \in [Tasks -> {Absent} \cup Contents]
  /\ stale \in SUBSET Names
  /\ renameFailed \in [Tasks -> BOOLEAN]

\* A name holds one complete upload or nothing at every moment, so also after
\* a restart between any two calls, a failed write or a client that goes away.
WholeOrNothing == \A n \in Names : file[n] \in Whole

\* An upload that is answered with success has put what it sent under its name.
OkMeansStored ==
  \A t \in Tasks : At(t, "unlock") /\ Uploads(t) /\ ok[t] => file[Name(t)] = New(t)

\* An upload that fails for any reason but its rename leaves the file that was
\* there.
FailKeepsOld ==
  \A t \in Tasks :
    At(t, "unlock") /\ Uploads(t) /\ ~ok[t] /\ ~renameFailed[t] => file[Name(t)] = old[t]

\* While an upload replaces a file, the old one or the whole new one is on the
\* disk, under the name or as the temporary: a restart loses at most one.  Only
\* a failed rename makes the code give up both.
KeepsACopy ==
  \A t \in Tasks :
    lock = t /\ Uploads(t) /\ ~renameFailed[t] =>
      file[Name(t)] \in {old[t], New(t)} \/ tmp[Name(t)] = New(t)

\* No temporary outlives its upload unless a restart or a failed remove left it,
\* and the next upload of the name takes its place.
NoLeftovers ==
  \A n \in Names :
    tmp[n] # Absent => n \in stale \/ \E t \in Tasks : lock = t /\ Uploads(t) /\ Name(t) = n

\* A configuration is parsed only from a complete upload, read to its end.
ParsesWhole ==
  \A t \in Tasks :
    At(t, "unlock") /\ job[t].kind = "parse" /\ ok[t] =>
      received[t] = Size /\ file[Name(t)] # Absent

\* No file changes while a handler reads files or lists them.
ReaderStable == [][(\E t \in Tasks : pc[t] \in {"read", "list"}) => UNCHANGED file]_vars

\* Every request that waits for the filesystem is answered, whatever the
\* clients and the disk do: no path of a handler keeps the mutex.
EveryRequestAnswered == \A t \in Tasks : At(t, "lock") ~> At(t, "idle")

-----------------------------------------------------------------------------
(* The inductive invariant: who holds the mutex, what a task is doing there,*)
(* and how far an upload has come.                                          *)

UploadPcs == {"open", "recv", "close", "replace", "rename", "cleanup"}

Holding == \A t \in Tasks : pc[t] \notin {"idle", "lock"} <=> lock = t

Serves(t) ==
  /\ At(t, "idle") <=> job[t] = NoJob
  /\ pc[t] \in {"idle", "lock"} =>
       received[t] = 0 /\ timeouts[t] = 0 /\ ok[t] /\ ~renameFailed[t]
  /\ pc[t] \in UploadPcs => Uploads(t)
  /\ At(t, "delete") => job[t].kind \in {"delete", "deleteTmp"}
  /\ At(t, "read") => job[t].kind \in {"download", "parse"}
  /\ At(t, "list") => job[t].kind = "list"

UploadShape(t) ==
  /\ pc[t] \in {"open", "recv", "close", "replace"} =>
       file[Name(t)] = old[t] /\ ~renameFailed[t]
  /\ At(t, "open") => ok[t] /\ received[t] = 0
  /\ At(t, "recv") =>
       ok[t] /\ received[t] < Size /\ tmp[Name(t)] = Content(job[t].ver, received[t])
  /\ At(t, "close") =>
       tmp[Name(t)] \in Contents /\ (ok[t] => received[t] = Size /\ tmp[Name(t)] = New(t))
  /\ pc[t] \in {"replace", "rename"} => ok[t] /\ ~renameFailed[t] /\ tmp[Name(t)] = New(t)
  /\ At(t, "rename") => file[Name(t)] \in {old[t], Absent}
  /\ At(t, "cleanup") => ~ok[t] /\ (renameFailed[t] \/ file[Name(t)] = old[t])
  /\ At(t, "unlock") /\ Uploads(t) =>
       IF ok[t] THEN file[Name(t)] = New(t) ELSE renameFailed[t] \/ file[Name(t)] = old[t]

\* A temporary that is not being written is one a restart or a failure left.
Leftover ==
  \A n \in Names :
    tmp[n] # Absent /\ n \notin stale =>
      \E t \in Tasks : pc[t] \in UploadPcs \ {"open"} /\ Name(t) = n

\* The inductive invariant on which the safety properties above rest.
FileInv ==
  /\ TypeOK /\ Holding /\ WholeOrNothing /\ Leftover /\ ParsesWhole
  /\ \A t \in Tasks : Serves(t) /\ UploadShape(t)
=============================================================================
