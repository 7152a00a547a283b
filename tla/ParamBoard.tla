----------------------------- MODULE ParamBoard -----------------------------
(***************************************************************************)
(* The parameter-board operation service of the ESP32-S3 firmware          *)
(* (components/app_param_board): one worker task (app_param_board_task)    *)
(* serves the operations READ, WRITE and FLASH_DUMP that the API callers   *)
(* queue.  In the firmware the only caller is the HTTP server task; the    *)
(* API takes its locks for any number of them, and so does this module.    *)
(*                                                                         *)
(* Shared with the code: the two mutexes s_lock and s_state_lock, the      *)
(* command queue, s_next_op_id, s_status and the flash-dump buffer.  Each  *)
(* thread has a program counter; a step of a thread is one API call or     *)
(* one critical section of the code.  The UART exchange of an operation    *)
(* after the handshake is abstracted here to its return value: ParamStore  *)
(* models it.                                                              *)
(*                                                                         *)
(* Left out: message texts, the parameter values, and s_flash_dump_size,   *)
(* which every start of a dump sets to the one size there is.              *)
(***************************************************************************)
EXTENDS Integers, Sequences

CONSTANTS
  Callers,      \* tasks that call the API
  Worker,       \* the thread of app_param_board_task
  Nobody,       \* the holder of a free mutex
  QueueLen,     \* PARAM_BOARD_QUEUE_LEN
  MaxId,        \* the largest operation id: the id wraps to 1 after it
  DumpSize,     \* APP_PARAM_BOARD_FLASH_DUMP_SIZE
  FrameBytes,   \* PARAM_FLASH_DUMP_FRAME_BYTES
  ReportBytes   \* progress is published every so many bytes (4096)

ASSUME ThreadsAssumption ==
  /\ Worker \notin Callers
  /\ Nobody \notin Callers
  /\ Nobody # Worker

\* Two consecutive ids differ (MaxId is 2^32 - 1 in the code).
ASSUME SizesAssumption ==
  /\ QueueLen \in Nat \ {0}
  /\ MaxId \in Nat /\ MaxId >= 2
  /\ DumpSize \in Nat \ {0}
  /\ FrameBytes \in Nat \ {0}
  /\ ReportBytes \in Nat \ {0}

VARIABLES
  lock,         \* holder of s_lock: the board and the dump buffer
  stateLock,    \* holder of s_state_lock
  queue,        \* s_cmd_queue
  nextId,       \* s_next_op_id
  status,       \* s_status
  dumpRead,     \* s_flash_dump_bytes_read
  dumpReady,    \* s_flash_dump_ready
  buf,          \* *s_flash_dump_data: allocated, by which operation, bytes valid
  wpc,          \* where the worker is
  cmd,          \* the command the worker executes
  ret,          \* the value run_*_operation returned
  bytesRead,    \* the dump loop's bytes_read
  lastReport,   \* the dump loop's last_report
  hit,          \* history: the operation in cmd has consumed a cancel
  cpc,          \* where each caller is
  arg           \* the command each caller is about to queue

svcVars    == <<queue, nextId, status>>
lockVars   == <<lock, stateLock>>
dumpVars   == <<dumpRead, dumpReady, buf>>
workerVars == <<wpc, cmd, ret, bytesRead, lastReport, hit>>
callerVars == <<cpc, arg>>
vars == <<lock, stateLock, queue, nextId, status, dumpRead, dumpReady, buf,
          wpc, cmd, ret, bytesRead, lastReport, hit, cpc, arg>>

-----------------------------------------------------------------------------
Kinds == {"read", "write", "dump"}
States == {"idle", "running", "done", "failed", "canceled"}
Ids == 1 .. MaxId

\* A queued command.  "during" is history: for a cancel, the operation that
\* was running when the call began (0: none).
Command == [type : Kinds \cup {"cancel"}, id : 0 .. MaxId, during : 0 .. MaxId]
NoCommand == [type |-> "cancel", id |-> 0, during |-> 0]

\* Return values of the run_*_operation functions.  Canceled is the code's -2,
\* Failed stands for every other value that is not 0.
Done == 0
Failed == -1
Canceled == -2
Returns == {Done, Failed, Canceled}

Status == [id : 0 .. MaxId, kind : Kinds \cup {"none"}, state : States, hasValues : BOOLEAN]

Buffer == [alloc : BOOLEAN, op : 0 .. MaxId, fill : 0 .. DumpSize]
NoBuf == [alloc |-> FALSE, op |-> 0, fill |-> 0]

Running == status.state = "running"
RunningId == IF Running THEN status.id ELSE 0
IdAfter(i) == IF i = MaxId THEN 1 ELSE i + 1

\* cmd_kind, on a command that is not a cancel, is its type.
StatusOf(id, kind, state, values) ==
  [id |-> id, kind |-> kind, state |-> state, hasValues |-> values]

Init ==
  /\ lock = Nobody /\ stateLock = Nobody
  /\ queue = <<>>
  /\ nextId = 1
  /\ status = StatusOf(0, "none", "idle", FALSE)
  /\ dumpRead = 0 /\ dumpReady = FALSE /\ buf = NoBuf
  /\ wpc = "receive" /\ cmd = NoCommand /\ ret = Done
  /\ bytesRead = 0 /\ lastReport = 0 /\ hit = FALSE
  /\ cpc = [c \in Callers |-> "idle"]
  /\ arg = [c \in Callers |-> NoCommand]

-----------------------------------------------------------------------------
(* Callers.  A call that waits for a mutex with a timeout may give up when   *)
(* another thread holds it; a call that gives up before it has changed       *)
(* anything only returns an error code, and is not a step.                   *)

At(c, l) == cpc[c] = l
Goto(c, l) == cpc' = [cpc EXCEPT ![c] = l]
Return(c) == Goto(c, "idle") /\ arg' = [arg EXCEPT ![c] = NoCommand]

\* (Variant: a start does not look at the running operation.)
BusyNever == FALSE
Busy == Running

ResetDump(kind) ==
  IF kind = "dump" THEN dumpRead' = 0 /\ dumpReady' = FALSE
                   ELSE UNCHANGED <<dumpRead, dumpReady>>

\* start_operation, lines 98-101: take s_state_lock, or give up.
StartTake(c, kind) ==
  /\ At(c, "idle") /\ stateLock = Nobody
  /\ stateLock' = c
  /\ arg' = [arg EXCEPT ![c] = [type |-> kind, id |-> 0, during |-> 0]]
  /\ Goto(c, "startCheck")
  /\ UNCHANGED <<lock, svcVars, dumpVars, workerVars>>

\* Lines 103-107: an operation is running.
StartRefuse(c) ==
  /\ At(c, "startCheck") /\ Busy
  /\ stateLock' = Nobody
  /\ Return(c)
  /\ UNCHANGED <<lock, svcVars, dumpVars, workerVars>>

StartPass(c) ==
  /\ At(c, "startCheck") /\ ~Busy
  /\ Goto(c, "startSet")
  /\ UNCHANGED <<lockVars, svcVars, dumpVars, workerVars, arg>>

\* Lines 109-124: take the id, publish the operation as running, unlock.
StartSet(c) ==
  /\ At(c, "startSet")
  /\ nextId' = IdAfter(nextId)
  /\ status' = StatusOf(nextId, arg[c].type, "running", FALSE)
  /\ arg' = [arg EXCEPT ![c].id = nextId]
  /\ ResetDump(arg[c].type)
  /\ stateLock' = Nobody
  /\ Goto(c, "startSend")
  /\ UNCHANGED <<lock, queue, buf, workerVars>>

\* (Variant: the command overtakes what is queued already.)
StartSendToFront(c) ==
  /\ At(c, "startSend") /\ Len(queue) < QueueLen
  /\ queue' = <<arg[c]>> \o queue
  /\ Return(c)
  /\ UNCHANGED <<lockVars, nextId, status, dumpVars, workerVars>>

\* Lines 126 and 132-135: the command is queued outside the lock.
StartSend(c) ==
  /\ At(c, "startSend") /\ Len(queue) < QueueLen
  /\ queue' = Append(queue, arg[c])
  /\ Return(c)
  /\ UNCHANGED <<lockVars, nextId, status, dumpVars, workerVars>>

\* Lines 126-130: the queue stayed full for 100 ms; status_set(FAILED).
StartSendTimeout(c) ==
  /\ At(c, "startSend") /\ Len(queue) = QueueLen
  /\ Goto(c, "startFail")
  /\ UNCHANGED <<lockVars, svcVars, dumpVars, workerVars, arg>>

StartFail(c) ==
  /\ At(c, "startFail") /\ stateLock = Nobody
  /\ status' = StatusOf(arg[c].id, arg[c].type, "failed", FALSE)
  /\ Return(c)
  /\ UNCHANGED <<lockVars, queue, nextId, dumpVars, workerVars>>

\* app_param_board_cancel_connect: take s_state_lock, or send the cancel with
\* id 0 (lines 342-352).
CancelTake(c) ==
  /\ At(c, "idle") /\ stateLock = Nobody
  /\ stateLock' = c
  /\ arg' = [arg EXCEPT ![c] = [type |-> "cancel", id |-> 0, during |-> RunningId]]
  /\ Goto(c, "cancelRead")
  /\ UNCHANGED <<lock, svcVars, dumpVars, workerVars>>

CancelTakeTimeout(c) ==
  /\ At(c, "idle") /\ stateLock # Nobody
  /\ arg' = [arg EXCEPT ![c] = [type |-> "cancel", id |-> 0, during |-> RunningId]]
  /\ Goto(c, "cancelSend")
  /\ UNCHANGED <<lockVars, svcVars, dumpVars, workerVars>>

\* Lines 348-351: address the running operation, if there is one.
CancelRead(c) ==
  /\ At(c, "cancelRead")
  /\ arg' = [arg EXCEPT ![c].id = RunningId]
  /\ stateLock' = Nobody
  /\ Goto(c, "cancelSend")
  /\ UNCHANGED <<lock, svcVars, dumpVars, workerVars>>

\* Line 354: queued, or lost when the queue stays full for 10 ms.
CancelSend(c) ==
  /\ At(c, "cancelSend")
  /\ IF Len(queue) < QueueLen
     THEN queue' = Append(queue, arg[c])
     ELSE UNCHANGED queue
  /\ Return(c)
  /\ UNCHANGED <<lockVars, nextId, status, dumpVars, workerVars>>

\* app_param_board_lock_flash_dump_data: s_lock first, then s_state_lock, each
\* with a timeout of 1000 ms.
DataTake(c) ==
  /\ At(c, "idle") /\ lock = Nobody
  /\ lock' = c
  /\ Goto(c, "dataCheck")
  /\ UNCHANGED <<stateLock, svcVars, dumpVars, workerVars, arg>>

DataCheckTimeout(c) ==
  /\ At(c, "dataCheck") /\ stateLock # Nobody
  /\ lock' = Nobody
  /\ Goto(c, "idle")
  /\ UNCHANGED <<stateLock, svcVars, dumpVars, workerVars, arg>>

\* (Variant: any buffer is handed out.)
DumpHeld == buf.alloc
DumpComplete == dumpReady /\ buf.alloc

\* Lines 232-237: nothing complete to hand out.
DataRefuse(c) ==
  /\ At(c, "dataCheck") /\ stateLock = Nobody
  /\ ~DumpComplete
  /\ lock' = Nobody
  /\ Goto(c, "idle")
  /\ UNCHANGED <<stateLock, svcVars, dumpVars, workerVars, arg>>

\* Lines 239-242: the caller leaves with the pointer and keeps s_lock.
DataLocked(c) ==
  /\ At(c, "dataCheck") /\ stateLock = Nobody
  /\ DumpComplete
  /\ Goto(c, "streaming")
  /\ UNCHANGED <<lockVars, svcVars, dumpVars, workerVars, arg>>

\* flash_dump_data_handler has sent the buffer (or the peer has gone away) and
\* calls app_param_board_unlock_flash_dump_data.
DataUnlock(c) ==
  /\ At(c, "streaming")
  /\ lock' = Nobody
  /\ Goto(c, "idle")
  /\ UNCHANGED <<stateLock, svcVars, dumpVars, workerVars, arg>>

\* What app_param_board_get_status and app_param_board_get_flash_dump_status
\* tell a caller that asks for operation id (the handlers refuse id 0).
NotFound == [found |-> FALSE]
StatusAnswer(id) ==
  IF status.id # id THEN NotFound
  ELSE [found |-> TRUE, state |-> status.state, hasValues |-> status.hasValues]
DumpAnswer(id) ==
  IF status.id # id \/ status.kind # "dump" THEN NotFound
  ELSE [found |-> TRUE, state |-> status.state, read |-> dumpRead, ready |-> dumpReady]

-----------------------------------------------------------------------------
(* The worker.                                                              *)

\* param_board_recv_cancel: drains the whole queue.
\* (Variant: only a cancel without an id matches.)
MatchesZero(m, id) == m.type = "cancel" /\ m.id = 0
Matches(m, id) == m.type = "cancel" /\ m.id \in {0, id}
CancelSeen(id) == \E i \in DOMAIN queue : Matches(queue[i], id)

IsDump == cmd.type = "dump"

\* app_param_board_task: a cancel that arrives here is ignored.
Receive ==
  /\ wpc = "receive" /\ queue # <<>>
  /\ queue' = Tail(queue)
  /\ IF Head(queue).type = "cancel"
     THEN UNCHANGED <<wpc, cmd, hit>>
     ELSE wpc' = "lock" /\ cmd' = Head(queue) /\ hit' = FALSE
  /\ UNCHANGED <<lockVars, nextId, status, dumpVars, ret, bytesRead, lastReport,
                 callerVars>>

AfterLock == IF IsDump THEN "alloc" ELSE "connect"

\* run_queued_operation, line 201: waits for s_lock without limit.
TakeLock ==
  /\ wpc = "lock" /\ lock = Nobody
  /\ lock' = Worker
  /\ wpc' = AfterLock
  /\ UNCHANGED <<stateLock, svcVars, dumpVars, cmd, ret, bytesRead, lastReport, hit,
                 callerVars>>

\* run_flash_dump_operation, lines 119-137: drop the old buffer, reset the
\* progress without s_state_lock, allocate.
Alloc(ok) ==
  /\ wpc = "alloc"
  /\ dumpRead' = 0 /\ dumpReady' = FALSE
  /\ IF ok
     THEN buf' = [alloc |-> TRUE, op |-> cmd.id, fill |-> 0] /\ wpc' = "connect" /\ UNCHANGED ret
     ELSE buf' = NoBuf /\ wpc' = "release" /\ ret' = Failed
  /\ UNCHANGED <<lockVars, svcVars, cmd, bytesRead, lastReport, hit, callerVars>>

\* An operation gives up with r; a dump frees its buffer first.
GiveUp(r) ==
  /\ ret' = r
  /\ wpc' = "release"
  /\ buf' = IF IsDump THEN NoBuf ELSE buf

\* board_connect: poll the queue, then one handshake attempt, for ever.
ConnectPoll ==
  /\ wpc = "connect"
  /\ queue' = <<>>
  /\ hit' = CancelSeen(cmd.id)
  /\ IF CancelSeen(cmd.id)
     THEN GiveUp(Canceled)
     ELSE wpc' = "handshake" /\ UNCHANGED <<ret, buf>>
  /\ UNCHANGED <<lockVars, nextId, status, dumpRead, dumpReady, cmd, bytesRead,
                 lastReport, callerVars>>

HandshakeFail ==
  /\ wpc = "handshake"
  /\ wpc' = "connect"
  /\ UNCHANGED <<lockVars, svcVars, dumpVars, cmd, ret, bytesRead, lastReport, hit,
                 callerVars>>

HandshakeOk ==
  /\ wpc = "handshake"
  /\ wpc' = IF IsDump THEN "dumpPoll" ELSE "exchange"
  /\ UNCHANGED <<lockVars, svcVars, dumpVars, cmd, ret, bytesRead, lastReport, hit,
                 callerVars>>

\* The rest of run_read_operation and run_write_operation: it does not look at
\* the queue.  Every class of return value is possible: get_param_store_addr,
\* init_param_store_addr and write_params_at return -2 too, for reasons of
\* their own (ParamStore shows which).
Exchange(r) ==
  /\ wpc = "exchange"
  /\ ret' = r
  /\ wpc' = "release"
  /\ UNCHANGED <<lockVars, svcVars, dumpVars, cmd, bytesRead, lastReport, hit,
                 callerVars>>

\* The dump loop: poll, fetch a packet, publish the progress now and then.
DumpPoll ==
  /\ wpc = "dumpPoll"
  /\ queue' = <<>>
  /\ hit' = CancelSeen(cmd.id)
  /\ IF CancelSeen(cmd.id)
     THEN GiveUp(Canceled)
     ELSE wpc' = "packet" /\ UNCHANGED <<ret, buf>>
  /\ UNCHANGED <<lockVars, nextId, status, dumpRead, dumpReady, cmd, bytesRead,
                 lastReport, callerVars>>

CopyLen == IF DumpSize - bytesRead < FrameBytes THEN DumpSize - bytesRead ELSE FrameBytes

PacketOk ==
  /\ wpc = "packet"
  /\ bytesRead' = bytesRead + CopyLen
  /\ buf' = [buf EXCEPT !.fill = bytesRead + CopyLen]
  /\ wpc' = IF bytesRead + CopyLen - lastReport >= ReportBytes \/ bytesRead + CopyLen = DumpSize
            THEN "report" ELSE "dumpPoll"
  /\ UNCHANGED <<lockVars, svcVars, dumpRead, dumpReady, cmd, ret, lastReport, hit,
                 callerVars>>

\* flash_dump_read_packet failed; -2 is its "wrong frame head".
PacketFail(r) ==
  /\ wpc = "packet"
  /\ GiveUp(r)
  /\ UNCHANGED <<lockVars, svcVars, dumpRead, dumpReady, cmd, bytesRead, lastReport,
                 hit, callerVars>>

MorePackets == bytesRead < DumpSize

\* flash_dump_status_update, and the loop's condition.
Report ==
  /\ wpc = "report" /\ stateLock = Nobody
  /\ dumpRead' = IF status.id = cmd.id /\ status.kind = "dump" /\ Running
                 THEN bytesRead ELSE dumpRead
  /\ lastReport' = bytesRead
  /\ wpc' = IF MorePackets THEN "dumpPoll" ELSE "dumpDone"
  /\ UNCHANGED <<lockVars, svcVars, dumpReady, buf, cmd, ret, bytesRead, hit,
                 callerVars>>

\* Lines 187-192: flash_dump_status_finish(DONE), still under s_lock.
DumpDone ==
  /\ wpc = "dumpDone" /\ stateLock = Nobody
  /\ status' = StatusOf(cmd.id, "dump", "done", FALSE)
  /\ dumpRead' = DumpSize /\ dumpReady' = TRUE
  /\ ret' = Done
  /\ wpc' = "release"
  /\ UNCHANGED <<lockVars, queue, nextId, buf, cmd, bytesRead, lastReport, hit,
                 callerVars>>

\* (Variant: every dump is taken for published, a failed one too.)
AfterReleaseAnyDump == IF IsDump THEN "receive" ELSE "finish"
AfterRelease == IF IsDump /\ ret = Done THEN "receive" ELSE "finish"

\* run_queued_operation, lines 214-219.
Release ==
  /\ wpc = "release"
  /\ lock' = Nobody
  /\ wpc' = AfterRelease
  /\ bytesRead' = 0 /\ lastReport' = 0
  /\ UNCHANGED <<stateLock, svcVars, dumpVars, cmd, ret, hit, callerVars>>

\* Lines 220-246: publish the result.
\* (Variants: a cancelled operation counts as failed; a failed READ has values.)
FinalStateDoneOrNot == IF ret = Done THEN "done" ELSE "failed"
HasValuesAlways == cmd.type = "read"
HasValues == cmd.type = "read" /\ ret = Done
FinalState == CASE ret = Done     -> "done"
                [] ret = Canceled -> "canceled"
                [] ret = Failed   -> "failed"

Finish ==
  /\ wpc = "finish" /\ stateLock = Nobody
  /\ status' = StatusOf(cmd.id, cmd.type, FinalState, HasValues)
  /\ IF IsDump THEN dumpReady' = FALSE ELSE UNCHANGED dumpReady
  /\ ret' = Done
  /\ wpc' = "receive"
  /\ UNCHANGED <<lockVars, queue, nextId, dumpRead, buf, cmd, bytesRead, lastReport, hit,
                 callerVars>>

-----------------------------------------------------------------------------
\* What a caller does once it is inside a call.
CallerStep(c) ==
  \/ StartRefuse(c) \/ StartPass(c) \/ StartSet(c) \/ StartSend(c)
  \/ StartSendTimeout(c) \/ StartFail(c)
  \/ CancelRead(c) \/ CancelSend(c)
  \/ DataCheckTimeout(c) \/ DataRefuse(c) \/ DataLocked(c) \/ DataUnlock(c)

Call(c) ==
  \/ \E k \in Kinds : StartTake(c, k)
  \/ CancelTake(c) \/ CancelTakeTimeout(c)
  \/ DataTake(c)

WorkerStep ==
  \/ Receive \/ TakeLock
  \/ \E ok \in BOOLEAN : Alloc(ok)
  \/ ConnectPoll \/ HandshakeFail \/ HandshakeOk
  \/ \E r \in Returns : Exchange(r)
  \/ DumpPoll \/ PacketOk
  \/ \E r \in {Failed, Canceled} : PacketFail(r)
  \/ Report \/ DumpDone \/ Release \/ Finish

Next == WorkerStep \/ \E c \in Callers : CallerStep(c) \/ Call(c)

Spec == Init /\ [][Next]_vars

\* The scheduler runs every thread that can run, and a mutex is granted to a
\* waiting task in the end (FreeRTOS wakes the longest waiting task of the
\* highest priority).  Callers are free to call or not.
Fairness ==
  /\ WF_vars(WorkerStep)
  /\ SF_vars(TakeLock)
  /\ SF_vars(Report) /\ SF_vars(DumpDone) /\ SF_vars(Finish)
  /\ \A c \in Callers : WF_vars(CallerStep(c)) /\ SF_vars(StartFail(c))

FairSpec == Spec /\ Fairness

\* A board that is attached and powered answers the handshake in the end.
BoardAnswers == SF_vars(HandshakeOk)

-----------------------------------------------------------------------------
WorkerPcs == {"receive", "lock", "alloc", "connect", "handshake", "exchange", "dumpPoll",
              "packet", "report", "dumpDone", "release", "finish"}
CallerPcs == {"idle", "startCheck", "startSet", "startSend", "startFail", "cancelRead",
              "cancelSend", "dataCheck", "streaming"}

\* Every variable holds a value of its type (the declarations of
\* app_param_board.c, lines 11-25, and the locals of the two threads).
TypeOK ==
  /\ lock \in Callers \cup {Worker, Nobody}
  /\ stateLock \in Callers \cup {Nobody}
  /\ queue \in Seq(Command) /\ Len(queue) <= QueueLen
  /\ nextId \in Ids
  /\ status \in Status
  /\ dumpRead \in 0 .. DumpSize /\ dumpReady \in BOOLEAN
  /\ buf \in Buffer
  /\ wpc \in WorkerPcs /\ cmd \in Command /\ ret \in Returns
  /\ bytesRead \in 0 .. DumpSize /\ lastReport \in 0 .. DumpSize /\ hit \in BOOLEAN
  /\ cpc \in [Callers -> CallerPcs]
  /\ arg \in [Callers -> Command]

\* Where an operation that is reported running can be: with the caller that
\* is about to queue it, in the queue, or with the worker.
Sending(c) == cpc[c] \in {"startSend", "startFail"}
Queued(i) == i \in DOMAIN queue /\ queue[i].type \in Kinds
Published == IsDump /\ ret = Done /\ wpc = "release"   \* DumpDone has run
Working == wpc # "receive" /\ ~Published

Reports(m) == Running /\ status.id = m.id /\ status.kind = m.type

\* An accepted operation is in exactly one place, and the status reports
\* that operation running exactly as long (start_operation queues it after it
\* has released s_state_lock; the worker publishes a dump before and the other
\* results after it has released s_lock).  Otherwise the service would refuse
\* every later start with "busy", or run an operation nobody is told about.
OneOwner ==
  /\ \A c \in Callers : Sending(c) =>
       /\ Reports(arg[c]) /\ ~Working
       /\ \A i \in DOMAIN queue : ~Queued(i)
       /\ \A d \in Callers : Sending(d) => d = c
  /\ \A i \in DOMAIN queue : Queued(i) =>
       /\ Reports(queue[i]) /\ ~Working
       /\ \A j \in DOMAIN queue : Queued(j) => j = i
  /\ Working => Reports(cmd)
  /\ Running => \/ \E c \in Callers : Sending(c)
                \/ \E i \in DOMAIN queue : Queued(i)
                \/ Working

\* param_board_recv_cancel throws away every command that is not a cancel for
\* the running operation ("drop command while parameter operation is busy"):
\* it never meets a start command, whoever queues what and when.
NoStartDropped ==
  wpc \in {"connect", "dumpPoll"} => \A i \in DOMAIN queue : queue[i].type = "cancel"

\* From app_param_board_lock_flash_dump_data to the unlock the caller reads a
\* complete buffer: the worker neither frees nor refills it under the reader,
\* even when a new dump has been accepted meanwhile.
BufferStable ==
  \A c \in Callers : cpc[c] = "streaming" => lock = c /\ buf.alloc /\ buf.fill = DumpSize

\* s_flash_dump_ready promises a whole dump: a buffer that is allocated and
\* filled to the last byte, and a progress that says so.
ReadyComplete ==
  dumpReady => buf.alloc /\ buf.fill = DumpSize /\ dumpRead = DumpSize

\* The progress never runs ahead of the bytes that are in the buffer, and the
\* buffer is filled without a gap up to the loop's bytes_read.
ProgressBehind ==
  wpc \in {"dumpPoll", "packet", "report", "dumpDone"} =>
     buf.alloc /\ buf.op = cmd.id /\ buf.fill = bytesRead /\ dumpRead <= bytesRead

\* A poller of a dump sees data_ready exactly when it sees the state "done",
\* and then the full byte count; a poller of an operation sees values exactly
\* when a READ is done (each answer is one copy under s_state_lock).
AnswerConsistent ==
  \A id \in Ids :
    /\ DumpAnswer(id).found =>
         /\ DumpAnswer(id).ready <=> DumpAnswer(id).state = "done"
         /\ DumpAnswer(id).ready => DumpAnswer(id).read = DumpSize
    /\ StatusAnswer(id).found =>
         (StatusAnswer(id).hasValues <=> StatusAnswer(id).state = "done" /\ status.kind = "read")

\* A cancel that reached an operation while it listened decides the result: the
\* operation is reported canceled, never done or failed.
CancelHonoured ==
  [][hit /\ Working /\ Running /\ status'.state # "running"
       => status'.state = "canceled"]_vars

\* With one caller, a cancel that ends an operation was asked for while that
\* operation was running: neither a cancel with id 0, sent when nothing ran,
\* nor one left over from an earlier operation cancels a later one.
CancelIsForThisOp ==
  wpc \in {"connect", "dumpPoll"} =>
    \A i \in DOMAIN queue : Matches(queue[i], cmd.id) => queue[i].during = cmd.id

\* A published result is final: it changes only when another start takes a new
\* id (status_set and flash_dump_status_finish write without looking at it).
ResultStable ==
  [][status.state \in {"done", "failed", "canceled"} /\ status'.id = status.id
       => status' = status]_vars

\* run_flash_dump_operation resets the progress and the ready flag without
\* s_state_lock; start_operation has already done so under it, so a reader of
\* the status cannot see the unlocked write.
UnlockedResetSilent == [][wpc = "alloc" => UNCHANGED <<dumpRead, dumpReady>>]_vars

\* With one caller: a cancel for the running operation that finds room in the
\* queue ends it, even when the board never answers the handshake.
CancelTakesEffect ==
  \A c \in Callers, id \in Ids :
    (/\ cpc[c] = "cancelSend" /\ arg[c].id = id /\ Len(queue) < QueueLen
     /\ Running /\ status.id = id)
    ~> ~(Running /\ status.id = id)

\* If the board answers, every accepted operation is finished and the service
\* becomes free again, whatever the callers do meanwhile.
EventuallyFree == BoardAnswers => (Running ~> ~Running)

-----------------------------------------------------------------------------
\* The service as its callers see it: s_status without the values, the ready
\* flag, the operation whose dump fills the buffer, the streaming callers.
Service == INSTANCE BoardService WITH
  Readers <- Callers,
  op <- [id |-> status.id, kind |-> status.kind, state |-> status.state],
  ready <- dumpReady,
  image <- IF buf.alloc /\ buf.fill = DumpSize THEN buf.op ELSE 0,
  readers <- {c \in Callers : cpc[c] = "streaming"}

\* The threads, locks and queue implement the promise of BoardService: one
\* operation at a time, one result each, no image changed under its reader.
ImplementsService == Service!Spec

=============================================================================
