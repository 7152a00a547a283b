-------------------------- MODULE ParamBoardProofs --------------------------
(***************************************************************************)
(* The safety properties of the parameter-board service, for any number of *)
(* API callers and every queue length, id range and dump geometry.         *)
(*                                                                         *)
(* Every step preserves IInv (one lemma per step that changes more than a  *)
(* program counter or a mutex); the properties the runs check follow, and  *)
(* so does that the service implements BoardService, that an operation is  *)
(* bounded but for its wait for the board, and that a cancel waits for it. *)
(***************************************************************************)
EXTENDS ParamBoard, TLAPS, SequenceTheorems

-----------------------------------------------------------------------------
(* The inductive invariant: what is known at the program points of the two *)
(* kinds of thread.                                                        *)

LoopPcs == {"dumpPoll", "packet", "report", "dumpDone"}
LockPcs == WorkerPcs \ {"receive", "lock", "finish"}

\* The mutexes are held where the code is between a take and a give; nobody
\* publishes a start between StartPass and StartSet.
LocksHeld ==
  /\ wpc \in LockPcs <=> lock = Worker
  /\ \A c \in Callers :
       /\ cpc[c] \in {"dataCheck", "streaming"} => lock = c
       /\ cpc[c] \in {"startCheck", "startSet", "cancelRead"} => stateLock = c
       /\ cpc[c] \in {"startCheck", "startSet"} => arg[c].type \in Kinds
       /\ cpc[c] \in {"cancelRead", "cancelSend"} => arg[c].type = "cancel"
       /\ cpc[c] = "startSet" => ~Running

\* What s_status says together with the dump variables.
StatusShape ==
  /\ Running => status.kind \in Kinds
  /\ status.id # nextId
  /\ status.kind = "dump" => (dumpReady <=> status.state = "done")
  /\ status.hasValues <=> status.kind = "read" /\ status.state = "done"
  /\ Running /\ status.kind = "dump" /\ ~(Working /\ wpc \in LoopPcs \cup {"release", "finish"})
       => dumpRead = 0

\* Where the dump loop is and what it has put into the buffer.
LoopShape ==
  /\ wpc \in LoopPcs \cup {"alloc"} => IsDump
  /\ wpc = "exchange" => ~IsDump
  /\ wpc \in {"receive", "lock", "alloc", "connect", "handshake", "finish"} =>
       bytesRead = 0 /\ lastReport = 0
  /\ wpc \in {"connect", "handshake"} /\ IsDump =>
       buf.alloc /\ buf.op = cmd.id /\ buf.fill = 0
  /\ wpc \in LoopPcs => dumpRead = lastReport /\ lastReport <= bytesRead
  /\ wpc \in {"dumpPoll", "packet"} => bytesRead < DumpSize
  /\ wpc = "dumpDone" => bytesRead = DumpSize

\* A consumed cancel is on its way to being published.
HitShape ==
  /\ hit /\ Working => wpc \in {"release", "finish"} /\ ret = Canceled
  /\ wpc = "finish" /\ IsDump => ret # Done

IInv ==
  /\ TypeOK
  /\ LocksHeld
  /\ OneOwner
  /\ StatusShape
  /\ LoopShape
  /\ HitShape
  /\ ProgressBehind
  /\ ReadyComplete
  /\ BufferStable

\* With one caller: the cancels that can meet the running operation, asked
\* for, queued behind its start or waiting for the worker's poll, were all
\* asked for while it ran.  (The ones in front of its start are older: the
\* worker ignores them before it receives the start.)
CancelShape ==
  /\ Running => \A c \in Callers :
       cpc[c] \in {"cancelRead", "cancelSend"} => arg[c].during = status.id
  /\ Working => \A i \in DOMAIN queue :
       queue[i].type = "cancel" => queue[i].during = status.id
  /\ \A i, j \in DOMAIN queue :
       Queued(j) /\ j < i /\ queue[i].type = "cancel" => queue[i].during = status.id


(* The records that the steps build and update keep their types. *)
LEMMA CommandType ==
  /\ NoCommand \in Command
  /\ \A t \in Kinds \cup {"cancel"}, i, d \in 0 .. MaxId :
       [type |-> t, id |-> i, during |-> d] \in Command
  /\ \A m \in Command : m.type \in Kinds \cup {"cancel"} /\ m.id \in 0 .. MaxId
BY SizesAssumption DEF Command, NoCommand

LEMMA FreshCommand ==
  ASSUME NEW t \in Kinds \cup {"cancel"}, NEW d \in 0 .. MaxId
  PROVE  [type |-> t, id |-> 0, during |-> d] \in Command
BY SizesAssumption DEF Command

LEMMA ArgIdType ==
  ASSUME NEW a \in [Callers -> Command], NEW c \in Callers, NEW i \in 0 .. MaxId
  PROVE  [a EXCEPT ![c].id = i] \in [Callers -> Command]
BY DEF Command

LEMMA StatusType ==
  /\ \A i \in 0 .. MaxId, k \in Kinds \cup {"none"}, s \in States, v \in BOOLEAN :
       StatusOf(i, k, s, v) \in Status
  /\ \A st \in Status : st.id \in 0 .. MaxId
BY DEF Status, StatusOf

LEMMA BufferType ==
  /\ NoBuf \in Buffer
  /\ \A i \in 0 .. MaxId : [alloc |-> TRUE, op |-> i, fill |-> 0] \in Buffer
BY SizesAssumption DEF Buffer, NoBuf

LEMMA FillType ==
  ASSUME NEW b \in Buffer, NEW n \in 0 .. DumpSize
  PROVE  /\ [b EXCEPT !.fill = n] \in Buffer
         /\ [b EXCEPT !.fill = n].alloc = b.alloc
         /\ [b EXCEPT !.fill = n].op = b.op
         /\ [b EXCEPT !.fill = n].fill = n
BY DEF Buffer

(* What a queue holds after a send and after a receive. *)
LEMMA QueueAppend ==
  ASSUME NEW q \in Seq(Command), NEW m \in Command
  PROVE  /\ Append(q, m) \in Seq(Command)
         /\ Len(Append(q, m)) = Len(q) + 1
         /\ Len(q) \in Nat
         /\ \A i \in DOMAIN q : i \in DOMAIN Append(q, m) /\ Append(q, m)[i] = q[i]
         /\ Len(q) + 1 \in DOMAIN Append(q, m) /\ Append(q, m)[Len(q) + 1] = m
         /\ \A i \in DOMAIN Append(q, m) : i \in DOMAIN q \/ i = Len(q) + 1
OBVIOUS

LEMMA QueueTail ==
  ASSUME NEW q \in Seq(Command), q # <<>>
  PROVE  /\ Head(q) \in Command /\ Head(q) = q[1] /\ 1 \in DOMAIN q
         /\ Tail(q) \in Seq(Command)
         /\ Len(Tail(q)) = Len(q) - 1 /\ Len(q) \in Nat
         /\ \A i \in DOMAIN Tail(q) : i + 1 \in DOMAIN q /\ Tail(q)[i] = q[i + 1]
         /\ \A i \in DOMAIN q : i # 1 => i - 1 \in DOMAIN Tail(q)
         /\ DOMAIN q \subseteq Int /\ DOMAIN Tail(q) \subseteq 1 .. Len(q)
OBVIOUS

LEMMA StartSetStep ==
  ASSUME IInv, NEW c \in Callers, StartSet(c)
  PROVE  IInv'
<1> USE DEF IInv, TypeOK, At, Goto, Return, svcVars, lockVars, dumpVars, workerVars,
        callerVars, Running, IsDump, StatusOf, Sending, Reports, Queued, Working,
        Published, LoopPcs, LockPcs, WorkerPcs, CallerPcs
<1>1. nextId \in 0 .. MaxId /\ IdAfter(nextId) \in Ids /\ IdAfter(nextId) # nextId
  BY SizesAssumption DEF Ids, IdAfter
<1>2. arg[c].type \in Kinds
  BY DEF StartSet, ResetDump, LocksHeld
<1>3. TypeOK'
  <2>1. status' \in Status
    BY <1>1, <1>2, StatusType DEF StartSet, ResetDump, States
  <2>2. arg' \in [Callers -> Command]
    BY <1>1, ArgIdType DEF StartSet, ResetDump
  <2>3. dumpRead' \in 0 .. DumpSize
    BY SizesAssumption DEF StartSet, ResetDump
  <2>4. dumpReady' \in BOOLEAN
    BY DEF StartSet, ResetDump
  <2>5. nextId' \in Ids /\ lock' \in Callers \cup {Worker, Nobody} /\ stateLock' \in
        Callers \cup {Nobody} /\ cpc' \in [Callers -> CallerPcs]
    BY <1>1 DEF StartSet, ResetDump
  <2> QED BY <2>1, <2>2, <2>3, <2>4, <2>5 DEF StartSet, ResetDump
<1>4. OneOwner'
  BY ThreadsAssumption, SizesAssumption DEF StartSet, ResetDump, OneOwner, LocksHeld
<1>5. LoopShape'
  <2>1. CASE arg[c].type = "dump"
     BY <2>1, <1>2, SizesAssumption DEF StartSet, ResetDump, LoopShape, OneOwner,
        LocksHeld, ProgressBehind
  <2>2. CASE arg[c].type # "dump"
     BY <2>2, <1>2, SizesAssumption DEF StartSet, ResetDump, LoopShape, OneOwner,
        LocksHeld, ProgressBehind
  <2> QED BY <2>1, <2>2
<1>6. LocksHeld' /\ StatusShape' /\ HitShape' /\ ProgressBehind' /\ ReadyComplete' /\
      BufferStable'
  BY <1>1, <1>2, ThreadsAssumption, SizesAssumption DEF StartSet, ResetDump, LocksHeld,
     OneOwner, StatusShape, LoopShape, HitShape, ProgressBehind, ReadyComplete,
     BufferStable
<1> QED BY <1>3, <1>4, <1>5, <1>6

LEMMA StartSendStep ==
  ASSUME IInv, NEW c \in Callers, StartSend(c)
  PROVE  IInv'
<1> USE DEF IInv, TypeOK, At, Goto, Return, svcVars, lockVars, dumpVars, workerVars,
        callerVars, Running, IsDump, StatusOf, Sending, Reports, Queued, Working,
        Published, LoopPcs, LockPcs, WorkerPcs, CallerPcs
<1>1. queue' \in Seq(Command) /\ Len(queue') <= QueueLen
  BY QueueAppend, SizesAssumption DEF StartSend
<1>2. TypeOK'
  BY <1>1, CommandType DEF StartSend
<1>3. OneOwner'
  <2>1. /\ Reports(arg[c]) /\ ~Working
        /\ \A i \in DOMAIN queue : ~Queued(i)
        /\ \A d \in Callers : Sending(d) => d = c
    BY DEF StartSend, OneOwner
  <2>2. /\ Len(queue') \in DOMAIN queue' /\ queue'[Len(queue')] = arg[c]
        /\ \A i \in DOMAIN queue' : i # Len(queue') => i \in DOMAIN queue /\ queue'[i] =
            queue[i]
    BY QueueAppend DEF StartSend
  <2>3. /\ \A d \in Callers : ~Sending(d)'
        /\ ~Working'
        /\ Reports(queue[Len(queue)])'
    BY <2>1, <2>2 DEF StartSend
  <2>4. \A i \in DOMAIN queue' : Queued(i)' => i = Len(queue')
    BY <2>1, <2>2
  <2>5. Queued(Len(queue))'
    BY <2>1, <2>2 DEF StatusShape
  <2> QED BY <2>2, <2>3, <2>4, <2>5 DEF OneOwner
<1>4. LocksHeld' /\ StatusShape' /\ LoopShape' /\ HitShape' /\ ProgressBehind' /\
      ReadyComplete' /\ BufferStable'
  BY ThreadsAssumption, SizesAssumption DEF StartSend, LocksHeld, OneOwner, StatusShape,
     LoopShape, HitShape, ProgressBehind, ReadyComplete, BufferStable
<1> QED BY <1>2, <1>3, <1>4

LEMMA StartFailStep ==
  ASSUME IInv, NEW c \in Callers, StartFail(c)
  PROVE  IInv'
<1> USE DEF IInv, TypeOK, At, Goto, Return, svcVars, lockVars, dumpVars, workerVars,
        callerVars, Running, IsDump, StatusOf, Sending, Reports, Queued, Working,
        Published, LoopPcs, LockPcs, WorkerPcs, CallerPcs
<1>1. Reports(arg[c]) /\ ~Working
  BY DEF StartFail, OneOwner
<1>2. arg[c].type \in Kinds /\ arg[c].id \in 0 .. MaxId
  BY <1>1, CommandType DEF StatusShape
<1>3. TypeOK'
  <2>1. status' \in Status
    BY <1>2, StatusType DEF StartFail, States
  <2> QED BY <2>1, CommandType DEF StartFail
<1>4. OneOwner'
  BY <1>1, ThreadsAssumption, SizesAssumption DEF StartFail, OneOwner, LocksHeld
<1>5. LocksHeld' /\ StatusShape' /\ LoopShape' /\ HitShape' /\ ProgressBehind' /\
      ReadyComplete' /\ BufferStable'
  BY <1>1, <1>2, ThreadsAssumption, SizesAssumption DEF StartFail, LocksHeld, OneOwner,
     StatusShape, LoopShape, HitShape, ProgressBehind, ReadyComplete, BufferStable
<1> QED BY <1>3, <1>4, <1>5

LEMMA CancelTakeStep ==
  ASSUME IInv, NEW c \in Callers, CancelTake(c)
  PROVE  IInv'
<1> USE DEF IInv, TypeOK, At, Goto, Return, svcVars, lockVars, dumpVars, workerVars,
        callerVars, Running, IsDump, StatusOf, Sending, Reports, Queued, Working,
        Published, LoopPcs, LockPcs, WorkerPcs, CallerPcs
<1>1. RunningId \in 0 .. MaxId
  BY StatusType, SizesAssumption DEF RunningId
<1>2. TypeOK'
  <2>1. [type |-> "cancel", id |-> 0, during |-> RunningId] \in Command
    BY <1>1, FreshCommand
  <2> QED BY <2>1 DEF CancelTake
<1>3. OneOwner'
  BY DEF CancelTake, OneOwner
<1>4. LocksHeld' /\ StatusShape' /\ LoopShape' /\ HitShape' /\ ProgressBehind' /\
      ReadyComplete' /\ BufferStable'
  BY ThreadsAssumption, SizesAssumption DEF CancelTake, LocksHeld, OneOwner,
     StatusShape, LoopShape, HitShape, ProgressBehind, ReadyComplete, BufferStable
<1> QED BY <1>2, <1>3, <1>4

LEMMA CancelTakeTimeoutStep ==
  ASSUME IInv, NEW c \in Callers, CancelTakeTimeout(c)
  PROVE  IInv'
<1> USE DEF IInv, TypeOK, At, Goto, Return, svcVars, lockVars, dumpVars, workerVars,
        callerVars, Running, IsDump, StatusOf, Sending, Reports, Queued, Working,
        Published, LoopPcs, LockPcs, WorkerPcs, CallerPcs
<1>1. RunningId \in 0 .. MaxId
  BY StatusType, SizesAssumption DEF RunningId
<1>2. TypeOK'
  <2>1. [type |-> "cancel", id |-> 0, during |-> RunningId] \in Command
    BY <1>1, FreshCommand
  <2> QED BY <2>1 DEF CancelTakeTimeout
<1>3. OneOwner'
  BY DEF CancelTakeTimeout, OneOwner
<1>4. LocksHeld' /\ StatusShape' /\ LoopShape' /\ HitShape' /\ ProgressBehind' /\
      ReadyComplete' /\ BufferStable'
  BY ThreadsAssumption, SizesAssumption DEF CancelTakeTimeout, LocksHeld, OneOwner,
     StatusShape, LoopShape, HitShape, ProgressBehind, ReadyComplete, BufferStable
<1> QED BY <1>2, <1>3, <1>4

LEMMA CancelReadStep ==
  ASSUME IInv, NEW c \in Callers, CancelRead(c)
  PROVE  IInv'
<1> USE DEF IInv, TypeOK, At, Goto, Return, svcVars, lockVars, dumpVars, workerVars,
        callerVars, Running, IsDump, StatusOf, Sending, Reports, Queued, Working,
        Published, LoopPcs, LockPcs, WorkerPcs, CallerPcs
<1>1. RunningId \in 0 .. MaxId
  BY StatusType, SizesAssumption DEF RunningId
<1>2. arg' \in [Callers -> Command]
  BY <1>1, ArgIdType DEF CancelRead
<1>3. TypeOK'
  BY <1>2 DEF CancelRead
<1>4. OneOwner'
  BY DEF CancelRead, OneOwner
<1>5. LocksHeld' /\ StatusShape' /\ LoopShape' /\ HitShape' /\ ProgressBehind' /\
      ReadyComplete' /\ BufferStable'
  BY ThreadsAssumption, SizesAssumption DEF CancelRead, LocksHeld, OneOwner,
     StatusShape, LoopShape, HitShape, ProgressBehind, ReadyComplete, BufferStable
<1> QED BY <1>3, <1>4, <1>5

LEMMA CancelSendStep ==
  ASSUME IInv, NEW c \in Callers, CancelSend(c)
  PROVE  IInv'
<1> USE DEF IInv, TypeOK, At, Goto, Return, svcVars, lockVars, dumpVars, workerVars,
        callerVars, Running, IsDump, StatusOf, Sending, Reports, Queued, Working,
        Published, LoopPcs, LockPcs, WorkerPcs, CallerPcs
<1>1. arg[c].type = "cancel" /\ arg[c] \in Command
  BY DEF CancelSend, LocksHeld
<1>2. queue' \in Seq(Command) /\ Len(queue') <= QueueLen
  BY QueueAppend, SizesAssumption DEF CancelSend
<1>3. TypeOK'
  BY <1>2, CommandType DEF CancelSend
<1>4. /\ \A i \in DOMAIN queue : i \in DOMAIN queue' /\ queue'[i] = queue[i]
      /\ \A i \in DOMAIN queue' : i \in DOMAIN queue \/ queue'[i].type = "cancel"
  <2>1. CASE Len(queue) < QueueLen
    BY <2>1, <1>1, QueueAppend DEF CancelSend
  <2>2. CASE ~(Len(queue) < QueueLen)
    BY <2>2 DEF CancelSend
  <2> QED BY <2>1, <2>2
<1>5. \A i : Queued(i)' <=> Queued(i)
  BY <1>4 DEF Kinds
<1>6. OneOwner'
  BY <1>4, <1>5 DEF CancelSend, OneOwner
<1>7. LocksHeld' /\ StatusShape' /\ LoopShape' /\ HitShape' /\ ProgressBehind' /\
      ReadyComplete' /\ BufferStable'
  BY <1>1, ThreadsAssumption, SizesAssumption DEF CancelSend, LocksHeld, OneOwner,
     StatusShape, LoopShape, HitShape, ProgressBehind, ReadyComplete, BufferStable
<1> QED BY <1>3, <1>6, <1>7

LEMMA ReceiveStep ==
  ASSUME IInv, Receive
  PROVE  IInv'
<1> USE DEF IInv, TypeOK, At, Goto, Return, svcVars, lockVars, dumpVars, workerVars,
        callerVars, Running, IsDump, StatusOf, Sending, Reports, Queued, Working,
        Published, LoopPcs, LockPcs, WorkerPcs, CallerPcs
<1>1. /\ Head(queue) \in Command /\ Head(queue) = queue[1] /\ 1 \in DOMAIN queue
      /\ queue' \in Seq(Command) /\ Len(queue') <= QueueLen
      /\ \A i \in DOMAIN queue' : i + 1 \in DOMAIN queue /\ queue'[i] = queue[i + 1] /\
          i \in Nat \ {0}
      /\ \A i \in DOMAIN queue : i # 1 => i - 1 \in DOMAIN queue' /\ i \in Int
  BY QueueTail, SizesAssumption DEF Receive
<1>2. TypeOK'
  BY <1>1 DEF Receive
<1>3. OneOwner'
  <2>1. CASE Head(queue).type = "cancel"
    <3>1. \A i \in DOMAIN queue' : Queued(i)' => i + 1 \in DOMAIN queue /\ Queued(i + 1)
      BY <1>1
    <3>2. \A i \in DOMAIN queue : Queued(i) => i # 1 /\ i - 1 \in DOMAIN queue' /\
          Queued(i - 1)'
      BY <1>1, <2>1 DEF Kinds
    <3>3. \A i, j \in DOMAIN queue' : Queued(i)' /\ Queued(j)' => j = i
      BY <1>1, <3>1 DEF OneOwner
    <3>4. /\ \A i \in DOMAIN queue' : Queued(i)' => Reports(queue[i])'
          /\ (\E i \in DOMAIN queue' : Queued(i)') => \A c \in Callers : ~Sending(c)
          /\ UNCHANGED <<cpc, arg, status, wpc, cmd, ret>> /\ ~Working
      BY <1>1, <2>1, <3>1 DEF Receive, OneOwner
    <3>5. Running => (\E c \in Callers : Sending(c)) \/ \E i \in DOMAIN queue' : Queued(i)'
      BY <3>2, <3>4 DEF OneOwner
    <3> QED BY <3>3, <3>4, <3>5 DEF OneOwner
  <2>2. CASE Head(queue).type # "cancel"
    <3>1. Queued(1) /\ cmd' = queue[1]
      BY <1>1, <2>2 DEF Receive, Command
    <3>2. \A i \in DOMAIN queue' : ~Queued(i)'
      <4> SUFFICES ASSUME NEW i \in DOMAIN queue', Queued(i)' PROVE FALSE
        OBVIOUS
      <4>1. Queued(i + 1) /\ i + 1 \in DOMAIN queue
        BY <1>1
      <4> QED BY <1>1, <3>1, <4>1 DEF OneOwner
    <3> QED BY <1>1, <2>2, <3>1, <3>2 DEF Receive, OneOwner
  <2> QED BY <2>1, <2>2
<1>4. LocksHeld' /\ StatusShape' /\ LoopShape' /\ HitShape' /\ ProgressBehind' /\
      ReadyComplete' /\ BufferStable'
  BY <1>1, ThreadsAssumption, SizesAssumption DEF Receive, LocksHeld, OneOwner,
     StatusShape, LoopShape, HitShape, ProgressBehind, ReadyComplete, BufferStable
<1> QED BY <1>2, <1>3, <1>4

LEMMA ConnectPollStep ==
  ASSUME IInv, ConnectPoll
  PROVE  IInv'
<1> USE DEF IInv, TypeOK, At, Goto, Return, svcVars, lockVars, dumpVars, workerVars,
        callerVars, Running, IsDump, StatusOf, Sending, Reports, Queued, Working,
        Published, LoopPcs, LockPcs, WorkerPcs, CallerPcs
<1>1. queue' \in Seq(Command) /\ Len(queue') <= QueueLen /\ DOMAIN queue' = {}
  BY SizesAssumption DEF ConnectPoll
<1>2. Working /\ Reports(cmd) /\ (\A i \in DOMAIN queue : ~Queued(i)) /\ \A c \in
      Callers : ~Sending(c)
  BY DEF ConnectPoll, OneOwner
<1>3. CASE CancelSeen(cmd.id)
  <2>0. hit' \in BOOLEAN
    BY <1>3, Zenon DEF ConnectPoll, CancelSeen
  <2>1. TypeOK'
    BY <2>0, <1>1, <1>3, BufferType DEF ConnectPoll, GiveUp, Returns
  <2>2. OneOwner'
    BY <1>1, <1>2, <1>3 DEF ConnectPoll, GiveUp, OneOwner, Canceled, Done
  <2>3. LocksHeld' /\ StatusShape' /\ LoopShape' /\ HitShape' /\ ProgressBehind' /\
        ReadyComplete'
    BY <1>2, <1>3, ThreadsAssumption, SizesAssumption
    DEF ConnectPoll, GiveUp, NoBuf, Canceled, Done, LocksHeld, StatusShape, LoopShape,
        HitShape, ProgressBehind, ReadyComplete
  <2>4. BufferStable'
    BY <1>2, <1>3, ThreadsAssumption DEF ConnectPoll, GiveUp, BufferStable, LocksHeld
  <2> QED BY <2>1, <2>2, <2>3, <2>4
<1>4. CASE ~CancelSeen(cmd.id)
  <2>0. hit' \in BOOLEAN
    BY <1>4, Zenon DEF ConnectPoll, CancelSeen
  <2>1. TypeOK'
    BY <2>0, <1>1, <1>4 DEF ConnectPoll
  <2>2. OneOwner'
    BY <1>1, <1>2, <1>4 DEF ConnectPoll, OneOwner
  <2>3. LocksHeld' /\ StatusShape' /\ LoopShape' /\ HitShape' /\ ProgressBehind' /\
        ReadyComplete' /\ BufferStable'
    BY <1>2, <1>4, ThreadsAssumption, SizesAssumption
    DEF ConnectPoll, LocksHeld, OneOwner, StatusShape, LoopShape, HitShape,
        ProgressBehind, ReadyComplete, BufferStable
  <2> QED BY <2>1, <2>2, <2>3
<1> QED BY <1>3, <1>4

LEMMA DumpPollStep ==
  ASSUME IInv, DumpPoll
  PROVE  IInv'
<1> USE DEF IInv, TypeOK, At, Goto, Return, svcVars, lockVars, dumpVars, workerVars,
        callerVars, Running, IsDump, StatusOf, Sending, Reports, Queued, Working,
        Published, LoopPcs, LockPcs, WorkerPcs, CallerPcs
<1>1. queue' \in Seq(Command) /\ Len(queue') <= QueueLen /\ DOMAIN queue' = {}
  BY SizesAssumption DEF DumpPoll
<1>2. Working /\ Reports(cmd) /\ (\A i \in DOMAIN queue : ~Queued(i)) /\ \A c \in
      Callers : ~Sending(c)
  BY DEF DumpPoll, OneOwner
<1>3. CASE CancelSeen(cmd.id)
  <2>0. hit' \in BOOLEAN
    BY <1>3, Zenon DEF DumpPoll, CancelSeen
  <2>1. TypeOK'
    BY <2>0, <1>1, <1>3, BufferType DEF DumpPoll, GiveUp, Returns
  <2>2. OneOwner'
    BY <1>1, <1>2, <1>3 DEF DumpPoll, GiveUp, OneOwner, Canceled, Done
  <2>3. LocksHeld' /\ StatusShape' /\ LoopShape' /\ HitShape' /\ ProgressBehind' /\
        ReadyComplete'
    BY <1>2, <1>3, ThreadsAssumption, SizesAssumption
    DEF DumpPoll, GiveUp, NoBuf, Canceled, Done, LocksHeld, StatusShape, LoopShape,
        HitShape, ProgressBehind, ReadyComplete
  <2>4. BufferStable'
    BY <1>2, <1>3, ThreadsAssumption DEF DumpPoll, GiveUp, BufferStable, LocksHeld
  <2> QED BY <2>1, <2>2, <2>3, <2>4
<1>4. CASE ~CancelSeen(cmd.id)
  <2>0. hit' \in BOOLEAN
    BY <1>4, Zenon DEF DumpPoll, CancelSeen
  <2>1. TypeOK'
    BY <2>0, <1>1, <1>4 DEF DumpPoll
  <2>2. OneOwner'
    BY <1>1, <1>2, <1>4 DEF DumpPoll, OneOwner
  <2>3. LocksHeld' /\ StatusShape' /\ LoopShape' /\ HitShape' /\ ProgressBehind' /\
        ReadyComplete' /\ BufferStable'
    BY <1>2, <1>4, ThreadsAssumption, SizesAssumption
    DEF DumpPoll, LocksHeld, OneOwner, StatusShape, LoopShape, HitShape, ProgressBehind,
        ReadyComplete, BufferStable
  <2> QED BY <2>1, <2>2, <2>3
<1> QED BY <1>3, <1>4

LEMMA PacketOkStep ==
  ASSUME IInv, PacketOk
  PROVE  IInv'
<1> USE DEF IInv, TypeOK, At, Goto, Return, svcVars, lockVars, dumpVars, workerVars,
        callerVars, Running, IsDump, StatusOf, Sending, Reports, Queued, Working,
        Published, LoopPcs, LockPcs, WorkerPcs, CallerPcs
<1>1. /\ bytesRead < DumpSize /\ lastReport <= bytesRead /\ bytesRead \in Nat
      /\ buf \in Buffer /\ IsDump /\ lastReport \in Nat
      /\ buf.alloc /\ buf.op = cmd.id
  BY DEF PacketOk, LoopShape, ProgressBehind
<1>2. CopyLen \in 1 .. (DumpSize - bytesRead)
  BY <1>1, SizesAssumption DEF CopyLen
<1>3. bytesRead' \in 0 .. DumpSize /\ bytesRead' > bytesRead /\ bytesRead' = bytesRead +
      CopyLen
  BY <1>1, <1>2, SizesAssumption DEF PacketOk
<1>4. buf' \in Buffer /\ buf'.alloc = buf.alloc /\ buf'.op = buf.op /\ buf'.fill =
      bytesRead'
  BY <1>3, FillType DEF PacketOk
<1>5. wpc' \in {"report", "dumpPoll"} /\ (wpc' = "dumpPoll" => bytesRead' < DumpSize)
  BY <1>3, SizesAssumption DEF PacketOk
<1>6. TypeOK'
  BY <1>3, <1>4, <1>5 DEF PacketOk
<1>7. OneOwner'
  BY <1>1, <1>5 DEF PacketOk, OneOwner
<1>8. LoopShape' /\ ProgressBehind'
  BY <1>1, <1>3, <1>4, <1>5 DEF PacketOk, LoopShape, ProgressBehind
<1>9. LocksHeld' /\ StatusShape' /\ HitShape' /\ ReadyComplete' /\ BufferStable'
  BY <1>1, <1>5, ThreadsAssumption DEF PacketOk, LocksHeld, StatusShape, HitShape,
     ReadyComplete,
     BufferStable, OneOwner
<1> QED BY <1>6, <1>7, <1>8, <1>9

LEMMA PacketFailStep ==
  ASSUME IInv, NEW r \in {Failed, Canceled}, PacketFail(r)
  PROVE  IInv'
<1> USE DEF IInv, TypeOK, At, Goto, Return, svcVars, lockVars, dumpVars, workerVars,
        callerVars, Running, IsDump, StatusOf, Sending, Reports, Queued, Working,
        Published, LoopPcs, LockPcs, WorkerPcs, CallerPcs
<1> USE DEF PacketFail, GiveUp
<1>1. IsDump /\ Reports(cmd) /\ Working /\ ~hit /\ r # Done
  BY DEF LoopShape, OneOwner, HitShape, Done, Failed, Canceled
<1>2. TypeOK'
  BY BufferType DEF Returns
<1>3. OneOwner'
  BY <1>1 DEF OneOwner
<1>4. LocksHeld' /\ StatusShape' /\ LoopShape' /\ HitShape' /\ ProgressBehind' /\
      ReadyComplete'
  BY <1>1, ThreadsAssumption, SizesAssumption
  DEF LocksHeld, StatusShape, LoopShape, HitShape, ProgressBehind, ReadyComplete, OneOwner
<1>5. BufferStable'
  BY ThreadsAssumption DEF BufferStable, LocksHeld
<1> QED BY <1>2, <1>3, <1>4, <1>5

LEMMA AllocStep ==
  ASSUME IInv, NEW ok \in BOOLEAN, Alloc(ok)
  PROVE  IInv'
<1> USE DEF IInv, TypeOK, At, Goto, Return, svcVars, lockVars, dumpVars, workerVars,
        callerVars, Running, IsDump, StatusOf, Sending, Reports, Queued, Working,
        Published, LoopPcs, LockPcs, WorkerPcs, CallerPcs
<1>1. IsDump /\ Reports(cmd) /\ Working /\ cmd.id \in 0 .. MaxId /\ ~hit
  BY CommandType DEF Alloc, LoopShape, OneOwner, HitShape
<1>2. /\ wpc' \in {"connect", "release"} /\ dumpRead' = 0 /\ dumpReady' = FALSE
      /\ wpc' = "release" => ret' = Failed
      /\ wpc' = "connect" => buf'.alloc /\ buf'.op = cmd.id /\ buf'.fill = 0 /\ ret' = ret
      /\ buf' \in Buffer /\ ret' \in Returns
  BY <1>1, BufferType DEF Alloc, Returns
<1>3. TypeOK'
  <2>1. 0 \in 0 .. DumpSize
    BY SizesAssumption
  <2> QED BY <1>2, <2>1 DEF Alloc
<1>4. OneOwner'
  BY <1>1, <1>2 DEF Alloc, OneOwner, Failed, Done
<1>5. LocksHeld' /\ StatusShape' /\ LoopShape' /\ HitShape' /\ ProgressBehind' /\
      ReadyComplete' /\ BufferStable'
  BY <1>1, <1>2, ThreadsAssumption, SizesAssumption DEF Alloc, LocksHeld, StatusShape,
     LoopShape,
     HitShape, ProgressBehind, ReadyComplete, BufferStable, OneOwner
<1> QED BY <1>3, <1>4, <1>5

LEMMA DumpDoneStep ==
  ASSUME IInv, DumpDone
  PROVE  IInv'
<1> USE DEF IInv, TypeOK, At, Goto, Return, svcVars, lockVars, dumpVars, workerVars,
        callerVars, Running, IsDump, StatusOf, Sending, Reports, Queued, Working,
        Published, LoopPcs, LockPcs, WorkerPcs, CallerPcs
<1>1. IsDump /\ Reports(cmd) /\ Working /\ bytesRead = DumpSize /\ cmd.id \in 0 .. MaxId
  BY CommandType DEF DumpDone, LoopShape, OneOwner
<1>2. TypeOK'
  BY <1>1, StatusType, SizesAssumption DEF DumpDone, Kinds, States, Returns
<1>3. OneOwner'
  BY <1>1 DEF DumpDone, OneOwner
<1>4. LocksHeld' /\ StatusShape' /\ LoopShape' /\ HitShape' /\ ProgressBehind' /\
      ReadyComplete' /\ BufferStable'
  BY <1>1, ThreadsAssumption, SizesAssumption DEF DumpDone, LocksHeld, StatusShape,
     LoopShape,
     HitShape, ProgressBehind, ReadyComplete, BufferStable, OneOwner
<1> QED BY <1>2, <1>3, <1>4

LEMMA FinishStep ==
  ASSUME IInv, Finish
  PROVE  IInv'
<1> USE DEF IInv, TypeOK, At, Goto, Return, svcVars, lockVars, dumpVars, workerVars,
        callerVars, Running, IsDump, StatusOf, Sending, Reports, Queued, Working,
        Published, LoopPcs, LockPcs, WorkerPcs, CallerPcs
<1>1. Reports(cmd) /\ Working /\ cmd.id \in 0 .. MaxId /\ cmd.type \in Kinds
  BY CommandType DEF Finish, HasValues, OneOwner, StatusShape
<1>2. FinalState \in {"done", "failed", "canceled"} /\ (FinalState = "done" <=> ret = Done)
  BY DEF FinalState, Returns, Done, Failed, Canceled
<1>3. TypeOK'
  <2>1. status' \in Status
    BY <1>1, <1>2, StatusType DEF Finish, HasValues, States
  <2> QED BY <2>1 DEF Finish, HasValues, Returns
<1>4. OneOwner'
  BY <1>1, <1>2 DEF Finish, HasValues, OneOwner
<1>5. LocksHeld' /\ StatusShape' /\ LoopShape' /\ HitShape' /\ ProgressBehind' /\
      ReadyComplete' /\ BufferStable'
  BY <1>1, <1>2, ThreadsAssumption, SizesAssumption DEF Finish, HasValues, LocksHeld,
     StatusShape, LoopShape,
     HitShape, ProgressBehind, ReadyComplete, BufferStable, OneOwner
<1> QED BY <1>3, <1>4, <1>5

(* The steps that only move a program counter, a mutex or the progress. *)
LEMMA QuietCallerStep ==
  ASSUME IInv, NEW c \in Callers,
         \/ \E k \in Kinds : StartTake(c, k)
         \/ StartRefuse(c) \/ StartPass(c) \/ StartSendTimeout(c)
         \/ DataTake(c) \/ DataCheckTimeout(c) \/ DataRefuse(c) \/ DataLocked(c)
         \/ DataUnlock(c)
  PROVE  IInv'
<1> USE ThreadsAssumption, SizesAssumption, CommandType
    DEF IInv, TypeOK, At, Goto, Return, svcVars, lockVars, dumpVars, workerVars, callerVars,
        Running, IsDump, Sending, Reports, Queued, Working, Published, LoopPcs, LockPcs,
        WorkerPcs, CallerPcs, LocksHeld, OneOwner, StatusShape, LoopShape, HitShape,
        ProgressBehind, ReadyComplete, BufferStable
<1>1. ASSUME NEW k \in Kinds, StartTake(c, k) PROVE IInv'
  <2>1. [type |-> k, id |-> 0, during |-> 0] \in Command
    BY FreshCommand
  <2> QED BY <1>1, <2>1 DEF StartTake
<1>2. CASE StartRefuse(c)  BY <1>2 DEF StartRefuse, Busy
<1>3. CASE StartPass(c)  BY <1>3 DEF StartPass, Busy
<1>4. CASE StartSendTimeout(c)  BY <1>4 DEF StartSendTimeout
<1>5. CASE DataTake(c)  BY <1>5 DEF DataTake
<1>6. CASE DataCheckTimeout(c)  BY <1>6 DEF DataCheckTimeout
<1>7. CASE DataRefuse(c)  BY <1>7 DEF DataRefuse, DumpComplete
<1>8. CASE DataLocked(c)  BY <1>8 DEF DataLocked, DumpComplete
<1>9. CASE DataUnlock(c)  BY <1>9 DEF DataUnlock
<1> QED BY <1>1, <1>2, <1>3, <1>4, <1>5, <1>6, <1>7, <1>8, <1>9

LEMMA QuietWorkerStep ==
  ASSUME IInv,
         \/ TakeLock \/ HandshakeFail \/ HandshakeOk \/ Report \/ Release
         \/ \E r \in Returns : Exchange(r)
  PROVE  IInv'
<1> USE ThreadsAssumption, SizesAssumption
    DEF IInv, TypeOK, At, svcVars, lockVars, dumpVars, workerVars, callerVars,
        Running, IsDump, Sending, Reports, Queued, Working, Published, LoopPcs, LockPcs,
        WorkerPcs, CallerPcs, LocksHeld, OneOwner, StatusShape, LoopShape, HitShape,
        ProgressBehind, ReadyComplete, BufferStable
<1>1. CASE TakeLock  BY <1>1 DEF TakeLock, AfterLock
<1>2. CASE HandshakeFail  BY <1>2 DEF HandshakeFail
<1>3. CASE HandshakeOk  BY <1>3 DEF HandshakeOk
<1>4. CASE Report  BY <1>4 DEF Report, MorePackets
<1>5. CASE Release  BY <1>5 DEF Release, AfterRelease
<1>6. CASE \E r \in Returns : Exchange(r)  BY <1>6 DEF Exchange
<1> QED BY <1>1, <1>2, <1>3, <1>4, <1>5, <1>6

LEMMA InitIInv == Init => IInv
<1> SUFFICES ASSUME Init PROVE IInv
  OBVIOUS
<1>1. TypeOK
  <2>1. queue \in Seq(Command) /\ Len(queue) <= QueueLen
    BY SizesAssumption DEF Init
  <2>2. 0 \in 0 .. MaxId /\ 0 \in 0 .. DumpSize /\ 1 \in Ids /\ FALSE \in BOOLEAN
    BY SizesAssumption DEF Ids
  <2>3. status \in Status
    BY <2>2, StatusType DEF Init, States
  <2> QED BY <2>1, <2>2, <2>3, CommandType, BufferType
          DEF Init, TypeOK, WorkerPcs, CallerPcs, Returns
<1>2. OneOwner
  BY DEF Init, OneOwner, Sending, Queued, Working, Running, StatusOf
<1>3. LocksHeld /\ StatusShape /\ LoopShape /\ HitShape /\ ProgressBehind /\ ReadyComplete
      /\ BufferStable
  BY ThreadsAssumption
  DEF Init, LocksHeld, StatusShape, LoopShape, HitShape, ProgressBehind, ReadyComplete,
      BufferStable, LockPcs, LoopPcs, WorkerPcs, Running, Working, StatusOf
<1> QED BY <1>1, <1>2, <1>3 DEF IInv

LEMMA NextIInv == IInv /\ [Next]_vars => IInv'
<1> SUFFICES ASSUME IInv, [Next]_vars PROVE IInv'
  OBVIOUS
<1>1. ASSUME NEW c \in Callers, CallerStep(c) PROVE IInv'
  BY <1>1, QuietCallerStep, StartSetStep, StartSendStep, StartFailStep, CancelReadStep,
     CancelSendStep DEF CallerStep
<1>2. ASSUME NEW c \in Callers, Call(c) PROVE IInv'
  BY <1>2, QuietCallerStep, CancelTakeStep, CancelTakeTimeoutStep DEF Call
<1>3. CASE WorkerStep
  BY <1>3, QuietWorkerStep, ReceiveStep, AllocStep, ConnectPollStep, DumpPollStep,
     PacketOkStep, PacketFailStep, DumpDoneStep, FinishStep DEF WorkerStep
<1>4. CASE UNCHANGED vars
  BY <1>4
  DEF vars, IInv, TypeOK, LocksHeld, OneOwner, StatusShape, LoopShape, HitShape,
      ProgressBehind, ReadyComplete, BufferStable, Running, IsDump, Sending, Reports,
          Queued,
      Working, Published
<1> QED BY <1>1, <1>2, <1>3, <1>4 DEF Next

\* Mutexes, queue, status, dump loop and buffer keep the relations that IInv
\* names, in every interleaving of any number of callers with the worker.
THEOREM Inductive == Spec => []IInv
BY InitIInv, NextIInv, PTL DEF Spec

\* Every variable keeps its type (the C declarations in app_param_board.c).
THEOREM TypeCorrect == Spec => []TypeOK
<1>1. IInv => TypeOK
  BY DEF IInv
<1> QED BY <1>1, Inductive, PTL

\* An accepted operation is in exactly one place and is the one that s_status
\* reports running (start_operation and run_queued_operation).
THEOREM AcceptedOnce == Spec => []OneOwner
<1>1. IInv => OneOwner
  BY DEF IInv
<1> QED BY <1>1, Inductive, PTL

\* The draining of the queue (param_board_recv_cancel) never meets a start.
THEOREM StartsKept == Spec => []NoStartDropped
<1>1. IInv => NoStartDropped
  <2> SUFFICES ASSUME IInv, wpc \in {"connect", "dumpPoll"}, NEW i \in DOMAIN queue
               PROVE  queue[i].type = "cancel"
    BY DEF NoStartDropped
  <2>1. ~Queued(i)
    BY DEF IInv, OneOwner, Working, Published
  <2>2. queue[i] \in Command
    BY DEF IInv, TypeOK
  <2> QED BY <2>1, <2>2 DEF Queued, Command
<1> QED BY <1>1, Inductive, PTL

\* A streaming reader keeps a complete buffer (lock/unlock_flash_dump_data).
THEOREM ReaderSafe == Spec => []BufferStable
<1>1. IInv => BufferStable
  BY DEF IInv
<1> QED BY <1>1, Inductive, PTL

\* s_flash_dump_ready is set only over a whole dump.
THEOREM ReadyIsComplete == Spec => []ReadyComplete
<1>1. IInv => ReadyComplete
  BY DEF IInv
<1> QED BY <1>1, Inductive, PTL

\* The dump's progress never runs ahead of the bytes in the buffer.
THEOREM ProgressHonest == Spec => []ProgressBehind
<1>1. IInv => ProgressBehind
  BY DEF IInv
<1> QED BY <1>1, Inductive, PTL

\* The two status calls give answers that agree with each other and with the
\* result (app_param_board_get_status, app_param_board_get_flash_dump_status).
THEOREM AnswersAgree == Spec => []AnswerConsistent
<1>1. IInv => AnswerConsistent
  BY DEF IInv, AnswerConsistent, StatusAnswer, DumpAnswer, NotFound, StatusShape,
     ReadyComplete
<1> QED BY <1>1, Inductive, PTL
(* With one caller nothing but a start makes an operation run, and a cancel  *)
(* that is asked for while it runs carries its id in "during".                *)
LEMMA CancelCallerStep ==
  ASSUME IInv, CancelShape, \A c, d \in Callers : c = d, NEW c \in Callers,
         CallerStep(c) \/ Call(c)
  PROVE  CancelShape'
<1> USE DEF IInv, TypeOK, At, Goto, Return, svcVars, lockVars, dumpVars, workerVars,
        callerVars, Running, IsDump, StatusOf, Sending, Reports, Queued, Working,
        Published, CallerPcs
<1>1. CASE StartSet(c)
  <2>1. ~Running /\ ~Working /\ \A i \in DOMAIN queue : ~Queued(i)
    BY <1>1 DEF StartSet, LocksHeld, OneOwner
  <2>2. /\ UNCHANGED <<queue, wpc, cmd, ret>>
        /\ \A d \in Callers : cpc'[d] = "startSend"
    BY <1>1 DEF StartSet
  <2> QED BY <2>1, <2>2 DEF CancelShape
<1>2. CASE StartSend(c)
  <2>1. arg[c] \in Command /\ ~Working /\ \A i \in DOMAIN queue : ~Queued(i)
    BY <1>2 DEF StartSend, OneOwner
  <2>2. /\ queue' = Append(queue, arg[c])
        /\ UNCHANGED <<status, wpc, cmd, ret>>
        /\ \A d \in Callers : cpc'[d] = "idle"
    BY <1>2 DEF StartSend
  <2>3. \A i, j \in DOMAIN queue' : Queued(j)' => ~(j < i)
    BY <2>1, <2>2, QueueAppend
  <2> QED BY <2>1, <2>2, <2>3 DEF CancelShape
<1>3. CASE CancelTake(c) \/ CancelTakeTimeout(c)
  <2>1. /\ UNCHANGED <<queue, status, wpc, cmd, ret>>
        /\ Running => \A d \in Callers : arg'[d].during = status.id
    BY <1>3 DEF CancelTake, CancelTakeTimeout, RunningId
  <2> QED BY <2>1 DEF CancelShape
<1>4. CASE CancelRead(c)
  <2>1. /\ UNCHANGED <<queue, status, wpc, cmd, ret>>
        /\ arg[c] \in Command
        /\ \A d \in Callers : cpc[d] = "cancelRead" /\ arg'[d].during = arg[d].during
    BY <1>4 DEF CancelRead, Command
  <2> QED BY <2>1 DEF CancelShape
<1>5. CASE CancelSend(c)
  <2>1. /\ arg[c] \in Command /\ arg[c].type = "cancel"
        /\ Running => arg[c].during = status.id
    BY <1>5 DEF CancelSend, CancelShape, LocksHeld
  <2>2. /\ UNCHANGED <<status, wpc, cmd, ret>>
        /\ \A d \in Callers : cpc'[d] = "idle"
    BY <1>5 DEF CancelSend
  <2>3. CASE queue' = queue
    BY <2>2, <2>3 DEF CancelShape
  <2>4. CASE queue' = Append(queue, arg[c])
    <3>1. /\ \A i \in DOMAIN queue' : i \in DOMAIN queue \/ i = Len(queue) + 1
          /\ \A i \in DOMAIN queue : i \in DOMAIN queue' /\ queue'[i] = queue[i]
          /\ queue'[Len(queue) + 1] = arg[c]
      BY <2>1, <2>4, QueueAppend
    <3>2. \A j \in DOMAIN queue' : Queued(j)' => j \in DOMAIN queue /\ Queued(j)
      BY <2>1, <3>1 DEF Kinds
    <3>3. Working \/ (\E j \in DOMAIN queue' : Queued(j)') => Running
      BY <3>2 DEF OneOwner
    <3>4. Working' => \A i \in DOMAIN queue' :
             queue'[i].type = "cancel" => queue'[i].during = status.id
      BY <2>1, <2>2, <3>1, <3>3 DEF CancelShape
    <3>5. \A i, j \in DOMAIN queue' : Queued(j)' /\ j < i /\ queue'[i].type = "cancel"
             => queue'[i].during = status.id
      <4> SUFFICES ASSUME NEW i \in DOMAIN queue', NEW j \in DOMAIN queue', Queued(j)',
                          j < i, queue'[i].type = "cancel"
                   PROVE  queue'[i].during = status.id
        OBVIOUS
      <4>1. CASE i = Len(queue) + 1
        BY <4>1, <2>1, <3>1, <3>3
      <4>2. CASE i # Len(queue) + 1
        BY <4>2, <3>1, <3>2 DEF CancelShape
      <4> QED BY <4>1, <4>2
    <3> QED BY <2>2, <3>4, <3>5 DEF CancelShape
  <2> QED BY <1>5, <2>3, <2>4 DEF CancelSend
<1>6. CASE StartFail(c)
  <2>1. ~Working /\ \A i \in DOMAIN queue : ~Queued(i)
    BY <1>6 DEF StartFail, OneOwner
  <2>2. UNCHANGED <<queue, wpc, cmd, ret>> /\ ~Running'
    BY <1>6 DEF StartFail
  <2> QED BY <2>1, <2>2 DEF CancelShape
<1>7. ASSUME UNCHANGED <<queue, status, wpc, cmd, ret>>,
             \A d \in Callers : cpc'[d] \notin {"cancelRead", "cancelSend"}
      PROVE  CancelShape'
  BY <1>7 DEF CancelShape
<1>8. CASE \/ \E k \in Kinds : StartTake(c, k)
           \/ StartRefuse(c) \/ StartPass(c) \/ StartSendTimeout(c)
           \/ DataTake(c) \/ DataCheckTimeout(c) \/ DataRefuse(c) \/ DataLocked(c)
           \/ DataUnlock(c)
  BY <1>7, <1>8
  DEF StartTake, StartRefuse, StartPass, StartSendTimeout, DataTake, DataCheckTimeout,
      DataRefuse, DataLocked, DataUnlock
<1> QED BY <1>1, <1>2, <1>3, <1>4, <1>5, <1>6, <1>8 DEF CallerStep, Call

LEMMA CancelWorkerStep ==
  ASSUME IInv, CancelShape, WorkerStep
  PROVE  CancelShape'
<1> USE DEF IInv, TypeOK, svcVars, lockVars, dumpVars, workerVars, callerVars, Running,
        IsDump, StatusOf, Queued, Working, Published
<1>1. CASE Receive
  <2>1. /\ Head(queue) \in Command /\ Head(queue) = queue[1] /\ 1 \in DOMAIN queue
        /\ \A i \in DOMAIN queue' : i + 1 \in DOMAIN queue /\ queue'[i] = queue[i + 1]
                                    /\ i \in Nat \ {0}
    BY <1>1, QueueTail DEF Receive
  <2>2. UNCHANGED <<status, cpc, arg, ret>> /\ ~Working
    BY <1>1 DEF Receive
  <2>3. \A i, j \in DOMAIN queue' : Queued(j)' /\ j < i /\ queue'[i].type = "cancel"
           => queue'[i].during = status.id
    BY <2>1 DEF CancelShape
  <2>4. CASE Head(queue).type = "cancel"
    BY <1>1, <2>2, <2>3, <2>4 DEF Receive, CancelShape
  <2>5. CASE Head(queue).type # "cancel"
    <3>1. Queued(1)
      BY <2>1, <2>5 DEF Command
    <3>2. \A i \in DOMAIN queue' : queue'[i].type = "cancel" => queue'[i].during = status.id
      BY <2>1, <3>1 DEF CancelShape
    <3> QED BY <2>2, <2>3, <3>2 DEF CancelShape
  <2> QED BY <2>4, <2>5
<1>2. CASE ConnectPoll \/ DumpPoll
  BY <1>2 DEF ConnectPoll, DumpPoll, CancelShape
<1>3. CASE DumpDone \/ Finish
  <2>1. ~Running' /\ ~Working' /\ \A i \in DOMAIN queue : ~Queued(i)
    BY <1>3 DEF DumpDone, Finish, FinalState, OneOwner, LoopShape, LoopPcs, Done, Failed, Canceled,
       Returns
  <2>2. UNCHANGED queue
    BY <1>3 DEF DumpDone, Finish
  <2> QED BY <2>1, <2>2 DEF CancelShape
<1>4. ASSUME UNCHANGED <<queue, status, cpc, arg>>, Working' => Working PROVE CancelShape'
  BY <1>4 DEF CancelShape
<1>5. CASE \/ TakeLock \/ \E ok \in BOOLEAN : Alloc(ok)
           \/ HandshakeFail \/ HandshakeOk \/ PacketOk \/ Report \/ Release
           \/ \E r \in Returns : Exchange(r)
           \/ \E r \in {Failed, Canceled} : PacketFail(r)
  BY <1>4, <1>5
  DEF TakeLock, Alloc, HandshakeFail, HandshakeOk, PacketOk, Report, Release, AfterRelease,
      Exchange, PacketFail, GiveUp
<1> QED BY <1>1, <1>2, <1>3, <1>5 DEF WorkerStep

\* With one caller (the HTTP server task), a cancel that the worker finds while
\* it connects or dumps was asked for while this very operation ran: neither a
\* cancel without an id nor one left from an earlier operation ends a later one
\* (app_param_board_cancel_connect, param_board_recv_cancel).
THEOREM CancelsMeetTheirOwn ==
  ASSUME \A c, d \in Callers : c = d
  PROVE  Spec => []CancelIsForThisOp
<1>1. Init => CancelShape
  BY DEF Init, CancelShape, Running, StatusOf, Working, Queued
<1>2. IInv /\ CancelShape /\ [Next]_vars => CancelShape'
  <2> SUFFICES ASSUME IInv, CancelShape, [Next]_vars PROVE CancelShape'
    OBVIOUS
  <2>1. CASE UNCHANGED vars
    BY <2>1 DEF vars, CancelShape, Running, Working, Published, IsDump, Queued
  <2> QED BY <2>1, CancelCallerStep, CancelWorkerStep DEF Next
<1>3. IInv /\ CancelShape => CancelIsForThisOp
  BY DEF IInv, CancelShape, CancelIsForThisOp, Matches, OneOwner, Reports, Working, Published
<1> QED BY <1>1, <1>2, <1>3, Inductive, PTL DEF Spec
-----------------------------------------------------------------------------
(* ParamBoard implements BoardService: the initial state maps to the       *)
(* initial state of the service, and every step of a thread to a step of   *)
(* the service or to a stutter.  The action properties follow from the     *)
(* same invariant.                                                         *)

(* Who writes s_status. *)
LEMMA StatusWriters ==
  ASSUME [Next]_vars, status' # status
  PROVE  \/ \E c \in Callers : StartSet(c) \/ StartFail(c)
         \/ DumpDone \/ Finish
<1> USE DEF svcVars
<1>1. ASSUME NEW c \in Callers, CallerStep(c) PROVE StartSet(c) \/ StartFail(c)
  BY <1>1 DEF CallerStep, StartRefuse, StartPass, StartSend, StartSendTimeout, CancelRead,
     CancelSend, DataCheckTimeout, DataRefuse, DataLocked, DataUnlock
<1>2. ASSUME NEW c \in Callers, Call(c) PROVE FALSE
  BY <1>2 DEF Call, StartTake, CancelTake, CancelTakeTimeout, DataTake
<1>3. ASSUME WorkerStep PROVE DumpDone \/ Finish
  BY <1>3 DEF WorkerStep, Receive, TakeLock, Alloc, ConnectPoll, HandshakeFail, HandshakeOk,
     Exchange, DumpPoll, PacketOk, PacketFail, Report, Release
<1> QED BY <1>1, <1>2, <1>3 DEF Next, vars

\* A cancel that the running operation has consumed becomes its result
\* (recv_cancel returns TRUE, run_queued_operation publishes CANCELED).
THEOREM CancelDecides == Spec => CancelHonoured
<1>1. ASSUME IInv, [Next]_vars, hit, Working, Running, status'.state # "running"
      PROVE  status'.state = "canceled"
  <2>1. wpc \in {"release", "finish"} /\ ret = Canceled
    BY <1>1 DEF IInv, HitShape
  <2>2. status' # status
    BY <1>1 DEF Running
  <2>3. ASSUME NEW c \in Callers, StartSet(c) \/ StartFail(c) PROVE FALSE
    BY <1>1, <2>3 DEF IInv, OneOwner, LocksHeld, Sending, StartSet, StartFail, At
  <2>4. ~DumpDone
    BY <2>1 DEF DumpDone
  <2>5. Finish
    BY <1>1, <2>2, <2>3, <2>4, StatusWriters
  <2>6. FinalState = "canceled"
    BY <2>1 DEF FinalState, Done, Failed, Canceled
  <2> QED BY <2>5, <2>6 DEF Finish, StatusOf
<1>2. IInv /\ [Next]_vars => [hit /\ Working /\ Running /\ status'.state # "running"
                                => status'.state = "canceled"]_vars
  BY <1>1
<1> QED BY <1>2, Inductive, PTL DEF Spec, CancelHonoured

\* A published result is final until another operation takes a new id.
THEOREM ResultsFinal == Spec => ResultStable
<1>1. ASSUME IInv, [Next]_vars, status.state \in {"done", "failed", "canceled"},
             status'.id = status.id, status' # status
      PROVE  FALSE
  <2>1. ~Running
    BY <1>1 DEF Running
  <2>2. ASSUME NEW c \in Callers, StartSet(c) PROVE FALSE
    BY <1>1, <2>2 DEF IInv, StatusShape, StartSet, StatusOf
  <2>3. ASSUME NEW c \in Callers, StartFail(c) PROVE FALSE
    <3>1. Sending(c)
      BY <2>3 DEF StartFail, At, Sending
    <3>2. Reports(arg[c])
      BY <1>1, <3>1 DEF IInv, OneOwner
    <3> QED BY <2>1, <3>2 DEF Reports
  <2>4. DumpDone \/ Finish
    BY <1>1, <2>2, <2>3, StatusWriters
  <2>5. Working
    BY <1>1, <2>4 DEF DumpDone, Finish, Working, Published
  <2> QED BY <1>1, <2>1, <2>5 DEF IInv, OneOwner, Reports
<1>2. IInv /\ [Next]_vars => [status.state \in {"done", "failed", "canceled"} /\ status'.id = status.id
                                => status' = status]_vars
  BY <1>1
<1> QED BY <1>2, Inductive, PTL DEF Spec, ResultStable

\* The reset of the dump's progress outside s_state_lock changes nothing.
THEOREM ResetSilent == Spec => UnlockedResetSilent
<1>1. ASSUME IInv, [Next]_vars, wpc = "alloc"
      PROVE  UNCHANGED <<dumpRead, dumpReady>>
  <2>1. /\ dumpRead = 0 /\ dumpReady = FALSE /\ Running /\ IsDump /\ Working
    BY <1>1 DEF IInv, StatusShape, LoopShape, OneOwner, Reports, IsDump, Working, Published,
       LoopPcs, Running, TypeOK
  <2>2. ASSUME NEW c \in Callers, CallerStep(c) PROVE UNCHANGED <<dumpRead, dumpReady>>
    <3>1. ~StartSet(c)
      BY <1>1, <2>1 DEF IInv, LocksHeld, StartSet, At
    <3> QED BY <2>2, <3>1 DEF CallerStep, StartRefuse, StartPass, StartSend, StartSendTimeout,
            StartFail, CancelRead, CancelSend, DataCheckTimeout, DataRefuse, DataLocked,
            DataUnlock, dumpVars
  <2>3. ASSUME NEW c \in Callers, Call(c) PROVE UNCHANGED <<dumpRead, dumpReady>>
    BY <2>3 DEF Call, StartTake, CancelTake, CancelTakeTimeout, DataTake, dumpVars
  <2>4. ASSUME WorkerStep PROVE UNCHANGED <<dumpRead, dumpReady>>
    BY <1>1, <2>1, <2>4 DEF WorkerStep, Receive, TakeLock, Alloc, ConnectPoll, HandshakeFail, HandshakeOk,
       Exchange, DumpPoll, PacketOk, PacketFail, Report, DumpDone, Release, Finish, dumpVars
  <2> QED BY <1>1, <2>2, <2>3, <2>4 DEF Next, vars
<1>2. IInv /\ [Next]_vars => [wpc = "alloc" => UNCHANGED <<dumpRead, dumpReady>>]_vars
  BY <1>1
<1> QED BY <1>2, Inductive, PTL DEF Spec, UnlockedResetSilent

-----------------------------------------------------------------------------
LEMMA InitService == Init => Service!Init
BY DEF Init, Service!Init, StatusOf, NoBuf

(* A step that leaves alone what is mapped is a stutter of the service. *)
LEMMA Stutter ==
  ASSUME UNCHANGED <<status, dumpReady, buf>>,
         \A c \in Callers : cpc'[c] = "streaming" <=> cpc[c] = "streaming"
  PROVE  UNCHANGED Service!vars
<1>1. {c \in Callers : cpc[c] = "streaming"}' = {c \in Callers : cpc[c] = "streaming"}
  OBVIOUS
<1> QED BY <1>1 DEF Service!vars

LEMMA CallerService ==
  ASSUME IInv, NEW c \in Callers, CallerStep(c) \/ Call(c)
  PROVE  [Service!Next]_(Service!vars)
<1> USE DEF IInv, TypeOK, At, Goto, Return, svcVars, dumpVars
<1> DEFINE Streaming == {d \in Callers : cpc[d] = "streaming"}
<1>1. CASE StartSet(c)
  <2>1. Streaming' = Streaming
    BY <1>1 DEF StartSet
  <2>2. ~Running /\ nextId # status.id /\ nextId \in 1 .. MaxId
    BY <1>1 DEF StartSet, LocksHeld, StatusShape, Ids
  <2>3. dumpReady' = (dumpReady /\ arg[c].type # "dump")
    BY <1>1 DEF StartSet, ResetDump
  <2>4. Service!Accept(arg[c].type)
    BY <1>1, <2>1, <2>2, <2>3 DEF StartSet, StatusOf, Running, Service!Accept
  <2>5. arg[c].type \in Service!Kinds
    BY <1>1 DEF StartSet, LocksHeld, Kinds, Service!Kinds
  <2> QED BY <2>4, <2>5 DEF Service!Next
<1>2. CASE StartFail(c)
  <2>1. Streaming' = Streaming
    BY <1>2 DEF StartFail
  <2>2. Sending(c)
    BY <1>2 DEF StartFail, Sending
  <2>3. Reports(arg[c])
    BY <2>2 DEF OneOwner
  <2>4. status.kind = "dump" => dumpReady = FALSE
    BY <2>3 DEF StatusShape, Reports, Running
  <2>5. Service!Finish("failed")
    BY <1>2, <2>1, <2>3, <2>4 DEF StartFail, StatusOf, Reports, Running, Service!Finish
  <2> QED BY <2>5 DEF Service!Next, Service!Results
<1>3. CASE DataLocked(c)
  <2>1. \A d \in Callers : cpc[d] # "streaming"
    BY <1>3 DEF DataLocked, LocksHeld
  <2>2. Streaming = {} /\ Streaming' = {c}
    BY <1>3, <2>1 DEF DataLocked
  <2>3. Service!Open(c)
    BY <1>3, <2>2 DEF DataLocked, DumpComplete, Service!Open
  <2> QED BY <2>3 DEF Service!Next
<1>4. CASE DataUnlock(c)
  <2>1. \A d \in Callers : d # c => cpc[d] # "streaming"
    BY <1>4 DEF DataUnlock, LocksHeld
  <2>2. Streaming' = {}
    BY <1>4, <2>1 DEF DataUnlock
  <2>3. Service!Close
    BY <1>4, <2>2 DEF DataUnlock, Service!Close
  <2> QED BY <2>3 DEF Service!Next
<1>5. ASSUME ~StartSet(c), ~StartFail(c), ~DataLocked(c), ~DataUnlock(c)
      PROVE  UNCHANGED Service!vars
  <2>1. UNCHANGED <<status, dumpReady, buf>>
    BY <1>5 DEF CallerStep, Call, StartTake, StartRefuse, StartPass, StartSend, StartSendTimeout,
       CancelTake, CancelTakeTimeout, CancelRead, CancelSend, DataTake, DataCheckTimeout,
       DataRefuse
  <2>2. \A d \in Callers : cpc'[d] = "streaming" <=> cpc[d] = "streaming"
    BY <1>5 DEF CallerStep, Call, StartTake, StartRefuse, StartPass, StartSend, StartSendTimeout,
       CancelTake, CancelTakeTimeout, CancelRead, CancelSend, DataTake, DataCheckTimeout,
       DataRefuse
  <2> QED BY <2>1, <2>2, Stutter
<1> QED BY <1>1, <1>2, <1>3, <1>4, <1>5

(* While the worker holds s_lock nobody streams. *)
LEMMA NobodyStreams ==
  ASSUME IInv, wpc \in LockPcs
  PROVE  {c \in Callers : cpc[c] = "streaming"} = {}
BY ThreadsAssumption DEF IInv, LocksHeld, TypeOK

(* The worker changes the image only as Refill does. *)
LEMMA WorkerRefill ==
  ASSUME IInv, wpc \in LockPcs \ {"release"}, IsDump,
         UNCHANGED <<status, dumpReady, cpc>>,
         \/ buf' = NoBuf
         \/ buf'.op = cmd.id
  PROVE  Service!Refill
<1>1. Reports(cmd)
  BY DEF IInv, OneOwner, Working, Published, LockPcs
<1>2. {c \in Callers : cpc[c] = "streaming"} = {}
  BY NobodyStreams
<1>3. (IF buf.alloc /\ buf.fill = DumpSize THEN buf.op ELSE 0)' \in {0, cmd.id}
  BY DEF NoBuf
<1> QED BY <1>1, <1>2, <1>3 DEF Reports, Running, IsDump, Service!Refill

(* Publishing a result is Finish. *)
LEMMA PublishFinish ==
  ASSUME NEW s \in Service!Results, NEW v, Running,
         status' = StatusOf(status.id, status.kind, s, v), UNCHANGED <<buf, cpc>>,
         IF status.kind = "dump"
         THEN dumpReady' = (s = "done") /\ (s = "done" => buf.alloc /\ buf.fill = DumpSize /\ buf.op = status.id)
         ELSE UNCHANGED dumpReady
  PROVE  Service!Finish(s)
<1> DEFINE Op == [id |-> status.id, kind |-> status.kind, state |-> status.state]
           Image == IF buf.alloc /\ buf.fill = DumpSize THEN buf.op ELSE 0
<1>1. Op.state = "running" /\ Op' = [Op EXCEPT !.state = s] /\ Op.kind = status.kind /\ Op.id = status.id
  BY DEF StatusOf, Running
<1>2. status.kind = "dump" => dumpReady' = (s = "done") /\ (s = "done" => Image = Op.id)
  OBVIOUS
<1>3. status.kind # "dump" => UNCHANGED dumpReady
  OBVIOUS
<1>4. UNCHANGED <<Image, {c \in Callers : cpc[c] = "streaming"}>>
  OBVIOUS
<1> QED
  <2> HIDE DEF Op, Image
  <2>1. IF Op.kind = "dump"
        THEN dumpReady' = (s = "done") /\ (s = "done" => Image = Op.id)
        ELSE UNCHANGED dumpReady
    BY <1>1, <1>2, <1>3, Zenon
  <2> USE DEF Op, Image
  <2> QED BY <1>1, <1>4, <2>1, Zenon DEF Service!Finish

LEMMA WorkerService ==
  ASSUME IInv, WorkerStep
  PROVE  [Service!Next]_(Service!vars)
<1> USE DEF svcVars, dumpVars, callerVars
<1> DEFINE Streaming == {d \in Callers : cpc[d] = "streaming"}
<1>1. CASE \E ok \in BOOLEAN : Alloc(ok)
  <2>1. IsDump /\ ~dumpReady
    BY <1>1 DEF Alloc, IInv, LoopShape, StatusShape, OneOwner, Reports, Working, Published,
       IsDump, Running
  <2>2. UNCHANGED <<status, dumpReady, cpc>>
    BY <1>1, <2>1 DEF Alloc, IInv, TypeOK
  <2>3. wpc \in LockPcs \ {"release"} /\ (buf' = NoBuf \/ buf'.op = cmd.id)
    BY <1>1 DEF Alloc, LockPcs, WorkerPcs
  <2>4. Service!Refill
    BY <2>1, <2>2, <2>3, WorkerRefill
  <2> QED BY <2>4 DEF Service!Next
<1>2. CASE ConnectPoll \/ DumpPoll \/ \E r \in {Failed, Canceled} : PacketFail(r)
  <2>1. wpc \in LockPcs \ {"release"} /\ UNCHANGED <<status, dumpReady, cpc>>
    BY <1>2 DEF ConnectPoll, DumpPoll, PacketFail, LockPcs, WorkerPcs
  <2>2. CASE buf' = buf
    BY <2>1, <2>2, Stutter
  <2>3. CASE buf' # buf
    <3>1. IsDump /\ buf' = NoBuf
      BY <1>2, <2>3 DEF ConnectPoll, DumpPoll, PacketFail, GiveUp
    <3> QED BY <2>1, <3>1, WorkerRefill DEF Service!Next
  <2> QED BY <2>2, <2>3
<1>3. CASE PacketOk
  <2>1. IsDump /\ buf.op = cmd.id /\ buf \in Buffer
    BY <1>3 DEF PacketOk, IInv, TypeOK, LoopShape, LoopPcs, ProgressBehind
  <2>2. buf'.op = cmd.id
    BY <1>3, <2>1 DEF PacketOk, Buffer
  <2>3. Service!Refill
    BY <1>3, <2>1, <2>2, WorkerRefill DEF PacketOk, LockPcs, WorkerPcs
  <2> QED BY <2>3 DEF Service!Next
<1>4. CASE DumpDone
  <2>1. IsDump /\ Reports(cmd) /\ buf.alloc /\ buf.op = cmd.id /\ buf.fill = DumpSize
    BY <1>4 DEF DumpDone, IInv, LoopShape, LoopPcs, OneOwner, Working, Published, ProgressBehind
  <2>2. /\ status' = StatusOf(status.id, status.kind, "done", FALSE) /\ status.kind = "dump"
        /\ status.id = cmd.id /\ Running /\ dumpReady' = TRUE /\ UNCHANGED <<buf, cpc>>
    BY <1>4, <2>1 DEF DumpDone, Reports, IsDump
  <2>3. Service!Finish("done")
    BY <2>1, <2>2, PublishFinish DEF Service!Results
  <2> QED BY <2>3 DEF Service!Next, Service!Results
<1>5. CASE Finish
  <2>1. Reports(cmd)
    BY <1>5 DEF Finish, IInv, OneOwner, Working, Published
  <2>2. FinalState \in Service!Results /\ (IsDump => FinalState # "done")
    BY <1>5 DEF Finish, FinalState, Service!Results, IInv, HitShape, TypeOK, Returns, Done, Failed, Canceled
  <2>3. /\ status' = StatusOf(status.id, status.kind, FinalState, HasValues)
        /\ Running /\ UNCHANGED <<buf, cpc>>
    BY <1>5, <2>1 DEF Finish, Reports
  <2>4. IF status.kind = "dump" THEN dumpReady' = FALSE /\ FinalState # "done"
                                ELSE UNCHANGED dumpReady
    BY <1>5, <2>1, <2>2 DEF Finish, Reports, IsDump
  <2>5. Service!Finish(FinalState)
    BY <2>2, <2>3, <2>4, PublishFinish
  <2> QED BY <2>2, <2>5 DEF Service!Next
<1>6. CASE \/ Receive \/ TakeLock \/ HandshakeFail \/ HandshakeOk \/ Report \/ Release
           \/ \E r \in Returns : Exchange(r)
  <2>1. UNCHANGED <<status, dumpReady, buf, cpc>>
    BY <1>6 DEF Receive, TakeLock, HandshakeFail, HandshakeOk, Report, Release, Exchange
  <2> QED BY <2>1, Stutter
<1> QED BY <1>1, <1>2, <1>3, <1>4, <1>5, <1>6 DEF WorkerStep

\* Threads, mutexes, queue and buffer implement the service that the callers
\* of app_param_board.h are promised.
THEOREM Refines == Spec => ImplementsService
<1>1. IInv /\ [Next]_vars => [Service!Next]_(Service!vars)
  <2>1. ASSUME IInv, UNCHANGED vars PROVE UNCHANGED Service!vars
    BY <2>1, Stutter DEF vars
  <2> QED BY <2>1, CallerService, WorkerService DEF Next
<1> QED BY <1>1, InitService, Inductive, PTL DEF Spec, ImplementsService, Service!Spec

-----------------------------------------------------------------------------
(* How long the worker is busy with an operation: its loops but for the    *)
(* wait for the board are bounded.                                         *)

BytesLeft == DumpSize - bytesRead

\* The most steps that the worker still makes for the operation it has taken
\* from the queue, the wait for a handshake counted as one.  A packet brings a
\* byte at least, and a poll and a report go with it.
WorkLeft ==
  CASE wpc = "lock" -> 3 * DumpSize + 8
    [] wpc = "alloc" -> 3 * DumpSize + 7
    [] wpc \in {"connect", "handshake"} -> 3 * DumpSize + 6
    [] wpc = "dumpPoll" -> 3 * BytesLeft + 4
    [] wpc = "packet" -> 3 * BytesLeft + 3
    [] wpc = "report" -> 3 * BytesLeft + 5
    [] wpc \in {"dumpDone", "exchange"} -> 3
    [] wpc = "release" -> 2
    [] wpc = "finish" -> 1
    [] OTHER -> 0

StillConnecting == {wpc, wpc'} = {"connect", "handshake"}

ComesNearer ==
  wpc # "receive" =>
    /\ WorkLeft' <= WorkLeft
    /\ WorkerStep /\ ~StillConnecting => WorkLeft' < WorkLeft

\* What a step of the worker does, and what bounds the work.
Less == WorkLeft' \in Int /\ WorkLeft' < WorkLeft

LEMMA LoopNumbers ==
  ASSUME IInv
  PROVE  /\ DumpSize \in Nat \ {0} /\ FrameBytes \in Nat \ {0} /\ wpc \in WorkerPcs
         /\ bytesRead \in 0 .. DumpSize
         /\ wpc \in {"dumpPoll", "packet"} => bytesRead < DumpSize
         /\ wpc \in {"connect", "handshake"} => bytesRead = 0
BY SizesAssumption DEF IInv, TypeOK, LoopShape

LEMMA WorkLeftIs ==
  ASSUME IInv
  PROVE  /\ WorkLeft \in 0 .. 3 * DumpSize + 8
         /\ wpc # "receive" => WorkLeft >= 1
BY LoopNumbers DEF WorkLeft, BytesLeft, WorkerPcs

LEMMA WorkerNearer ==
  ASSUME IInv, WorkerStep, wpc # "receive", ~StillConnecting
  PROVE  Less
<1> USE LoopNumbers DEF Less
<1>1. CASE TakeLock
  <2>1. wpc = "lock" /\ wpc' \in {"alloc", "connect"}
    BY <1>1 DEF TakeLock, AfterLock
  <2> QED
    BY <2>1 DEF WorkLeft
<1>2. CASE \E ok \in BOOLEAN : Alloc(ok)
  <2>1. wpc = "alloc" /\ wpc' \in {"connect", "release"}
    BY <1>2 DEF Alloc
  <2> QED
    BY <2>1 DEF WorkLeft
<1>3. CASE ConnectPoll
  <2>1. wpc = "connect" /\ wpc' = "release"
    BY <1>3 DEF ConnectPoll, GiveUp, StillConnecting
  <2> QED
    BY <2>1 DEF WorkLeft
<1>4. CASE HandshakeFail
  BY <1>4 DEF HandshakeFail, StillConnecting
<1>5. CASE HandshakeOk
  <2>1. wpc = "handshake" /\ wpc' \in {"dumpPoll", "exchange"} /\ bytesRead' = bytesRead
    BY <1>5 DEF HandshakeOk
  <2> QED
    BY <2>1 DEF WorkLeft, BytesLeft
<1>6. CASE \E r \in Returns : Exchange(r)
  <2>1. wpc = "exchange" /\ wpc' = "release"
    BY <1>6 DEF Exchange
  <2> QED
    BY <2>1 DEF WorkLeft
<1>7. CASE DumpPoll
  <2>1. wpc = "dumpPoll" /\ wpc' \in {"packet", "release"} /\ bytesRead' = bytesRead
    BY <1>7 DEF DumpPoll, GiveUp
  <2> QED
    BY <2>1 DEF WorkLeft, BytesLeft
<1>8. CASE PacketOk
  <2>1. /\ wpc = "packet" /\ wpc' \in {"dumpPoll", "report"}
        /\ bytesRead' = bytesRead + CopyLen
    BY <1>8 DEF PacketOk
  <2>2. CopyLen \in 1 .. DumpSize
    BY <2>1 DEF CopyLen
  <2> QED
    BY <2>1, <2>2 DEF WorkLeft, BytesLeft
<1>9. CASE \E r \in {Failed, Canceled} : PacketFail(r)
  <2>1. wpc = "packet" /\ wpc' = "release"
    BY <1>9 DEF PacketFail, GiveUp
  <2> QED
    BY <2>1 DEF WorkLeft, BytesLeft
<1>10. CASE Report
  <2>1. wpc = "report" /\ wpc' \in {"dumpPoll", "dumpDone"} /\ bytesRead' = bytesRead
    BY <1>10 DEF Report
  <2> QED
    BY <2>1 DEF WorkLeft, BytesLeft
<1>11. CASE DumpDone \/ Release \/ Finish
  <2>1. <<wpc, wpc'>> \in {<<"dumpDone", "release">>, <<"release", "receive">>,
                           <<"release", "finish">>, <<"finish", "receive">>}
    BY <1>11 DEF DumpDone, Release, AfterRelease, Finish
  <2> QED
    BY <2>1 DEF WorkLeft
<1>12. ~Receive
  BY DEF Receive
<1> QED
  BY <1>1, <1>2, <1>3, <1>4, <1>5, <1>6, <1>7, <1>8, <1>9, <1>10, <1>11, <1>12 DEF WorkerStep

LEMMA OthersLeaveWork ==
  ASSUME NEW c \in Callers, CallerStep(c) \/ Call(c)
  PROVE  WorkLeft' = WorkLeft
<1>1. UNCHANGED <<wpc, bytesRead>>
  BY DEF CallerStep, Call, StartTake, StartRefuse, StartPass, StartSet, StartSend,
    StartSendTimeout, StartFail, CancelTake, CancelTakeTimeout, CancelRead, CancelSend,
    DataTake, DataCheckTimeout, DataRefuse, DataLocked, DataUnlock, workerVars
<1> QED
  BY <1>1 DEF WorkLeft, BytesLeft

\* An operation that the worker has begun takes a bounded number of its steps,
\* but for the wait in board_connect: each other step of the worker brings it
\* nearer to its published result, and nothing the callers do takes it back.
\* (app_param_board_task, run_queued_operation, run_flash_dump_operation.)
\* With the threads running and the board answering, this is why EventuallyFree
\* holds for every size of the dump and of its packets.
THEOREM OperationsAreBounded ==
  Spec => /\ [](wpc # "receive" => WorkLeft \in 1 .. 3 * DumpSize + 8)
          /\ [][ComesNearer]_vars
<1>1. IInv => (wpc # "receive" => WorkLeft \in 1 .. 3 * DumpSize + 8)
  BY WorkLeftIs, SizesAssumption
<1>2. IInv /\ [Next]_vars => [ComesNearer]_vars
  <2> SUFFICES ASSUME IInv, Next, wpc # "receive"
               PROVE  /\ WorkLeft' <= WorkLeft
                      /\ WorkerStep /\ ~StillConnecting => WorkLeft' < WorkLeft
    BY DEF ComesNearer
  <2>1. WorkLeft \in Int
    BY WorkLeftIs, SizesAssumption
  <2>2. CASE WorkerStep /\ ~StillConnecting
    BY <2>1, <2>2, WorkerNearer DEF Less
  <2>3. CASE WorkerStep /\ StillConnecting
    <3>1. wpc \in {"connect", "handshake"} /\ wpc' \in {"connect", "handshake"}
      BY <2>3 DEF StillConnecting
    <3> QED
      BY <2>1, <2>3, <3>1 DEF WorkLeft
  <2>4. CASE ~WorkerStep
    BY <2>1, <2>4, OthersLeaveWork DEF Next
  <2> QED
    BY <2>2, <2>3, <2>4
<1> QED
  BY <1>1, <1>2, Inductive, PTL DEF Spec

-----------------------------------------------------------------------------
(* A cancel that is behind its operation is met by it.                     *)

\* In the queue is a cancel for the operation that runs, and its start is in
\* front of it or has been received.
CancelWaits ==
  /\ Running
  /\ \E i \in DOMAIN queue :
       /\ Matches(queue[i], status.id)
       /\ Working \/ \E j \in DOMAIN queue : Queued(j) /\ j < i

\* It stays there until the operation meets it or ends; and a call that finds
\* room puts one there, once the start is queued.
CancelMet ==
  /\ CancelWaits => CancelWaits' \/ (hit' /\ Working') \/ ~Running'
  /\ \A c \in Callers :
       /\ CancelSend(c) /\ Len(queue) < QueueLen
       /\ Running /\ arg[c].id = status.id /\ \A d \in Callers : ~Sending(d)
       => CancelWaits'

LEMMA CancelCalls ==
  ASSUME IInv, CancelWaits, NEW c \in Callers, CallerStep(c) \/ Call(c)
  PROVE  CancelWaits' \/ ~Running'
<1> USE DEF Running
<1>1. ~StartSet(c)
  BY DEF StartSet, At, IInv, LocksHeld, CancelWaits
<1>2. CASE StartFail(c)
  BY <1>2 DEF StartFail, StatusOf
<1>3. queue \in Seq(Command) /\ arg[c] \in Command
  BY DEF IInv, TypeOK
<1>4. CASE StartSend(c) \/ CancelSend(c)
  <2>1. /\ UNCHANGED <<status, wpc, ret, cmd>>
        /\ queue' \in {queue, Append(queue, arg[c])}
    BY <1>4 DEF StartSend, CancelSend, workerVars
  <2>2. \A i \in DOMAIN queue : i \in DOMAIN queue' /\ queue'[i] = queue[i]
    BY <1>3, <2>1, QueueAppend
  <2>3. (Working' <=> Working) /\ Running'
    BY <2>1 DEF Working, Published, IsDump, CancelWaits
  <2> QED
    BY <2>1, <2>2, <2>3 DEF CancelWaits, Matches, Queued
<1>5. CASE ~(StartSet(c) \/ StartFail(c) \/ StartSend(c) \/ CancelSend(c))
  <2>1. UNCHANGED <<status, queue, wpc, ret, cmd>>
    BY <1>5 DEF CallerStep, Call, StartTake, StartRefuse, StartPass, StartSendTimeout,
      CancelTake, CancelTakeTimeout, CancelRead, DataTake, DataCheckTimeout, DataRefuse,
      DataLocked, DataUnlock, workerVars, svcVars
  <2> QED
    BY <2>1 DEF CancelWaits, Matches, Queued, Working, Published, IsDump
<1> QED
  BY <1>1, <1>2, <1>4, <1>5

LEMMA CancelWork ==
  ASSUME IInv, CancelWaits, WorkerStep
  PROVE  CancelWaits' \/ (hit' /\ Working') \/ ~Running'
<1> USE DEF Running
<1>1. /\ queue \in Seq(Command)
      /\ Working => status.id = cmd.id
  BY DEF IInv, TypeOK, OneOwner, Reports
<1>2. CASE Receive
  <2>1. /\ queue # <<>> /\ queue' = Tail(queue) /\ ~Working /\ UNCHANGED status
        /\ Head(queue).type # "cancel" => wpc' = "lock"
    BY <1>2 DEF Receive, Working, svcVars
  <2>2. PICK i \in DOMAIN queue, j \in DOMAIN queue :
          Matches(queue[i], status.id) /\ Queued(j) /\ j < i
    BY <2>1 DEF CancelWaits
  <2>3. /\ i \in Int /\ j \in Int /\ i - 1 \in DOMAIN queue'
        /\ queue'[i - 1] = queue[(i - 1) + 1] /\ (i - 1) + 1 = i
    <3>1. i # 1
      BY <1>1, <2>1, <2>2, QueueTail
    <3> QED
      BY <1>1, <2>1, <3>1, QueueTail
  <2>4. Matches(queue'[i - 1], status'.id)
    BY <2>1, <2>2, <2>3
  <2>5. CASE j = 1
    <3>1. Head(queue).type # "cancel"
      BY <1>1, <2>1, <2>2, <2>5, QueueTail DEF Queued, Kinds
    <3>2. Working'
      BY <2>1, <3>1 DEF Working, Published
    <3> QED
      BY <2>1, <2>3, <2>4, <3>2 DEF CancelWaits
  <2>6. CASE j # 1
    <3>1. /\ j - 1 \in DOMAIN queue' /\ queue'[j - 1] = queue[(j - 1) + 1]
          /\ (j - 1) + 1 = j /\ j - 1 < i - 1
      <4>1. j - 1 \in DOMAIN queue' /\ queue'[j - 1] = queue[(j - 1) + 1]
        BY <1>1, <2>1, <2>6, QueueTail
      <4> QED
        BY <2>2, <2>3, <4>1
    <3>2. Queued(j - 1)'
      BY <2>2, <3>1 DEF Queued
    <3> QED
      BY <2>1, <2>3, <2>4, <3>1, <3>2 DEF CancelWaits
  <2> QED
    BY <2>5, <2>6
<1>3. CASE ConnectPoll \/ DumpPoll
  <2>1. Working /\ CancelSeen(cmd.id)
    BY <1>1, <1>3 DEF ConnectPoll, DumpPoll, Working, Published, CancelWaits, CancelSeen
  <2>2. hit' /\ wpc' = "release" /\ ret' = Canceled
    BY <1>3, <2>1 DEF ConnectPoll, DumpPoll, GiveUp
  <2> QED
    BY <2>2 DEF Working, Published, Done, Canceled
<1>4. CASE DumpDone \/ Finish
  <2>1. status'.state # "running"
    BY <1>4 DEF DumpDone, Finish, StatusOf, FinalState, IInv, TypeOK, Returns, Done, Failed,
      Canceled
  <2> QED
    BY <2>1
<1>5. CASE Release
  <2>1. UNCHANGED <<status, queue, cmd, ret>> /\ wpc = "release" /\ wpc' = AfterRelease
    BY <1>5 DEF Release, svcVars
  <2>2. Working => Working'
    BY <2>1 DEF Working, Published, AfterRelease, IsDump
  <2> QED
    BY <2>1, <2>2 DEF CancelWaits, Matches, Queued
<1>6. CASE \/ TakeLock \/ HandshakeFail \/ HandshakeOk \/ PacketOk \/ Report
           \/ \E ok \in BOOLEAN : Alloc(ok)
           \/ \E r \in Returns : Exchange(r)
           \/ \E r \in {Failed, Canceled} : PacketFail(r)
  <2>1. UNCHANGED <<status, queue, cmd>> /\ wpc' # "receive"
    BY <1>6 DEF TakeLock, AfterLock, HandshakeFail, HandshakeOk, PacketOk, Report, Alloc,
      Exchange, PacketFail, GiveUp, svcVars
  <2>2. ~Published'
    BY <1>6 DEF Published, TakeLock, AfterLock, HandshakeFail, HandshakeOk, PacketOk, Report,
      Alloc, Exchange, PacketFail, GiveUp, IsDump, IInv, LoopShape, Done, Failed, Canceled
  <2> QED
    BY <2>1, <2>2 DEF CancelWaits, Matches, Queued, Working
<1> QED
  BY <1>2, <1>3, <1>4, <1>5, <1>6 DEF WorkerStep

LEMMA CancelArrives ==
  ASSUME IInv, NEW c \in Callers, CancelSend(c), Len(queue) < QueueLen, Running,
         arg[c].id = status.id, \A d \in Callers : ~Sending(d)
  PROVE  CancelWaits'
<1>1. /\ queue \in Seq(Command) /\ arg[c] \in Command /\ arg[c].type = "cancel"
      /\ queue' = Append(queue, arg[c]) /\ UNCHANGED <<status, wpc, ret, cmd>>
  BY DEF CancelSend, At, IInv, TypeOK, LocksHeld, workerVars
<1> DEFINE n == Len(queue) + 1
<1>2. /\ n \in DOMAIN queue' /\ queue'[n] = arg[c]
      /\ \A i \in DOMAIN queue : i \in DOMAIN queue' /\ queue'[i] = queue[i] /\ i < n
  BY <1>1, QueueAppend
<1>3. Running' /\ Matches(queue'[n], status'.id) /\ (Working => Working')
  BY <1>1, <1>2 DEF Running, Matches, Working, Published, IsDump
<1>4. Working \/ \E j \in DOMAIN queue : Queued(j)
  BY DEF IInv, OneOwner
<1>5. \A j \in DOMAIN queue : Queued(j) => Queued(j)' /\ j < n /\ j \in DOMAIN queue'
  BY <1>2 DEF Queued
<1> HIDE DEF n
<1> QED
  BY <1>2, <1>3, <1>4, <1>5 DEF CancelWaits

\* A cancel for the operation that runs and whose start is queued is not lost
\* behind it: it is still there when the worker next polls the queue
\* (param_board_recv_cancel), or the operation has ended before.  With one
\* caller no start is on its way when a cancel is sent; with the threads
\* running, and the steps between two polls bounded (OperationsAreBounded), this
\* is why CancelTakesEffect holds, also when the board never answers.
THEOREM CancelsAreMet == Spec => [][CancelMet]_vars
<1>1. IInv /\ [Next]_vars => [CancelMet]_vars
  <2> SUFFICES ASSUME IInv, Next PROVE CancelMet
    OBVIOUS
  <2>1. CancelWaits => CancelWaits' \/ (hit' /\ Working') \/ ~Running'
    BY CancelCalls, CancelWork DEF Next
  <2> QED
    BY <2>1, CancelArrives DEF CancelMet
<1> QED
  BY <1>1, Inductive, PTL DEF Spec
=============================================================================
