----------------------------- MODULE ParamStore -----------------------------
(***************************************************************************)
(* What one operation of the parameter-board worker does to the board:     *)
(* board_connect, run_read_operation, run_write_operation and              *)
(* run_flash_dump_operation (app_param_board_ops.c), the store layout      *)
(* (app_param_board_store.c) and the request/reply protocol on the UART    *)
(* (app_param_board_frame.c).                                              *)
(*                                                                         *)
(* The board's flash is an array of cells, each programmed with its CRC by *)
(* one request: sector 0 holds the number of the sector with the           *)
(* parameters (the store), and 72 parameters are the two cells of a store. *)
(* The board is external: it answers a request, or the request or the      *)
(* answer is lost or garbled, or the answer is late by any time.  No       *)
(* answer says which request it is for, so a request can be taken to have  *)
(* been answered by what was meant for an earlier one.  The ESP32 may      *)
(* restart at any point.                                                   *)
(***************************************************************************)
EXTENDS Integers, Sequences

CONSTANTS
  NumStores,   \* the stores are 1 .. NumStores (31 in the code)
  Blocks,      \* the contents a block of 36 parameters can have
  Erased,      \* 0xFF everywhere
  Junk,        \* programmed over something else: the CRC is wrong
  Payload,     \* data of an answer to a handshake or an erase
  Retries,     \* PARAM_FLASH_RETRIES
  MaxLine      \* bound: answers on the line at once

ASSUME StoreAssumption ==
  /\ NumStores \in Nat \ {0} /\ Retries \in Nat \ {0} /\ MaxLine \in Nat
  /\ Junk # Erased
  /\ {Erased, Junk} \cap (Blocks \cup 0 .. NumStores) = {}
  /\ Payload \notin 0 .. NumStores

VARIABLES
  flash,     \* the board's flash, by cell
  image,     \* history: what a sector was last erased to receive
  wire,      \* answers on their way to the ESP32
  rx,        \* answers in the UART's receive buffer
  stage,     \* the request the worker is busy with
  kind,      \* the operation
  values,    \* cmd->values: the parameters of a WRITE, the defaults of a READ
  store,     \* store_addr
  tries,     \* the retry counter of flash_operate
  waiting,   \* the request has been sent
  got,       \* the cells read so far
  ret,       \* the return value
  asked,     \* history: the operation has consumed a cancel
  had,       \* history: the pointer when the operation began
  calm,      \* history: the operation began on a quiet line, and nothing has
             \* gone wrong since
  crossed,   \* history: the operation's first request left while answers to
             \* handshakes were under way
  overtaken  \* history: a later request left while any answer was under way,
             \* or an operation began while one to a flash request was

startVars == <<kind, values, had>>
strays == <<crossed, overtaken>>
vars == <<flash, image, wire, rx, stage, kind, values, store, tries, waiting, got, ret,
          asked, had, calm, strays>>

-----------------------------------------------------------------------------
Stores == 1 .. NumStores
FirstStore == 1                    \* s_param_store_addr_table[1]
Cells == 0 .. 2 * NumStores + 1
Cell(s, b) == 2 * s + b            \* store_addr + block * 74
Pointer == 0                       \* s_param_store_addr_table[0]
Addresses == {Pointer} \cup Stores  \* store_addr_valid
Content == Blocks \cup Stores \cup {Erased, Junk}
StoreAt(s) == <<flash[Cell(s, 0)], flash[Cell(s, 1)]>>

Kinds == {"read", "write", "dump"}
Requests == {"getStore", "initErase", "initWrite", "erase", "write0", "write1", "read0",
             "read1", "packet"}
Stages == Requests \cup {"idle", "connect", "publish"}

\* Return values.  Bad stands for the code's -3 to -6.
Ok == 0
Blank == 1
NoAnswer == -1
Canceled == -2
BadHead == -2
Bad == -3

\* A board the worker can meet at power-up: no pointer yet, or a pointer to a
\* store; each store blank or complete.
BoardStates ==
  {f \in [Cells -> Blocks \cup Stores \cup {Erased}] :
     /\ f[Pointer] \in Stores \cup {Erased} /\ f[1] = Erased
     /\ \A s \in Stores : \/ f[Cell(s, 0)] \in Blocks /\ f[Cell(s, 1)] \in Blocks
                          \/ f[Cell(s, 0)] = Erased /\ f[Cell(s, 1)] = Erased}

Init ==
  /\ flash \in BoardStates
  /\ image = [s \in 0 .. NumStores |-> StoreAt(s)]
  /\ wire = <<>> /\ rx = <<>>
  /\ stage = "idle" /\ kind = "read" /\ values = <<Erased, Erased>>
  /\ store = FirstStore /\ tries = 0 /\ waiting = FALSE
  /\ got = <<>> /\ ret = Ok
  /\ asked = FALSE /\ had = Erased /\ calm = TRUE
  /\ crossed = FALSE /\ overtaken = FALSE

-----------------------------------------------------------------------------
(* The requests and the board.                                              *)

Read(c) == [cmd |-> "read", cell |-> c, data |-> Payload]
Write(c, d) == [cmd |-> "write", cell |-> c, data |-> d]
Erase(c) == [cmd |-> "erase", cell |-> c, data |-> Payload]

\* get_param_store_addr, init_param_store_addr, write_params_at,
\* read_params_at and flash_dump_read_packet, request by request.
Request ==
  CASE stage = "getStore"  -> Read(Pointer)
    [] stage = "initErase" -> Erase(Pointer)
    [] stage = "initWrite" -> Write(Pointer, FirstStore)
    [] stage = "erase"     -> Erase(Cell(store, 0))
    [] stage = "write0"    -> Write(Cell(store, 0), values[1])
    [] stage = "write1"    -> Write(Cell(store, 1), values[2])
    [] stage = "read0"     -> Read(Cell(store, 0))
    [] stage = "read1"     -> Read(Cell(store, 1))
    [] stage = "packet"    -> Read(Len(got))

\* An answer: its form, and the data it carries.
Answer(form, d) == [form |-> form, data |-> d]
Forms == {"good", "badHead", "bad"}

\* Programming clears bits only; the board echoes the data of a write.
Program(c, d) == [flash EXCEPT ![c] = IF @ \in {Erased, d} THEN d ELSE Junk]
EraseSector(c) == [flash EXCEPT ![c] = Erased, ![c + 1] = Erased]
Data(r) == IF r.cmd = "read" THEN flash[r.cell] ELSE r.data

Obey(r) ==
  /\ flash' = CASE r.cmd = "write" -> Program(r.cell, r.data)
                [] r.cmd = "erase" -> EraseSector(r.cell)
                [] r.cmd = "read"  -> flash
  /\ image' = IF r.cmd # "erase" THEN image
              ELSE IF r.cell = Pointer THEN [image EXCEPT ![0] = <<FirstStore, Erased>>]
              ELSE [image EXCEPT ![store] = values]

Fault == calm' = FALSE
NoFault == UNCHANGED calm

\* The board answers with data d, or its answer is lost or garbled.
Reply(d) ==
  \/ /\ Len(wire) + Len(rx') < MaxLine
     /\ \/ wire' = Append(wire, Answer("good", d)) /\ NoFault
        \/ \E f \in {"badHead", "bad"} : wire' = Append(wire, Answer(f, d)) /\ Fault
  \/ UNCHANGED wire /\ Fault

Served(r) == Obey(r) /\ Reply(Data(r))
Unheard == UNCHANGED <<flash, image, wire>> /\ Fault

Arrive ==
  /\ wire # <<>>
  /\ rx' = Append(rx, Head(wire))
  /\ wire' = Tail(wire)
  /\ UNCHANGED <<flash, image, stage, startVars, store, tries, waiting, got, ret, asked,
                 calm, strays>>

-----------------------------------------------------------------------------
(* The worker.                                                              *)

Start(k, v) ==
  /\ stage = "idle"
  /\ stage' = "connect" /\ kind' = k /\ values' = v
  /\ store' = FirstStore /\ tries' = 0 /\ waiting' = FALSE /\ got' = <<>>
  /\ ret' = NoAnswer
  /\ asked' = FALSE /\ had' = flash[Pointer]
  /\ calm' = (wire = <<>> /\ rx = <<>>)
  /\ crossed' = FALSE
  /\ overtaken' = (overtaken \/ \E i \in DOMAIN wire : wire[i].data # Payload)
  /\ UNCHANGED <<flash, image, wire, rx>>

Publish(r) == stage' = "publish" /\ ret' = r

\* board_connect sends the handshake without flushing the receive buffer.
Handshake ==
  /\ stage = "connect" /\ ~waiting
  /\ waiting' = TRUE
  /\ UNCHANGED <<flash, image, rx, stage, startVars, store, tries, got, ret, asked, strays>>
  /\ Reply(Payload)

Connected ==
  /\ stage = "connect" /\ waiting /\ rx # <<>>
  /\ rx' = Tail(rx)
  /\ waiting' = FALSE
  /\ stage' = IF Head(rx).form # "good" THEN "connect"
              ELSE IF kind = "dump" THEN "packet" ELSE "getStore"
  /\ UNCHANGED <<flash, image, wire, startVars, store, tries, got, ret, asked, calm, strays>>

\* Nothing arrived in time; an answer that is on its way is late.
Late == IF wire = <<>> THEN NoFault ELSE Fault

ConnectTimeout ==
  /\ stage = "connect" /\ waiting /\ rx = <<>>
  /\ waiting' = FALSE
  /\ Late
  /\ UNCHANGED <<flash, image, wire, rx, stage, startVars, store, tries, got, ret, asked,
                 strays>>

\* param_board_recv_cancel returns TRUE: in board_connect, and before each
\* packet of a dump.
CancelOperation ==
  /\ stage \in {"connect", "packet"} /\ ~waiting /\ tries = 0
  /\ asked' = TRUE
  /\ Publish(Canceled)
  /\ UNCHANGED <<flash, image, wire, rx, startVars, store, tries, waiting, got, calm, strays>>

\* (Variant: what is left in the receive buffer stays there.)
FlushNothing == UNCHANGED rx
Flush == rx' = <<>>

\* An operation's first request follows the handshake, which waits for its
\* answer for 4 ms only: the answers to several may be under way.  Before every
\* other one the worker has waited for an answer for 13 ms or more.
First == stage = "getStore" \/ (stage = "packet" /\ got = <<>>)
NewRequest == tries = 0 /\ wire # <<>>
Stray ==
  /\ crossed' = (crossed \/ (NewRequest /\ First))
  /\ overtaken' = (overtaken \/ (NewRequest /\ ~First))

\* flash_operate and flash_dump_read_packet: uart_flush_input, uart_write_bytes.
\* What is still on the line stays there.
Send ==
  /\ stage \in Requests /\ ~waiting
  /\ Flush
  /\ Stray
  /\ waiting' = TRUE
  /\ Served(Request) \/ Unheard
  /\ UNCHANGED <<stage, startVars, store, tries, got, ret, asked>>

\* frame_recv, the comparison of a write's echo, and store_addr_valid.  A dump
\* takes the data as they are (frame_recv_flash_dump).
Result(m) ==
  CASE m.form = "badHead" -> BadHead
    [] m.form = "bad" -> Bad
    [] m.form = "good" /\ stage = "packet" -> Ok
    [] m.form = "good" /\ Request.cmd = "read" /\ stage # "packet" ->
         IF m.data = Erased THEN Blank
         ELSE IF m.data = Junk THEN Bad
         ELSE IF stage = "getStore" /\ m.data \notin Addresses THEN Blank ELSE Ok
    [] m.form = "good" /\ Request.cmd = "write" -> IF m.data = Request.data THEN Ok ELSE Bad
    [] m.form = "good" /\ Request.cmd = "erase" -> Ok

\* What the callers of flash_operate return when it returns r # Ok.
\* (Variant: the failure of the last block is overwritten.)
FailureButLast(r) == IF stage = "write1" THEN Ok ELSE r
Failure(r) ==
  CASE stage = "initErase" -> -1
    [] stage \in {"initWrite", "erase"} -> -2
    [] stage \in {"write0", "write1"} -> -3
    [] OTHER -> r

Collect(d) == got' = Append(got, d)

\* (Variant: a store is programmed without an erase.)
AfterPointerNoErase == IF kind = "read" THEN "read0" ELSE "write0"
AfterPointer == IF kind = "read" THEN "read0" ELSE "erase"

\* What follows a request that succeeded with data d.
Succeed(d) ==
  \/ /\ stage = "getStore"
     /\ store' = d
     /\ stage' = AfterPointer
     /\ UNCHANGED <<got, ret>>
  \/ /\ stage = "initErase" /\ stage' = "initWrite" /\ UNCHANGED <<store, got, ret>>
  \/ /\ stage = "initWrite" /\ stage' = "erase" /\ store' = FirstStore
     /\ UNCHANGED <<got, ret>>
  \/ /\ stage = "erase" /\ stage' = "write0" /\ UNCHANGED <<store, got, ret>>
  \/ /\ stage = "write0" /\ stage' = "write1" /\ UNCHANGED <<store, got, ret>>
  \/ /\ stage = "write1" /\ UNCHANGED <<store, got>>
     /\ IF kind = "read" THEN stage' = "read0" /\ UNCHANGED ret ELSE Publish(Ok)
  \/ /\ stage = "read0" /\ Collect(d) /\ stage' = "read1" /\ UNCHANGED <<store, ret>>
  \/ /\ stage = "read1" /\ Collect(d) /\ Publish(Ok) /\ UNCHANGED store
  \/ /\ stage = "packet" /\ Collect(d) /\ UNCHANGED store
     /\ IF Len(got) + 1 = 2 * NumStores + 2 THEN Publish(Ok) ELSE UNCHANGED <<stage, ret>>

\* A blank or unknown pointer is initialised; every other failure ends the
\* operation.  (Variants: no pointer is, every pointer that cannot be read is.)
InitialisesNone(r) == FALSE
InitialisesAny(r) == stage = "getStore"
Initialises(r) == stage = "getStore" /\ r = Blank

Fail(r) ==
  /\ IF Initialises(r)
     THEN stage' = "initErase" /\ UNCHANGED ret
     ELSE Publish(Failure(r))
  /\ UNCHANGED <<store, got>>

Receive ==
  /\ stage \in Requests /\ waiting /\ rx # <<>>
  /\ rx' = Tail(rx)
  /\ waiting' = FALSE /\ tries' = 0
  /\ IF Result(Head(rx)) = Ok THEN Succeed(Head(rx).data) ELSE Fail(Result(Head(rx)))
  /\ UNCHANGED <<flash, image, wire, startVars, asked, calm, strays>>

\* for (retry = 0; retry < PARAM_FLASH_RETRIES; retry++)
\* (Variant: the counter stands still.)
NextTrySame == tries
NextTry == tries + 1
MoreTries == NextTry < Retries

Timeout ==
  /\ stage \in Requests /\ waiting /\ rx = <<>>
  /\ waiting' = FALSE
  /\ Late
  /\ IF MoreTries
     THEN tries' = NextTry /\ UNCHANGED <<stage, store, got, ret>>
     ELSE tries' = 0 /\ Fail(NoAnswer)
  /\ UNCHANGED <<flash, image, wire, rx, startVars, asked, strays>>

\* run_queued_operation publishes ret (ParamBoard).
Finish ==
  /\ stage = "publish"
  /\ stage' = "idle"
  /\ UNCHANGED <<flash, image, wire, rx, startVars, store, tries, waiting, got, ret, asked,
                 calm, strays>>

\* The ESP32 restarts: the operation is forgotten, the board is not.
Restart ==
  /\ stage # "idle"
  /\ stage' = "idle" /\ wire' = <<>> /\ rx' = <<>>
  /\ tries' = 0 /\ waiting' = FALSE
  /\ Fault
  /\ UNCHANGED <<flash, image, startVars, store, got, ret, asked, strays>>

-----------------------------------------------------------------------------
Worker ==
  \/ Handshake \/ Connected \/ ConnectTimeout \/ CancelOperation
  \/ Send \/ Receive \/ Timeout \/ Finish

Next ==
  \/ \E k \in Kinds, v \in Blocks \X Blocks : Start(k, v)
  \/ Worker \/ Arrive \/ Restart

Spec == Init /\ [][Next]_vars

\* The worker's waits are bounded, and the line delivers.
FairSpec == Spec /\ WF_vars(Worker) /\ WF_vars(Arrive)

-----------------------------------------------------------------------------
TypeOK ==
  /\ flash \in [Cells -> Content]
  /\ image \in [0 .. NumStores -> (Content \X Content)]
  /\ stage \in Stages /\ kind \in Kinds
  /\ values \in (Blocks \X Blocks) \cup {<<Erased, Erased>>}
  /\ store \in Addresses /\ tries \in 0 .. Retries - 1 /\ waiting \in BOOLEAN
  /\ ret \in {Ok, Blank, NoAnswer, Canceled, Bad}
  /\ asked \in BOOLEAN /\ had \in Content /\ calm \in BOOLEAN
  /\ crossed \in BOOLEAN /\ overtaken \in BOOLEAN

\* No cell is programmed before the erase of its sector has been confirmed:
\* whatever is lost, retried or interrupted, the board's flash never holds a
\* cell that no operation can read or an operation has to give up on.  (Like
\* the next properties, as long as no flash request has been overtaken by the
\* next one: its answer came within the time the worker waited for it.)
NeverOverprogrammed == ~overtaken => \A c \in Cells : flash[c] # Junk

\* A WRITE that is reported done has reached the flash: the pointer names the
\* store and the store holds exactly the values that were sent.
WriteDoneStored ==
  stage = "publish" /\ ret = Ok /\ kind = "write" /\ ~overtaken =>
    flash[Pointer] = store /\ StoreAt(store) = values

\* A READ that is reported done returns the flash's parameters, and both
\* halves are of one write: never half of a write that was interrupted.
ReadDoneWhole ==
  stage = "publish" /\ ret = Ok /\ kind = "read" /\ ~overtaken =>
    flash[Pointer] = store /\ got = StoreAt(store) /\ got = image[store]

\* A dump that is reported done is the flash, packet for packet; but for the
\* first packet if answers to handshakes were under way when it was requested.
DumpDoneExact ==
  stage = "publish" /\ ret = Ok /\ kind = "dump" /\ ~overtaken =>
    /\ Len(got) = 2 * NumStores + 2
    /\ \A c \in Cells : got[c + 1] = flash[c] \/ (crossed /\ c = 0)

\* Reading does not write: a dump never changes anything, and a READ nothing on
\* a board that had a pointer, unless answers to handshakes were under way when
\* it asked for the pointer.
ReadLeavesFlash ==
  [][\/ kind = "dump"
     \/ kind = "read" /\ had \in Stores /\ ~crossed /\ ~overtaken
       => flash' = flash]_vars

\* An operation on a quiet line during which nothing goes wrong succeeds, however
\* earlier ones were interrupted; only a READ may find a store that an interrupted write has
\* left incomplete, and says so (1).
CalmSucceeds ==
  stage = "publish" /\ calm /\ ~asked /\ ~overtaken =>
    \/ ret = Ok
    \/ kind = "read" /\ ret = Blank /\ had \in Stores
         /\ Erased \in {flash[Cell(had, 0)], flash[Cell(had, 1)]}

\* A read that is reported done "reads back from the current board"
\* (esp32s3/README.md:18): its parameters are those of the store the board's
\* pointer named when the read began.
ReadbackReads ==
  stage = "publish" /\ ret = Ok /\ kind = "read" /\ had \in Stores /\ ~overtaken =>
    store = had

\* The result "canceled" ("cancelled connecting to the board",
\* app_param_board_ops.c:238) is that of an operation that consumed a cancel.
CanceledMeansAsked == stage = "publish" /\ ret = Canceled => asked

\* Once connected, an operation ends, whatever the board does: each request
\* waits and retries a bounded number of times.
ConnectedEnds == stage \in Requests ~> stage \in {"publish", "idle"}
=============================================================================
