# Verification of the ESP32-S3 parameter update tools

TLA+ models of the firmware and tools in this repository, the TLC runs that check them on small instances, and
theorems about them that the TLA+ proof system (TLAPS) checks for every value of the constants.
`PROJECT.json` maps each definition to the source lines it models, each run to the properties it checks and each
property to a mutation of the model that breaks it.

Paths below are relative to `src/`; `C/` stands for `esp32s3/components/`.

## 1. The system

A parameter board (external, on a UART) holds 72 parameters in its flash. The ESP32-S3 opens an access point and an
HTTP server; an operator's browser reads back and downloads parameters, dumps the board's flash, and manages BIN files
that a PC tool has built.

| Part | Sources | State | Operations | Talks to |
|---|---|---|---|---|
| Operation service | `C/app_param_board/app_param_board{,_state,_ops}.c` | two mutexes, command queue (8), next operation id, status slot, dump buffer and its progress | start read/write/dump, status, dump status, lock/unlock dump data, cancel; worker task | called by the HTTP handlers; drives the UART |
| Board protocol and store | `app_param_board_{frame,store,ops}.c` | retry counter, store address, values read; the board's flash | handshake, read/write/erase with retries, initialise the pointer, read and write 72 values, dump packets | parameter board |
| HTTP file API | `C/app_web_file_server/app_web_file_*.c`, `C/app_storage_lock` | files, filesystem mutex | upload, download, list, delete | FAT file system |
| Login session | `app_web_auth.c` | one session slot: id, user, role, expiry | login, logout, status, check and renew | every handler |
| Parameter and dump API | `app_web_param_api.c`, `app_web_param_bin_api.c`, `app_web_flash_dump_api.c` | none of their own | readback, download, status, cancel, dump start/status/data | operation service, BIN parser, files |
| Parameter values | `app_web_param_value.c` | none | ns to ticks and back, parsing 72 values | parameter API |
| Pages | `C/app_web_file_server/*.js` | selection, dialogs, polling loops | asynchronous clients of the API | HTTP |
| BIN parser | `C/app_param_bin` | none | decrypt and decode a BIN file | files |
| PC tool | `tools/src-tauri/src`, `tools/src` | a project being edited | validate, encode, decode | BIN files |
| Rest | `C/app_wifi`, `C/BSP`, `esp32s3/main`, `fpga` | none to speak of | initialisation; a wire | |

Threads: ESP-IDF's HTTP server runs every handler in one task, one request at a time
(`app_web_file_server.c:29-42`); the worker `param_board_task` runs beside it. They share the operation service. The
pages are asynchronous: requests of several pages and of one page's callbacks reach the server in any order.

### What is hard, and what makes each part correct

* Operation service: a start marks the operation running under `s_state_lock` and queues it after releasing the
  lock; the worker, when it polls for a cancel, empties the queue; a cancel names an operation that may be over when it
  arrives; the worker frees the dump buffer while a handler may be streaming it; some variables are written without
  the lock. Correct is: one operation at a time, each reported running exactly as long as somebody has it, each with
  one result that stays until the next start; a reader of the dump sees a complete, unchanging image; a cancel takes
  effect on the operation it was meant for and on no other.
* Board protocol and store: answers are lost, garbled or late, requests are retried though the board has obeyed, an
  operation fails or the ESP32 restarts between an erase and a write. Correct is: what is reported done is what the
  flash holds; nothing is programmed twice without an erase; reading does not write; an interrupted operation never
  leaves the board in a state the next one cannot get out of.
* Files: an upload replaces a file by remove and rename, and may be interrupted at any point; the mutex is held while
  a slow client sends. Correct is: a name holds nothing or one complete upload; the lock is always given back.
* Session: one slot, an expiry that is only noticed by the next request and that every request renews. Correct is:
  never two owners, a login possible once the owner has been away for the timeout.
* Frames: a read takes the next 82 bytes whatever they begin with. Correct is: no answer is taken for another's, and
  the frames come into step again.
* Pages: answers arrive after the user has changed the selection, cancelled or logged out; a cancel overtakes the start
  it is meant for; a file is replaced between two requests about it; buttons are disabled and enabled by hand. Correct is:
  a page is told of its own operation, values stay with their file, what is written was confirmed, no operation is left
  without anybody to cancel it.
* Values and BIN files: conversions that must be inverse to each other at the limits of their ranges; offsets and
  lengths that have to fit; two decoders that have to agree.
* Names: an uploaded name is escaped, put into a query or a form, cut out of it, unescaped and joined to a path, with a
  buffer of its own size at each step. Correct is: a request is about the file it names, and a listed file can be used.

`PROJECT.json` lists these as hazards, each at its line, with the properties that cover it.

## 2. Modules

| Module | What it is |
|---|---|
| `BoardService` | Abstract specification: what the operation service promises its callers |
| `ParamBoard` | The operation service: API callers and the worker, step by step |
| `ParamBoardProofs` | Its inductive invariant `IInv`; proofs of it, of the safety and action properties that follow, and that `ParamBoard` implements `BoardService` |
| `ParamStore` | One operation of the worker against the board: protocol, store, faults, restarts |
| `ParamStoreProofs` | Its inductive invariant `StoreInv`; proofs of it, of the safety and action properties, and that an operation's work is bounded |
| `FrameLine` | The bytes under `ParamStore`: how reads cut the stream into frames |
| `FrameLineProofs` | Its inductive invariant `LineInv` and the proofs of its safety properties |
| `FileStore` | The files and the handlers that use them, under the filesystem mutex; its inductive invariant `FileInv` |
| `FileStoreProofs` | Proofs of the invariant, of the safety properties that follow, and that the mutex is given back |
| `WebSession` | The session slot, the browsers' cookies and the handlers that look at them, with time |
| `WebSessionProofs` | Proofs of its safety and action properties |
| `PageOperation` | The pages' polling loops and cancel button as asynchronous clients of the operation service |
| `PageOperationProofs` | Its inductive invariant `PageInv`; proofs of it and of the safety properties, and that the service in it is a `BoardService` |
| `ParamValue` | Nanoseconds and ticks: conversions, parsing, merging, differences, as operators |
| `ParamPage` | The parameter page, the parameter API and the board, around `ParamValue`; its invariant `PageInv` |
| `ParamPageProofs` | Proofs of its invariant, safety and action properties, and of those of `DumpPage` |
| `DumpPage` | The flash dump view and the buttons it shares with the parameter page |
| `ParamBin` | A BIN file from the PC tool's form to the firmware's parser, byte by byte |
| `ParamBinProofs` | Its inductive invariant `BinInv` and the proofs of its two properties; those of `FileNames` with the invariant `NamesInv` |
| `FileNames` | A file's name from the user's disk to the device, the list and the requests about it |
| `MC*` | The instances for TLC of each module that is model-checked (`DumpPage` is proved about only); `MCBinFiles` is that of `FileStore`, `ParamBin` and `FileNames` |

`ParamBoard` and `ParamStore` divide the worker between them. `ParamBoard` has the locks, the queue and the
status, and lets the exchange after the handshake return any value (`Exchange`, `PacketOk`, `PacketFail`);
`ParamStore` has the exchange and lets an operation start at any time when none is under way, which is what
`ParamBoard!OneOwner` establishes. `FrameLine` has the bytes, where `ParamStore` has whole answers. `PageOperation` is composed with
`BoardService`: it uses the service as its clients do, and the run `page` checks that the service it is given is
one that `BoardService` allows (`OnTheService`, proved for any number of pages in `PageOperationProofs`), which is what `ParamBoard` is proved to implement. `ParamPage` extends
`ParamValue` and leaves to `PageOperation` what can be lost or canceled.

### ParamBoard

Each thread has a program counter and a step is one critical section or one call of the operating system, so
that every interleaving the two mutexes and the queue allow is explored.

| Code | Model |
|---|---|
| `s_lock`, `s_state_lock`, `s_cmd_queue`, `s_next_op_id`, `s_status` | `lock`, `stateLock`, `queue`, `nextId`, `status` |
| `s_flash_dump_data`, `_bytes_read`, `_ready` | `buf` (allocated, by which operation, bytes valid), `dumpRead`, `dumpReady` |
| `start_operation` | `StartTake`, then `StartRefuse` or `StartPass`, `StartSet`, then `StartSend` or `StartSendTimeout` and `StartFail` |
| `app_param_board_cancel_connect` | `CancelTake` or `CancelTakeTimeout`, `CancelRead`, `CancelSend` |
| `lock_flash_dump_data`, `unlock_flash_dump_data` | `DataTake`, then `DataCheckTimeout`, `DataRefuse` or `DataLocked`, and `DataUnlock` |
| `get_status`, `get_flash_dump_status` | the answers `StatusAnswer`, `DumpAnswer`: they only read, under the lock |
| `app_param_board_task`, `run_queued_operation` | `Receive`, `TakeLock`, ..., `Release`, `Finish` |
| `board_connect` | `ConnectPoll` (the cancel poll and the request), `HandshakeFail`, `HandshakeOk` |
| `run_flash_dump_operation` | `Alloc`, `ConnectPoll`, `DumpPoll`, `PacketOk`, `PacketFail`, `Report`, `DumpDone` |
| `param_board_recv_cancel` | `CancelSeen`, which takes commands up to the first cancel for this operation and drops the rest it has taken |

The module is written for any set of callers. The firmware has one, the HTTP task; the module's API takes its
locks for any number, and several of the properties are about what those locks do. Two properties
(`CancelIsForThisOp`, `CancelTakesEffect`) hold with one caller only, and are checked there: with two, a cancel that was
read before another caller's start can be queued after it.

A call that gives up waiting for a mutex before it has changed anything returns an error and is not a step.
Messages and values are left out, as is `s_flash_dump_size`, which only ever has one value after a start.

### ParamStore

The board's flash is an array of cells, each programmed with its CRC by one request; sector 0 holds the pointer to the
sector with the parameters (the store), and the 72 parameters are two cells of 36. `Request` says which request a stage of an
operation sends, `Succeed` and `Fail` what follows it, `Result` how `frame_recv`, `frame_recv_flash_dump` and the
comparison of a write's echo judge an answer.

| Code | Model |
|---|---|
| `board_connect` | `Handshake`, `Connected`, `ConnectTimeout`, `CancelOperation` |
| `flash_operate`, `flash_dump_read_packet` | `Send` (flush, write), `Receive`, `Timeout` (`NextTry`, `MoreTries`) |
| `get_param_store_addr`, `init_param_store_addr`, `read_params_at`, `write_params_at` | `Request`, `Succeed`, `Failure` by stage |
| the return value -2 of a cancel, a wrong head, a failed erase | `Canceled`, `BadHead`, `Failure`: one number, as in the code |

The board is external. It obeys a request and answers, or the request is lost, or the answer is lost, garbled or
late; programming a cell that is neither erased nor equal gives `Junk`, whose CRC is wrong. `Restart` is a restart of
the ESP32 at any point: it forgets the operation and what was in the UART, the board keeps its flash.
Six history variables (`image`, `asked`, `had`, `calm`, `crossed`, `overtaken`) only serve the properties.

An answer does not say which request it is for: `frame_recv` compares neither its command nor its address (`app_param_board_frame.c:85-130`).
So the model lets an answer be late by any time, and `Send` flushes what has arrived and sends, as the code does, whatever
is still under way. Two cases have to be told apart:

* A handshake waits for its answer for 4 ms only (`app_param_board_ops.c:23-24`) and is sent again, so on a slow board the answers to several are
  under way when the operation's first request leaves. This is ordinary, and `crossed` says that it has happened. What the properties still promise
  then is checked and proved: nothing is programmed over, what a READ or WRITE reports done is what the flash holds. What they no longer promise is in
  them: the first packet of a dump may be the handshake's answer (`DumpDoneExact`), and a READ may move the pointer and write
  the defaults (`ReadLeavesFlash`), which the run `store_readback` shows (section 5).
* A request to the flash waits 13 ms for its answer, 68 ms for one to an erase. A board that answers one of them only after the *next*
  request has been sent sets `overtaken`, and the safety properties but `CanceledMeansAsked` have `~overtaken` as a premise: if the answer to one
  cell can be taken for that of another, nothing that is reported is worth anything. A late answer to a *retry* of the same
  request is not of this kind; it is what the flush before each try is for.

`StoreAssumption` has the data of an answer to a handshake not begin with the address of a store: the board's identification does not.

### FileStore

A step is one call that a handler makes on the mutex, the file system or the socket. `file` and `tmp` hold, for each name, the
contents of `x.bin` and of `x.bin.tmp` as a pair: whose upload, and how much of it.

| Code | Model |
|---|---|
| `app_storage_lock`, `app_storage_unlock` | `Lock`, `Unlock` |
| `upload_handler`: `fopen`, no buffer | `Open`, `OpenFails`, `NoBuffer` |
| its receive loop | `Recv`, `RecvTimeout` (`MayWait`), `RecvFails` |
| size check, `fflush`, `fclose` | `Close` (`Received`), `CloseFails` |
| `remove(full_path)`, `rename`, `remove(tmp_path)` | `RemoveOld`, `Rename`, `RenameFails`, `Cleanup` |
| `delete_handler` | `Delete`, `DeleteTmp` (its path may be that of a temporary), `DeleteFails` |
| `stream_file`; `app_param_bin_parse_file`, called by `bin_parse_handler` and `load_parsed_bin` | `Read`, `ReadEnds`, `ReadFails`, for the kinds `download` and `parse` |
| `files_handler` | `ListEntry`, `ListEnds` |

In the firmware one task runs all these handlers, so they never contend for the mutex; the repository's rule is that every file
operation takes it (`esp32s3/.codex-workspace-skills/esp32s3/SKILL.md:214`), and the module is written for any number of tasks, which is what the
rule is for. The file system is external: every call may fail, a rename needs its new name to be free, a
directory entry changes at once, and a file that a restart finds open may have lost its end. `Restart` comes between any two calls.
Name checks, which refuse a request before the mutex is taken, are left out. Names are those of board configurations; somebody
who uploads a file called `x.bin.tmp` shares it with the next upload of `x.bin`, which the model does not cover.
`old`, `stale` and `renameFailed` are history variables.

### FrameLine

A byte is its place in the frame it was sent in; the frame has `FrameBytes` of them (82 in the code, 4 in the instance).
`line` is what is on its way, `rx` the UART driver's receive buffer.

| Code | Model |
|---|---|
| `board_connect`, which sends and reads without a flush | `Handshake`, `Read`, `Short` in stage `connect` |
| `flash_operate_ex`, `flash_dump_read_packet` | `Request` (`Flush`), `Read`, `Short` (`MoreTries`) in stage `request` |
| `frame_recv`: a frame's worth of bytes, a timeout | `Read` (`Good`), `Short` (`TakesPart`) |

The board is first noisy (silent, late, bytes nobody sent) and from some point on it answers every request in time: `Prompt`. It is
*steady* if before that it was silent for a whole read with nothing left on the line, which lets the short read take what was out of step; otherwise it is
*prompt*. Nobody cancels, and there is one request after the handshake: what the flush and the retries do to the bytes is the same for each.

### WebSession

One task runs every handler, so a handler is one step; a tab sends a request with the cookie its browser has then, and the
answer, with its cookie, arrives later, after others or never. `session.left` and a cookie's `left` count down with `Tick`.

| Code | Model |
|---|---|
| a request of a page's script, its answer | `Send` (the cookie the browser has then), `Receive` (sets the cookie), `Lose` |
| `login_handler`, with `create_session` | `Login` without a live session; `LoginAgain` with one: its owner stays logged in, anybody else is refused; `LoginRefused` for a wrong password |
| `logout_handler`, `clear_session` | `Logout` |
| `session_is_valid`, `require_logged_in` and the handlers behind them; `index_handler`, `app_handler` | `Look` (`Looked`: renews, or clears what has expired; `Home`: the page for the user) |
| the browser's cookie with `Max-Age`; the clock; a restart | `jar`, `Tick`, `Restart` |

Ids are 128 random bits and taken never to repeat one in use. What a handler does after a refusal it could not send is left out.

### PageOperation

| Code | Model |
|---|---|
| `runParamBoardOperation` (admin and user), `actFlashDump` | the stages of `page[p].awaits`; the styles `admin`, `user` and `dump` differ where the scripts do |
| `cancelBoardConnect`, the cancels after a start that was canceled | `Cancel` requests, which overtake others |
| start, status, cancel and data handlers | one step each, on `op`, `canceling` and `image` |
| the operation service | `op` and the worker's `Connect`, `Finish`, `EndCanceled`: `BoardService` with what a cancel does |

With `Lossy`, requests and answers are lost and pages reloaded or closed; `Restart` restarts the ESP32. The history `lost` says that one of these has
happened: two of the properties are promises only while none has.

### ParamValue and ParamPage

A file is a function from addresses to a default and whether the parameter is visible; a text `addr:ns,...` is a function on the
addresses it names. `ParamValue` has the operators (`Convertible`, `ToTick`, `Parses`, `Merged`, `Shown` of the server; `Clamp`, `Collectable`, `Diffs` of the
page), `ParamPage` the page's tables, the run of a readback or a download await by await, the handlers, the worker's effect on the
board, and others who replace files and write the board.

| Code | Model |
|---|---|
| `selectBin`, `loadFiles`, `parseSelected` | `Select`, `AskFiles`, `ReceiveFiles`, `ReceiveParse` (`Carried`: the merge with the old values) |
| typing, `actDefault`, `deleteFileByPath` | `Input`, `ActDefault`, `Delete` (the server's part) and `Deleted` (the page's, after the await) |
| `actReadback` | `ActReadback`, `Launch` and `HandleRead`, `HandleStatus`, `ReceiveRead` (`TakeOver`) |
| `actDownload` | `ActDownload`, the readback as above, `Confirm`, `HandleWrite`, `Finish`, or `Fail` |
| the worker | `WorkerRead`, `WorkerWrite`, `WorkerFails` (`Initialised`: a READ may write the defaults, also when it fails afterwards) |

### DumpPage

The image that was fetched is the number of its run; `drawn` is which page of which image the cells show, `enabled` the buttons
as the code last set them. `Select` ... `ParamEnds` are what of the parameter page touches the buttons.
There is no instance for TLC: the arithmetic is about the firmware's numbers, and everything the module promises is proved (section 4).

### ParamBin and FileNames

`ParamBin` lays the payload out as bytes: `validate_project`, the encoder, the header, the firmware's `decode_payload` with its
checks in their order, and the tool's own decoder. The user exports a project, the file is damaged, cut or replaced by bytes of somebody
else's making, and both sides read it. AES-GCM is external: a seal is that of one header and one payload, so that any
change of either is noticed; with the key, anything can be sealed.

`FileNames` models the texts as sequences of characters, some standing for a run of several so that the buffers have
their real sizes: `Encode` and `Decode`, the key search in a query or a form, `valid_upload_name`, `path_from_uri`, the listing.

## 3. Runs

| Run | Instance | Checks | Shows |
|---|---|---|---|
| `board_two_callers` | 2 callers, queue 2, ids 1-2, dump of 3 bytes in packets of 2, 1.1 million states | `NoStartDropped`, `AnswerConsistent`, `ImplementsService`, `CancelHonoured` | under every interleaving no accepted start is lost, the two status calls agree, a cancel that was consumed is the result, and the service is what `BoardService` promises |
| `board_one_caller` | 1 caller, queue 3, ids 1-2, fair threads | `CancelIsForThisOp`, `CancelTakesEffect`, `EventuallyFree` | in the firmware's arrangement a cancel hits the operation it was for, ends it on a silent board too, and every operation ends on a board that answers |
| `store_safety` | 2 stores, 2 parameter blocks, 2 tries, 2 answers on the line, 5.2 million states while `~overtaken` (`CONSTRAINT Promised`) | `NeverOverprogrammed`, `WriteDoneStored`, `ReadDoneWhole`, `DumpDoneExact`, `CalmSucceeds`, `ReadLeavesFlash` | what is reported done is true of the flash, through faults, restarts and late answers; after a late answer to a handshake, but for what section 2 names |
| `store_ends` | 1 store, 1 block, 3 tries, no constraint, 0.5 million states | `ConnectedEnds` | an operation ends once the handshake is answered, however late answers are |
| `store_readback` | 2 stores, 1 block, 2 tries | `ReadbackReads` (violated) | a disagreement of section 5 |
| `store_canceled` | 1 store, 1 block, 3 tries | `CanceledMeansAsked` (violated) | a disagreement of section 5 |
| `line` | frames of 4 bytes, 3 tries, 3 bytes nobody sent, 12 bytes on the line, 0.4 million states | `OwnAnswer`, `PromptRequestSucceeds`, `SteadyBoardConnects` | the flush before a request keeps the handshakes' leftovers from being taken for its answer and puts the frames in step; a steady board is connected |
| `bin_files` | `FileStore` with 2 tasks, 1 name, 2 contents of 3 units received 2 at a time, 1 timeout; `ParamBin` with 2 parameters, names of 2 characters, 10 projects, every byte damaged, every shorter length; `FileNames` with names of every kind of character and at every limit, the buffers' real sizes. The three share no variable, and each moves while the other two are in an initial state; 126 thousand states | `WholeOrNothing`, `OkMeansStored`, `FailKeepsOld`, `ReaderStable`, `EveryRequestAnswered`; `ExportUnderstood`, `DecodersAgree`; `NamesKept`, `ListedFilesUsable` | a file is whole or absent and an answer true through every failure and restart, and every path gives the mutex back; exports are understood and the two decoders agree on every file; a request reaches its file, and what is listed can be parsed, read back, downloaded and deleted, and asked about unless its path is `TooLongToPoll` |
| `name_status` | as `bin_files` | `EveryRequestServed` (violated) | a disagreement of section 5 |
| `session` | 2 browsers, one with two tabs, 2 accounts, 2 ids, a timeout of 1, 1.3 million states | `OneHolder`, `NotTakenOver`, `RenewedByHolder`, `OrphanEnds` | nobody takes over or prolongs somebody else's session, and one nobody has the id of ends |
| `page` | an admin page with dumps and a user page, a run each, losses, 1 restart, a board that may never answer, 0.2 million states | `ToldOfItsOwn`, `Attended`, `OnTheService`, `CancelEnds`, `CanceledReturns` | a page is told of its own operation only, none is left without a page, an effective cancel ends it, and the service is used as `BoardService` promises |
| `param_page` | 2 paths, 3 contents, 2 parameters of 3 ticks, 2 runs, 2.8 million states | `ValuesOfOwnPath`, `WrittenAsConfirmed`, `RefusedOnlyIfChanged`, `ChangesListed`, `ReadbackShown` | values stay with their path, the confirmation lists every change, what is written was confirmed, a readback shows what the board held |

Why the bounds are enough. Two callers are the least with which the mutexes and the interleavings of starts and cancels matter;
with two ids an id comes round again while its first bearer may still be in the queue, which is
stricter than 32 bits; a dump of three bytes in packets of two has a full and a cut packet and one progress
report inside the dump (`ReportBytes` 2) or none (3); a queue of two fills up, one of three leaves room for a cancel behind stale
ones. Two stores are enough to have a pointer that is not the initial store, two blocks to see
halves of different writes, two tries to have a retry. Contents of three units received two at a time are cut anywhere, and two
contents tell the old file from the new one; a second name would only add a file that no step touches, because every call names one file. Frames of
four bytes can be out of step in every way a longer one can: a part from the front, from the back, or bytes in between. A session of one tick is
live, at its last moment or expired; two browsers are the least that can contend, two tabs of one the least that share a cookie under way, and
with two ids one browser keeps a stale id while the other's is live (a login waits while no id is free, which a real one never does; the proofs have any number). Two pages are the least of which one can be told of the other's operation. Three ticks have a value
below, at and above the middle, three contents differ in a default and in what is visible. A name's characters are the kinds that the code tells
apart, and its lengths those at which a buffer is full. The proofs hold for every value of the constants, which settles
the bounds for the properties of `ParamBoard`, `ParamStore`, `FrameLine`, `FileStore`, `WebSession`, `PageOperation`, `ParamPage`, `ParamBin` and `FileNames` they cover. Callers and blocks of parameters are
interchangeable, and symmetry over them is used in the two runs without liveness that need it (`board_two_callers`, `store_safety`).

Fairness. `ParamBoard!Fairness` has each thread run when it can, and a mutex granted to a task that waits for it in
the end: FreeRTOS hands a mutex to the longest waiting task of the highest priority, and every holder is a thread
that goes on. `BoardAnswers`, that the board answers a handshake in the end, is a promise of the environment; it is the premise of `EventuallyFree` only,
and `CancelTakesEffect` is checked without it. Callers are never obliged to call.
`ParamStore!FairSpec` has the worker's waits end (each is bounded by a timeout in the code) and the line deliver.
`FileStore!FairSpec` has every call return, which the timeouts of the socket see to (`app_web_file_server.c:38-39`), and a task that waits for the
mutex get it in the end. A client is not obliged to send anything.
`WebSession!LiveSpec` has time pass, and a request that was sent is handled and its answer arrives or is lost: nobody is obliged to log out or to ask.
`PageOperation!LiveSpec` has requests that are sent and not lost handled and answered, and the pages' scripts go on; the board need not answer, and nobody
has to press a button. `FrameLine!LiveSpec` has the worker go on (its reads are bounded by timeouts) and what is on the line arrive.

Each property is paired with a mutation of the code's model that violates it (the operators marked *Variant*): a lost
"busy" check, a buffer filled without a bound on the last packet, a mutex given back too early, a cancel matched by id 0, a flush that is missing, an erase that is skipped,
a retry counter that stands still, a failed rename that goes unnoticed, an error path that keeps the mutex, and so on.

## 4. Proofs

Every invariant and every action property that a run checks is a theorem here, for every value of the constants; what is left to TLC are the liveness
properties, and of five of them the half that needs no fairness is proved too. Each inductive invariant was checked by TLC on a small instance before it was proved.

`ParamBoardProofs` proves, for every number of callers, queue length, id range and dump geometry that
satisfies `ThreadsAssumption` and `SizesAssumption` (those of them that no run lists follow from `IInv`, and TLC agreed with them before they were proved):

| Theorem | States |
|---|---|
| `Inductive` | `Spec => []IInv` |
| `TypeCorrect`, `AcceptedOnce`, `StartsKept`, `ReaderSafe`, `ReadyIsComplete`, `ProgressHonest`, `AnswersAgree` | the safety invariants `TypeOK`, `OneOwner`, `NoStartDropped`, `BufferStable`, `ReadyComplete`, `ProgressBehind`, `AnswerConsistent` |
| `CancelDecides`, `ResultsFinal`, `ResetSilent` | the action properties `CancelHonoured`, `ResultStable`, `UnlockedResetSilent` |
| `CancelsMeetTheirOwn` | `CancelIsForThisOp`, when there is one caller |
| `Refines` | `Spec => ImplementsService`: `ParamBoard` implements `BoardService` |
| `OperationsAreBounded` | the worker's steps for an operation are bounded by `WorkLeft` but for the wait in `board_connect`: each other step makes it smaller, no caller makes it larger |
| `CancelsAreMet` | a cancel for the running operation, queued behind its start, stays there until the worker's poll meets it or the operation has ended; and a cancel that finds room is such a one unless a start is on its way to the queue |

`IInv` strengthens the properties with what is known at each program point: who holds which mutex (`LocksHeld`), what the
status says together with the dump's variables (`StatusShape`), how far the dump loop is (`LoopShape`), and where a consumed cancel
is (`HitShape`). The heart of it is `OneOwner`: from it follows that no start is in the queue while the
worker polls for cancels (so none is dropped), and that only the worker's operation is reported running (so a
result is written to the right slot without a comparison). `BufferStable` needs `LocksHeld` and `ReadyComplete`: a
caller streams only after having seen `ready` under both locks, and the worker touches the buffer only under `s_lock`. The proof of
`Inductive` has one lemma per conjunct or group of conjuncts and one step per action. For the refinement, each
action is shown to be a step or a stutter of `BoardService` under the mapping in `ParamBoard`: a start is `Accept` at
`StartSet`, the buffer's changes are `Refill`, the publication of a result is `Finish`, the lock and unlock of the
data are `Open` and `Close`. `CancelsMeetTheirOwn` has the firmware's arrangement, one HTTP task, as its hypothesis and a second invariant, `CancelShape`: while
an operation runs, every cancel that can still meet it was asked for since its start, because a caller that has a cancel in its hands
starts nothing, and the cancels in front of a queued start are ignored by the worker, which is not polling then. `CancelsAreMet` is the
converse: a caller that sends a cancel has no start on its way, so with one caller the premise always holds, and no cancel that found room goes missing
(with more, a cancel can overtake the start and be received for nothing, which is why `CancelTakesEffect` is only asked of one caller).

`ParamStoreProofs` proves, for every number of stores, retries and answers on the line and any contents of the blocks:

| Theorem | States |
|---|---|
| `StoreInductive` | `Spec => []StoreInv` |
| `StoreTypes`, `NothingOverprogrammed`, `WritesStored`, `ReadsWhole`, `DumpsExact`, `CalmOperationsSucceed` | `TypeOK`, `NeverOverprogrammed`, `WriteDoneStored`, `ReadDoneWhole`, `DumpDoneExact`, `CalmSucceeds` |
| `ReadingLeavesFlash` | the action property `ReadLeavesFlash`: of a dump without any premise, of a READ as long as no late answer was taken for the pointer's |
| `WorkIsBounded` | once connected, `StepsLeft` is at most `MostSteps`, every step of the worker makes it smaller and nothing makes it larger |

None of these is inductive. That nothing is programmed twice needs to know what a retried write finds: each cell holds what its sector was last erased to
receive, or nothing yet (`Intended`), so a request that is obeyed again programs the same bits. That what is reported is true needs
`AnswersTrue`: once a request has been sent, every answer under way says that the board has obeyed this request, and what it reports of the flash still
holds; at an operation's first request it may also be an answer to a handshake, whose data are no store's address; only the
first packet of a dump takes them (`crossed`). The flush before each try is used here. `StageShape` says
what the requests so far have established (the pointer names the store, the first block is written), `GotShape` that what has
been read so far is the flash's, and `CalmAnswers` that while nothing has gone wrong the answer awaited is there and good. A restart forgets the
stage and keeps `Intended`, and this is all an operation after it relies on. All of this is `Sound`, which `StoreInv` has while `~overtaken`; its other part,
`Shape`, is about every state: types, the counter's range and the form of what has been read. There is one lemma per action and, where a request is
obeyed, one per kind of request.

`StepsLeft` counts a send and a wait for each try of each request that can still come. A failed try uses up two of the present request's,
an answer the rest of them, and the stages of an operation never go back, also in the initialisation of a blank board; so `ConnectedEnds` cannot
fail by a retry that starts over.

`FrameLineProofs` proves, for frames of every length, every number of retries and any noise:

| Theorem | States |
|---|---|
| `LineInductive` | `Spec => []LineInv` |
| `LineTypes`, `AnswersAreItsOwn`, `PromptRequests` | `TypeOK`, `OwnAnswer`, `PromptRequestSucceeds` |

`OwnAnswer` follows from `OnlyForRequest`: once a request has gone out over a quiet line, no byte of an answer to a handshake is in the buffer or under
way. `PromptRequestSucceeds` follows from `InStep`: with a prompt board, buffer and line together are one frame cut somewhere, so
no read can find the wrong 82 bytes, and the read that has them all is the first try's.

`FileStoreProofs` proves, for every number of tasks, names and contents, every size and number of timeouts that `FileAssumption` allows:

| Theorem | States |
|---|---|
| `FileInductive` | `Spec => []FileInv` |
| `FileTypes`, `NamesWhole`, `TmpRemoved`, `ParsedWhole` | `TypeOK`, `WholeOrNothing`, `NoLeftovers`, `ParsesWhole` |
| `SuccessIsStored`, `FailureKeepsOld` | `OkMeansStored`, `FailKeepsOld` |
| `OneCopySurvives` | `KeepsACopy` |
| `ReadersUndisturbed` | the action property `ReaderStable` |
| `MutexGivenBack` | whoever holds the mutex gives it back after at most `MostSteps` steps of its own: each brings it nearer, and no other task sets it back |

`FileInv` says who holds the mutex (`Holding`), what a task is doing (`Serves`) and what the file and its temporary hold at each point of an
upload (`UploadShape`, `Leftover`). That a name never holds part of an upload is not inductive: it needs that the temporary is complete at the
rename, this that it is as long as what was received while the loop runs, and both that nobody else is anywhere but waiting, which is
`Holding`. There is one lemma per action; a restart is one of them. `MutexGivenBack` counts, for a task in the receive loop, `MaxTimeouts + 1` waits for each unit
to come: a receive sets the timeouts back, and pays for them with the units it brings.

`WebSessionProofs` proves `TypeOK`, `OneHolder`, `NotTakenOver` and `RenewedByHolder` for every number of browsers, tabs, accounts and ids and any
timeout that `SessionAssumption` allows. An id is with one browser at a time because a login draws one that is nowhere, in no jar and in no answer under
way, and an answer sets its cookie in the jar of the browser that asked. `OrphansFade` is about a session whose id no browser has any more: it has at
most `Timeout` left, nobody finds or renews it again, and every tick brings it nearer to its end.

`PageOperationProofs` proves, for every finite set of pages, each with its styles and number of runs, any number of restarts, with and without losses:

| Theorem | States |
|---|---|
| `PagesInductive` | `Spec => []PageInv` |
| `PageTypes`, `ToldItsOwn`, `NoneUnattended` | `TypeOK`, `ToldOfItsOwn`, `Attended` |
| `IdsBounded` | `IdsGiven`: no more ids are in use since the last restart than runs have asked for an operation |
| `PagesOnTheService` | `Spec => OnTheService`: what the pages use is a `BoardService`, begun anew by each restart |

A page compares ids, so `ToldOfItsOwn` rests on what an id is worth: one that a page holds and that is the operation's was given to this page's run
(`IdShape`), unless the run has seen a restart, after which ids begin at 1 again. `Attended` rests on `LoopShape`: as long as nothing was lost, the
run whose operation is under way waits for the answer to its start or is in its loop, with the operation's id and *running* as its last answer. It never
leaves the loop on its own. For the refinement the ids the service can give must be bounded, as `BoardService` has a set of them: `IdsBounded` counts them by an
injection into the runs.

`ParamPageProofs` proves, for every set of addresses, unit, tick range, paths and contents:

| Theorem | States |
|---|---|
| `TypeCorrect` | `TypeOK` |
| `PageInvariant` | `PageInv` |
| `TablesKeepApart`, `DownloadWritesConfirmed`, `ConfirmedIsTaken` | `ValuesOfOwnPath`, `WrittenAsConfirmed`, `RefusedOnlyIfChanged` |
| `DialogIsComplete`, `TableShowsBoard` | the action properties `ChangesListed`, `ReadbackShown` |

The inductive invariant is `PageSafe`: types, `PageInv` and two of the properties. `PageInv` says of a table that its values are of the file it
was parsed from (`TableInv`), of a run what it carries at each await (`FlowInv`), of the service's operation that it is the
run's that waits for it (`OpInv`), and of the board that until somebody else writes it holds what the readback found (`HeldInv`). The
promises about a download need all four: what is written is what was confirmed only because the payload is the run's own, the operation is
the run's own, and the conversion to ticks and back gives the value again, which is a lemma about `ToTick` and `ToNs`.

Of `DumpPage`, of which it has an instance with variables of its own, `ParamPageProofs` proves, for every size of the image, the page and a row with which `DumpAssumption` holds (the image is a whole number of pages; the firmware's
numbers do), from the invariant `DumpInv` (types, `OneRun`, `ViewOfImage` and `ButtonsInv`, what the buttons enabled are at each point):

| Theorem | States |
|---|---|
| `RunsApart`, `ButtonsGivenBack` | a parameter run and a dump never run at once (`OneRun`); nothing is left disabled when nothing runs (`NothingLeftDisabled`) |
| `ViewIsImage`, `RangeIsShown` | what is drawn is a page of the image an export would save (`ViewOfImage`); all of its announced range is on it and nothing beyond the image (`RangeShown`) |
| `OnePageOn` | the action property `TurnsOnePage` |

`ButtonsInv` is what makes `OneRun` inductive: each button is enabled only by an update, so that a handler's own check is not what keeps runs apart.

`ParamBinProofs` proves, for every number of parameters, every limit of the names' lengths, all characters and any bytes in a damaged file:

| Theorem | States |
|---|---|
| `FilesInductive` | `Spec => []BinInv` |
| `ExportsUnderstood` | `ExportUnderstood`: an unchanged export is understood by both decoders as it was meant |
| `TheDecodersAgree` | `DecodersAgree`, for every file there can be |

The assumptions are what makes the format work: the name table and the board's name have lengths that fit 16 bits and the count one that fits 8
(`LayoutAssumption`), the largest file is no larger than the device reads (`RoomAssumption`; 7925 of 131072 bytes), and what a user may enter
are characters of UTF-8 and numbers of the width that `Parameter` has (`ProjectsAssumption`). With the limits of the source all three hold. `TheDecodersAgree` compares two lists of checks: C's in one
order, with a mask of the addresses seen, and Rust's with a set (`Unique` and equality of sets are the same when there are as many records as addresses:
`EachOnce`). `ExportsUnderstood` has to know where each byte stands. The encoder's parts are joined by `FlattenSeq`, a fold, so facts about it for any
number of parts (`FlatType`, `FlatAt`, `FlatBound`, `FlatEven`) need induction; `Counting` gives it for sets of numbers, from the least counterexample, and each use
names its set. From these lemmas follow where a name lies in the table (`TableIs`), a record among the records (`RecordsIs`) and the four
parts in the payload (`PartsOf`), that the texts are UTF-8 (`TextIsUtf8`), and in the end that each field read at the firmware's offset is the one written.
TLC checked `BinInv` on the instance of `bin_files` before it was proved.

Of `FileNames`, which it extends too (the names in it are its own: `NamesSpec`, `NamesInit`, `NamesNext`), `ParamBinProofs` proves, for all characters of any width, all names and every size of the buffers with which `NamesAssumption` holds:

| Theorem | States |
|---|---|
| `WrittenIsRead` | `url_decode` after the key search gives back what `encodeURIComponent` or `URLSearchParams` wrote, for every text of the user's characters |
| `NamesInductive` | `NamesSpec => []NamesInv` |
| `NamesAreKept`, `ListedAreUsable` | `NamesKept`, `ListedFilesUsable` |

`NamesAssumption` says what the browser's escapes are like: of three bytes, different for different characters, and with `%`, `+`, `/`, `&` and the space among what is escaped; and that a
form has room for the longest path beside the largest values, which holds for the source's 1536 bytes. TLC evaluates it on the instance of `bin_files`. `Decode` is
a recursive function that advances by one or by three, so what it does is proved from the text's end backwards: what is decoded from a place on
depends only on what is decoded after it (`FromLater`), and where a part of the written text begins, the part is read as its character (`ReadsBack`). That a plus sign or a percent sign of
the name itself is not taken for an escape is in `EscapeReads`: the pages escape both. `NamesInv` knows a name on the device or in the list by what the upload required (`Storable`). `ListedFilesUsable`
compares these limits with those of the later requests, so the lengths have to be computed: a text is as long as its parts together (`SizeOfJoin`), the form's way of writing
is never longer than the query's (`FormNoLonger`), and a path is three bytes longer than its name when escaped (`EncodedPath`), while `filename=` is four longer than `path=`. The status request has the operation's id in the same
buffer as the path, so what follows for it is when it is refused: exactly if the name is `TooLongToPoll`.

Left to TLC: liveness (`CancelTakesEffect`, `EventuallyFree`, `ConnectedEnds`, `EveryRequestAnswered`, `OrphanEnds`, `CancelEnds`,
`CanceledReturns`, `SteadyBoardConnects`), which the provers cannot do. For `EventuallyFree`, `ConnectedEnds`, `EveryRequestAnswered` and `OrphanEnds` the measure that
each step makes smaller is proved (`OperationsAreBounded`, `WorkIsBounded`, `MutexGivenBack`, `OrphansFade`), and for `CancelTakesEffect` that the cancel waits where it will be met
(`CancelsAreMet`); that the steps are taken is what the fairness is for.

## 5. Disagreements

Three runs show the code do other than what its texts say:

* `store_canceled`: `run_queued_operation` publishes the return value -2 as *canceled*, and its text for that state says that connecting
  was cancelled (`C/app_param_board/app_param_board_ops.c:221,234-239`). The same -2 is returned for an answer with a wrong frame head
  (`app_param_board_frame.c:92`), when the pointer cannot be written (`app_param_board_store.c:72`) and when the erase before a
  download fails (`app_param_board_store.c:97`), so an operation nobody cancelled is published as
  canceled. The pages treat the state *canceled* as the user's wish and end silently (`admin_core.js:113`): a download
  that failed at the erase shows no error.
* `store_readback`: a readback returns the parameters of the current board (`esp32s3/README.md:18`). On a board that takes longer than 4 ms to answer a
  handshake (`app_param_board_ops.c:17-29`), the answer to the last one can be taken for that to the request for the pointer
  (`app_param_board_frame.c:85-130,178-186`); it names no store, so the READ erases the pointer, writes the first store's
  address and the defaults there (`app_param_board_ops.c:50-59`), and reports these as read.
* `name_status`: a readback returns the values of the current file (`esp32s3/README.md:18`). With a file whose escaped path is longer than 306 bytes beside a one-digit id
  it is started, but the status request that brings the values has to fit 320 bytes (`app_web_common.c:167`, `admin_core.js:91-92`) and is refused. A download
  reads back first (`admin_param_config.js:256`), so it cannot be made with this file either.

Behaviour the models make visible, where a text promises more than the code does or the code does what it intends:

* The connecting dialog says that the system keeps trying (`C/app_web_file_server/app.html:29`). `board_connect` (`app_param_board_ops.c:17-29`) never flushes
  the receive buffer, so a byte left over from a late answer or from noise puts every later read out of step, and a board that from then on
  answers each handshake in time is not connected until it misses one: `SteadyBoardConnects` asks for that pause. Every other request flushes first.
* On the admin page a cancel pressed before the start is answered can be handled before the start and is not sent again
  (`admin_core.js:107`; `user_app.js:24` does send it again), so the operation goes on until cancel is pressed again: `CancelEnds` is about a cancel
  pressed on a user page, or on an admin page after the answer to its start. And a cancel names no operation: one that is late ends the next.
* The PC tool documents defaults of any `u32` (`tools/README.md:28`); the firmware cannot use a file with a default that is not a
  multiple of 50 ns or is above 3 276 750 ns (`app_web_param_api.c:129`).
* A page of the dump view is said to be 1 KB with the range 0 - 1023 (`app.html:111,129`); it shows 1036 bytes (`admin_flash_dump.js:98-107`).
* The firmware's README has it refuse a schema other than 2 (`esp32s3/README.md:123`); it takes 3 (`app_param_bin.c:217`), which is what the tool writes.
* `tools/docs/bin_protocol.md:30-47,90-100` has a header of 48 bytes and a payload header of 16; the firmware and the tool have 17 and 20
  (`C/app_param_bin/app_param_bin.c:17,24`). `ParamBin` has the code's.
* A READ on a board whose defaults were interrupted between the pointer and the second block fails with "not
  completely initialised" until somebody downloads parameters: `CalmSucceeds` allows exactly this.
* A cancel that finds the queue full is lost (`app_param_board.c:354`); the page can send another.
* A failed rename, or a restart between the removal of the old file and the rename, leaves nothing under the name
  (`app_web_file_transfer.c:194`). After the restart the new file is there as `x.bin.tmp`, which the list shows; after a failed rename both are gone.
* A read error ends a download as the end of the file would (`app_web_file_transfer.c:42`); parsing compares the size.
* The same late answer to a handshake becomes the first packet of a dump, which takes any data (`DumpDoneExact` excepts it), and `OwnAnswer`, of
  the bytes below, is about a line that is quiet when the request is sent.
* The data request of a dump names no operation: another page's newer image may be shown. It is complete.
* A second parse answer is merged with the values of the first by address, name or position; what is moved is visible before it is sent.
* The synchronous calls `app_param_board_read` and `app_param_board_write` have no callers.

## 6. Not modelled, and what is left

Left for later, in this order:

1. `FrameLine` under `ParamStore` as a refinement: whole answers of the one are bytes that may be out of step in the other.
2. The PC tool's windows: a project edited while an import is under way.

Left out, with the reason in `PROJECT.json`: the arithmetic of the CRC and the order of a frame's fields, content types, static assets and the route
table, Wi-Fi and start-up, the FPGA pass-through, layout and forms, AES-GCM (external).
