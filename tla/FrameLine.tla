----------------------------- MODULE FrameLine ------------------------------
(***************************************************************************)
(* The bytes on the UART under ParamStore: how frame_recv cuts the stream  *)
(* into frames (app_param_board_frame.c) while board_connect polls and     *)
(* while the first flash request is made (app_param_board_ops.c).          *)
(*                                                                         *)
(* A read takes the next FrameBytes bytes that are there, whatever they    *)
(* begin with, or, when it times out, the fewer that have come.            *)
(* board_connect never discards what is left in the receive buffer; every  *)
(* flash request does before it is sent.                                   *)
(*                                                                         *)
(* The board is external.  It is first noisy: it may stay silent, answer   *)
(* late, so that a read finds a part of an answer, and there may be bytes  *)
(* on the line that nobody sent (the board is being powered up).  Then it  *)
(* is prompt: every request is answered, and before the read times out.  It *)
(* is steady if a read timed out with nothing on the line before that.      *)
(* Nobody cancels the operation (ParamStore has the cancel).               *)
(***************************************************************************)
EXTENDS Naturals, Sequences

CONSTANTS
  FrameBytes,  \* sizeof(param_uart_frame_t): 82
  Retries,     \* PARAM_FLASH_RETRIES
  MaxNoise,    \* bound: bytes nobody sent
  MaxBytes     \* bound: bytes on the line and in the buffer of a noisy board

ASSUME LineAssumption ==
  /\ FrameBytes \in Nat /\ FrameBytes > 1 /\ Retries \in Nat \ {0}
  /\ MaxNoise \in Nat /\ MaxBytes \in Nat

VARIABLES
  line,     \* bytes on their way to the ESP32
  rx,       \* the UART driver's receive buffer
  stage,    \* board_connect, the request that follows it, and how that ends
  waiting,  \* a frame has been sent and its answer is awaited
  tries,    \* retries of the request
  taken,    \* history: the stage the frame last taken as an answer was sent for
  board,    \* how the board behaves
  quiet,    \* history: nothing was on the line when the request was first sent
  sure,     \* history: and the board was prompt
  noise     \* bytes nobody sent so far

vars == <<line, rx, stage, waiting, tries, taken, board, quiet, sure, noise>>
-----------------------------------------------------------------------------
\* A byte, by its place in the frame the board sent it in and by what the
\* frame answers; place 0 is in no frame.
Byte(place, for) == [place |-> place, for |-> for]
Noise == Byte(0, "nobody")
Frame(for) == [i \in 1 .. FrameBytes |-> Byte(i, for)]

\* frame_recv accepts a frame by its head, its checksums and its end: one that
\* was sent as it is.
Good(bytes) == \E for \in {"connect", "request"} : bytes = Frame(for)

Init ==
  /\ line = <<>> /\ rx = <<>>
  /\ stage = "connect" /\ waiting = FALSE /\ tries = 0 /\ taken = "nobody"
  /\ board = "noisy" /\ quiet = FALSE /\ sure = FALSE /\ noise = 0

(* The board and the line.                                                  *)

Answers == line' = line \o Frame(stage)
Stays == UNCHANGED line

Prompt == board \in {"prompt", "steady"}
Reply ==
  \/ Prompt /\ Answers
  \/ board = "noisy" /\ Len(line) + Len(rx) + FrameBytes <= MaxBytes /\ Answers
  \/ ~Prompt /\ Stays

Arrive ==
  /\ line # <<>>
  /\ rx' = Append(rx, Head(line)) /\ line' = Tail(line)
  /\ UNCHANGED <<stage, waiting, tries, taken, board, quiet, sure, noise>>

Glitch ==
  /\ board = "noisy" /\ noise < MaxNoise /\ Len(line) + Len(rx) < MaxBytes
  /\ line' = <<Noise>> \o line /\ noise' = noise + 1
  /\ UNCHANGED <<rx, stage, waiting, tries, taken, board, quiet, sure>>

\* The board stops answering; it begins again when a read of the worker has
\* timed out with nothing on the line.
Pause ==
  /\ board = "noisy" /\ board' = "silent"
  /\ UNCHANGED <<line, rx, stage, waiting, tries, taken, quiet, sure, noise>>
Rests == board' = IF board = "silent" /\ line = <<>> THEN "rested" ELSE board
Resume ==
  /\ ~waiting /\ line = <<>>
  /\ \/ board = "noisy" /\ board' = "prompt"
     \/ board = "rested" /\ board' = "steady"
  /\ UNCHANGED <<line, rx, stage, waiting, tries, taken, quiet, sure, noise>>

-----------------------------------------------------------------------------
(* The worker.                                                              *)

\* board_connect: the handshake, without uart_flush_input.
Handshake ==
  /\ stage = "connect" /\ ~waiting /\ waiting' = TRUE
  /\ Reply
  /\ UNCHANGED <<rx, stage, tries, taken, board, quiet, sure, noise>>

\* flash_operate_ex, flash_dump_read_packet.
\* (Variant: what is left in the receive buffer stays there.)
FlushNothing == UNCHANGED rx
Flush == rx' = <<>>

Request ==
  /\ stage = "request" /\ ~waiting /\ waiting' = TRUE
  /\ Flush
  /\ Reply
  /\ quiet' = IF tries = 0 THEN line = <<>> ELSE quiet
  /\ sure' = IF tries = 0 THEN line = <<>> /\ Prompt ELSE sure
  /\ UNCHANGED <<stage, tries, taken, board, noise>>

\* The stage after an answer that is good or not: a handshake is repeated, a
\* request is not.
After(good) ==
  IF stage = "connect" THEN IF good THEN "request" ELSE "connect"
  ELSE IF good THEN "ok" ELSE "failed"

\* uart_read_bytes finds a frame's worth of bytes.
Read ==
  /\ stage \in {"connect", "request"} /\ waiting /\ Len(rx) >= FrameBytes
  /\ LET bytes == SubSeq(rx, 1, FrameBytes) IN
       /\ stage' = After(Good(bytes))
       /\ taken' = IF Good(bytes) THEN bytes[1].for ELSE taken
  /\ rx' = SubSeq(rx, FrameBytes + 1, Len(rx))
  /\ waiting' = FALSE
  /\ UNCHANGED <<line, tries, board, quiet, sure, noise>>

\* It times out: what has come is consumed.
\* (Variant: it stays in the receive buffer.)
KeepsPart == UNCHANGED rx
TakesPart == rx' = <<>>

MoreTries == tries + 1 < Retries

Short ==
  /\ stage \in {"connect", "request"} /\ waiting /\ Len(rx) < FrameBytes
  /\ Prompt => line = <<>>
  /\ TakesPart
  /\ waiting' = FALSE
  /\ IF stage = "connect" THEN UNCHANGED <<stage, tries>>
     ELSE IF MoreTries THEN tries' = tries + 1 /\ UNCHANGED stage
     ELSE stage' = "failed" /\ UNCHANGED tries
  /\ Rests
  /\ UNCHANGED <<line, taken, quiet, sure, noise>>

Next ==
  \/ Arrive \/ Glitch \/ Pause \/ Resume
  \/ Handshake \/ Request \/ Read \/ Short

Spec == Init /\ [][Next]_vars

\* The worker goes on and its reads time out; what is on the line arrives.
LiveSpec == Spec /\ WF_vars(Handshake) /\ WF_vars(Request) /\ WF_vars(Read \/ Short) /\ WF_vars(Arrive)
-----------------------------------------------------------------------------
(* Properties.                                                              *)

Boards == {"noisy", "silent", "rested", "prompt", "steady"}
Bytes == [place : 0 .. FrameBytes, for : {"connect", "request", "nobody"}]
TypeOK ==
  /\ line \in Seq(Bytes) /\ rx \in Seq(Bytes)
  /\ stage \in {"connect", "request", "ok", "failed"} /\ waiting \in BOOLEAN
  /\ tries \in 0 .. Retries - 1 /\ taken \in {"nobody", "connect", "request"}
  /\ board \in Boards /\ {quiet, sure} \subseteq BOOLEAN /\ noise \in 0 .. MaxNoise

\* What is left in the receive buffer from the handshakes is never taken for
\* the answer to the flash request that follows, however late they were
\* answered: uart_flush_input before each try.  An answer that is still on the
\* line then can be.
OwnAnswer == stage = "ok" /\ quiet => taken = "request"

\* A request to a prompt board on a quiet line succeeds, whatever was left
\* over from before: after the flush the frames are in step again.
PromptRequestSucceeds == sure => stage # "failed"

\* A board that has been silent for one whole read and then answers every
\* handshake in time is connected: the read that timed out took what was left
\* over.  Without the silence that is not so: nothing puts the poll in step.
SteadyBoardConnects == board = "steady" ~> stage # "connect"
=============================================================================
