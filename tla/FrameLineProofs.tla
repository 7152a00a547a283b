--------------------------- MODULE FrameLineProofs ---------------------------
(***************************************************************************)
(* What frame_recv takes for the answer to a flash request, for every      *)
(* length of a frame, every number of retries and every amount of noise    *)
(* and of late answers.                                                    *)
(***************************************************************************)
EXTENDS FrameLine, SequenceTheorems, TLAPS

(* The inductive invariant.                                                *)

\* No byte of an answer to a handshake is in s.
NoneOfConnect(s) == \A i \in 1 .. Len(s) : s[i].for # "connect"

\* Once the request has been sent over a quiet line, what comes was sent for it
\* or by nobody.
OnlyForRequest ==
  quiet => stage # "connect" /\ NoneOfConnect(line) /\ NoneOfConnect(rx)

\* What is in the buffer and on the line is one frame, cut somewhere.
OneFrame ==
  /\ Len(rx) + Len(line) = FrameBytes
  /\ \A i \in 1 .. Len(rx) : rx[i] = Byte(i, "request")
  /\ \A i \in 1 .. Len(line) : line[i] = Byte(Len(rx) + i, "request")

\* A request to a prompt board is still at its first try, in step with its
\* answer, or it has succeeded.
InStep ==
  sure =>
    /\ stage \in {"request", "ok"} /\ Prompt
    /\ stage = "request" => waiting /\ OneFrame

LineInv == TypeOK /\ OnlyForRequest /\ OwnAnswer /\ InStep

LEMMA ByteFields ==
  \A place, for : Byte(place, for).place = place /\ Byte(place, for).for = for
BY DEF Byte

(* A frame is a sequence of bytes.                                         *)
LEMMA FrameType ==
  ASSUME NEW for \in {"connect", "request"}
  PROVE  /\ Frame(for) \in Seq(Bytes) /\ Len(Frame(for)) = FrameBytes
         /\ \A i \in 1 .. FrameBytes : Frame(for)[i] = Byte(i, for)
<1> FrameBytes \in Nat
  BY LineAssumption
<1>1. \A i \in 1 .. FrameBytes : Byte(i, for) \in Bytes
  BY DEF Byte, Bytes
<1>2. Frame(for) \in [1 .. FrameBytes -> Bytes]
  BY <1>1 DEF Frame
<1>3. /\ Frame(for) \in Seq(Bytes)
      /\ Len(Frame(for)) = FrameBytes
  BY <1>2, SeqDef, LenProperties
<1> QED BY <1>3 DEF Frame

LEMMA NoiseType == Noise \in Bytes /\ Noise.for = "nobody"
  BY LineAssumption DEF Noise, Byte, Bytes

(* What a reply leaves on the line.                                        *)
LEMMA ReplyLeaves ==
  ASSUME TypeOK, Reply, stage \in {"connect", "request"}
  PROVE  /\ line' \in Seq(Bytes)
         /\ stage = "request" /\ NoneOfConnect(line) => NoneOfConnect(line')
         /\ Prompt => line' = line \o Frame(stage)
<1>1. line' = line \o Frame(stage) \/ (line' = line /\ ~Prompt)
  BY DEF Reply, Answers, Stays
<1>2. /\ Frame(stage) \in Seq(Bytes) /\ Len(Frame(stage)) = FrameBytes
      /\ \A i \in 1 .. FrameBytes : Frame(stage)[i] = Byte(i, stage)
  BY FrameType
<1>3. line \in Seq(Bytes) /\ FrameBytes \in Nat
  BY LineAssumption DEF TypeOK
<1>4. (line \o Frame(stage)) \in Seq(Bytes)
  BY <1>2, <1>3, ConcatProperties
<1>5. ASSUME stage = "request", NoneOfConnect(line)
      PROVE  NoneOfConnect(line \o Frame(stage))
  <2>1. \A i \in 1 .. FrameBytes : Frame(stage)[i].for = "request"
    BY <1>2, <1>5, ByteFields
  <2>2. /\ Len(line \o Frame(stage)) = Len(line) + FrameBytes
        /\ \A i \in 1 .. Len(line) + FrameBytes :
             (line \o Frame(stage))[i] =
               IF i <= Len(line) THEN line[i] ELSE Frame(stage)[i - Len(line)]
    BY <1>2, <1>3, ConcatProperties
  <2> QED BY <2>1, <2>2, <1>3, <1>5, LenProperties DEF NoneOfConnect
<1>6. CASE line' = line \o Frame(stage)
  BY <1>4, <1>5, <1>6
<1>7. CASE line' = line /\ ~Prompt
  BY <1>3, <1>7
<1> QED BY <1>1, <1>6, <1>7

-----------------------------------------------------------------------------
(* The board and the line.                                                 *)

\* A byte arrives: it was on the line.
LEMMA ArriveStep ==
  ASSUME LineInv, Arrive
  PROVE  LineInv'
<1>1. line \in Seq(Bytes) /\ line # <<>> /\ rx \in Seq(Bytes)
  BY DEF LineInv, TypeOK, Arrive
<1>2. /\ Head(line) = line[1] /\ Head(line) \in Bytes /\ line' \in Seq(Bytes)
      /\ Len(line) \in Nat \ {0} /\ Len(line') = Len(line) - 1
      /\ \A i \in 1 .. Len(line') : line'[i] = line[i + 1]
  BY <1>1, HeadTailProperties, EmptySeq DEF Arrive
<1>3. /\ rx' \in Seq(Bytes) /\ Len(rx) \in Nat /\ Len(rx') = Len(rx) + 1
      /\ \A i \in 1 .. Len(rx) : rx'[i] = rx[i]
      /\ rx'[Len(rx) + 1] = line[1]
  BY <1>1, <1>2, AppendProperties, LenProperties DEF Arrive
<1>4. TypeOK'
  BY <1>2, <1>3 DEF LineInv, TypeOK, Arrive
<1>5. OnlyForRequest'
  BY <1>2, <1>3 DEF LineInv, OnlyForRequest, NoneOfConnect, Arrive
<1>6. OneFrame => OneFrame'
  <2> SUFFICES ASSUME OneFrame PROVE OneFrame'
    OBVIOUS
  <2>1. Len(rx') + Len(line') = FrameBytes
    BY <1>2, <1>3, LineAssumption DEF OneFrame
  <2>2. \A i \in 1 .. Len(rx') : rx'[i] = Byte(i, "request")
    BY <1>2, <1>3 DEF OneFrame
  <2>3. \A i \in 1 .. Len(line') : line'[i] = Byte(Len(rx') + i, "request")
    <3> TAKE i \in 1 .. Len(line')
    <3>1. i + 1 \in 1 .. Len(line) /\ Len(rx) + (i + 1) = Len(rx') + i
      BY <1>2, <1>3
    <3> QED BY <1>2, <3>1 DEF OneFrame
  <2> QED BY <2>1, <2>2, <2>3 DEF OneFrame
<1>7. InStep'
  BY <1>6 DEF LineInv, InStep, Prompt, Arrive
<1> QED BY <1>4, <1>5, <1>7 DEF LineInv, OwnAnswer, Arrive

\* A byte that nobody sent: the board is not prompt.
LEMMA GlitchStep ==
  ASSUME LineInv, Glitch
  PROVE  LineInv'
<1>1. line \in Seq(Bytes) /\ <<Noise>> \in Seq(Bytes) /\ Len(<<Noise>>) = 1
  BY NoiseType DEF LineInv, TypeOK
<1>2. /\ line' \in Seq(Bytes) /\ Len(line) \in Nat /\ Len(line') = 1 + Len(line)
      /\ \A i \in 1 .. Len(line') : line'[i] = IF i <= 1 THEN <<Noise>>[i] ELSE line[i - 1]
  BY <1>1, ConcatProperties, LenProperties DEF Glitch
<1>3. TypeOK'
  BY <1>2, LineAssumption DEF LineInv, TypeOK, Glitch
<1>4. NoneOfConnect(line) => NoneOfConnect(line')
  <2> SUFFICES ASSUME NoneOfConnect(line), NEW i \in 1 .. Len(line')
               PROVE  line'[i].for # "connect"
    BY DEF NoneOfConnect
  <2>1. CASE i = 1
    BY <1>2, <2>1, NoiseType
  <2>2. CASE i # 1
    BY <1>2, <2>2 DEF NoneOfConnect
  <2> QED BY <2>1, <2>2
<1> QED BY <1>3, <1>4 DEF LineInv, OnlyForRequest, OwnAnswer, InStep, Prompt, Glitch

LEMMA BoardStep ==
  ASSUME LineInv, Pause \/ Resume
  PROVE  LineInv'
BY DEF LineInv, TypeOK, Boards, OnlyForRequest, OwnAnswer, InStep, OneFrame, Prompt,
       Pause, Resume

-----------------------------------------------------------------------------
(* The worker.                                                             *)

LEMMA HandshakeStep ==
  ASSUME LineInv, Handshake
  PROVE  LineInv'
<1>1. stage = "connect" /\ ~quiet /\ ~sure /\ line' \in Seq(Bytes)
  BY ReplyLeaves DEF LineInv, TypeOK, OnlyForRequest, InStep, Handshake
<1>2. TypeOK'
  BY <1>1 DEF LineInv, TypeOK, Handshake
<1> QED BY <1>1, <1>2 DEF LineInv, OnlyForRequest, OwnAnswer, InStep, Handshake

\* The first try finds the buffer flushed; a later one is not of a request that
\* was sure, since that had its answer.
LEMMA RequestStep ==
  ASSUME LineInv, Request
  PROVE  LineInv'
<1>1. /\ stage = "request" /\ stage' = stage /\ ~waiting /\ waiting' /\ rx' = <<>>
      /\ tries' = tries /\ board' = board
      /\ line \in Seq(Bytes) /\ line' \in Seq(Bytes)
      /\ NoneOfConnect(line) => NoneOfConnect(line')
      /\ Prompt => line' = line \o Frame("request")
  BY ReplyLeaves DEF LineInv, TypeOK, Request, Flush
<1>2. ~sure
  BY <1>1 DEF LineInv, InStep
<1>3. rx' \in Seq(Bytes) /\ Len(rx') = 0
  BY <1>1, EmptySeq
<1>4. TypeOK'
  BY <1>1, <1>3 DEF LineInv, TypeOK, Request
<1>5. OnlyForRequest'
  <2>1. line = <<>> => NoneOfConnect(line)
    BY DEF NoneOfConnect
  <2>2. NoneOfConnect(rx')
    BY <1>3 DEF NoneOfConnect
  <2>3. quiet' => quiet \/ line = <<>>
    BY DEF Request
  <2> QED BY <1>1, <2>1, <2>2, <2>3 DEF LineInv, OnlyForRequest
<1>6. sure' => Prompt /\ line = <<>>
  BY <1>2 DEF Request
<1>7. sure' => OneFrame'
  <2> SUFFICES ASSUME sure' PROVE OneFrame'
    OBVIOUS
  <2>1. line' = Frame("request")
    BY <1>1, <1>6, FrameType, ConcatEmptySeq
  <2> QED BY <1>3, <2>1, FrameType, LineAssumption DEF OneFrame
<1>8. InStep'
  BY <1>1, <1>6, <1>7 DEF InStep, Prompt
<1> QED BY <1>1, <1>4, <1>5, <1>8 DEF LineInv, OwnAnswer

\* A whole frame's worth of bytes is taken.
LEMMA ReadStep ==
  ASSUME LineInv, Read
  PROVE  LineInv'
<1> DEFINE bytes == SubSeq(rx, 1, FrameBytes)
           left == SubSeq(rx, FrameBytes + 1, Len(rx))
<1>1. /\ stage \in {"connect", "request"} /\ waiting /\ Len(rx) >= FrameBytes
      /\ stage' = After(Good(bytes))
      /\ taken' = IF Good(bytes) THEN bytes[1].for ELSE taken
      /\ rx' = left /\ waiting' = FALSE
      /\ UNCHANGED <<line, tries, board, quiet, sure, noise>>
  BY DEF Read
<1>2. rx \in Seq(Bytes) /\ Len(rx) \in Nat /\ FrameBytes \in Nat \ {0, 1}
  BY LineAssumption, LenProperties DEF LineInv, TypeOK
<1>3. \A i \in 1 .. Len(rx) : rx[i] \in Bytes
  BY <1>2, LenProperties
<1>4. /\ bytes \in Seq(Bytes) /\ Len(bytes) = FrameBytes
      /\ \A i \in 1 .. FrameBytes : bytes[i] = rx[i]
  BY <1>1, <1>2, <1>3, SubSeqProperties
<1>5. /\ left \in Seq(Bytes) /\ Len(left) = Len(rx) - FrameBytes
      /\ \A i \in 1 .. Len(left) : left[i] = rx[FrameBytes + i]
  BY <1>1, <1>2, <1>3, SubSeqProperties
<1> HIDE DEF bytes, left
<1>6. Good(bytes) => bytes[1].for \in {"connect", "request"} /\ bytes[1] = rx[1]
  <2> SUFFICES ASSUME NEW for \in {"connect", "request"}, bytes = Frame(for)
               PROVE  bytes[1].for = for
    BY <1>2, <1>4 DEF Good
  <2>1. bytes[1] = Byte(1, for)
    BY <1>2, FrameType
  <2> QED BY <2>1, ByteFields
<1>7. TypeOK'
  <2>1. stage' \in {"connect", "request", "ok", "failed"}
    BY <1>1 DEF After
  <2>2. taken' \in {"nobody", "connect", "request"}
    BY <1>1, <1>6 DEF LineInv, TypeOK
  <2> QED BY <1>1, <1>5, <2>1, <2>2 DEF LineInv, TypeOK
<1>8. OnlyForRequest'
  <2>1. NoneOfConnect(rx) => NoneOfConnect(left)
    BY <1>1, <1>2, <1>5 DEF NoneOfConnect
  <2>2. quiet => stage = "request"
    BY <1>1 DEF LineInv, OnlyForRequest
  <2> QED BY <1>1, <2>1, <2>2 DEF LineInv, OnlyForRequest, After
<1>9. OwnAnswer'
  <2> SUFFICES ASSUME stage' = "ok", quiet PROVE taken' = "request"
    BY <1>1 DEF OwnAnswer
  <2>1. Good(bytes)
    BY <1>1 DEF After
  <2>2. rx[1].for # "connect"
    BY <1>1, <1>2 DEF LineInv, OnlyForRequest, NoneOfConnect
  <2> QED BY <1>1, <1>6, <2>1, <2>2
<1>10. InStep'
  <2> SUFFICES ASSUME sure PROVE stage' = "ok" /\ Prompt
    BY <1>1 DEF InStep, Prompt
  <2>1. stage = "request" /\ Prompt /\ OneFrame
    BY <1>1 DEF LineInv, InStep
  <2>2. \A i \in 1 .. FrameBytes : bytes[i] = Frame("request")[i]
    BY <1>1, <1>2, <1>4, <2>1, FrameType DEF OneFrame
  <2>3. bytes = Frame("request")
    BY <1>4, <2>2, FrameType, SeqEqual
  <2> QED BY <1>1, <2>1, <2>3 DEF Good, After
<1> QED BY <1>7, <1>8, <1>9, <1>10 DEF LineInv

\* A read times out; that of a request that is sure cannot.
LEMMA ShortStep ==
  ASSUME LineInv, Short
  PROVE  LineInv'
<1>1. /\ stage \in {"connect", "request"} /\ waiting /\ Len(rx) < FrameBytes
      /\ rx' = <<>> /\ UNCHANGED <<line, taken, quiet, sure, noise>>
      /\ stage' \in {stage, "failed"} /\ (stage = "connect" => stage' = stage)
      /\ Prompt => line = <<>>
  BY DEF Short, TakesPart
<1>2. ~sure
  <2> SUFFICES ASSUME sure PROVE FALSE
    OBVIOUS
  <2>1. OneFrame /\ line = <<>>
    BY <1>1 DEF LineInv, InStep
  <2>2. Len(rx) = FrameBytes
    BY <2>1, LineAssumption, LenProperties DEF OneFrame, LineInv, TypeOK
  <2> QED BY <1>1, <2>2, LineAssumption
<1>3. tries' \in 0 .. Retries - 1
  BY LineAssumption DEF Short, MoreTries, LineInv, TypeOK
<1>4. board' \in Boards
  BY DEF Short, Rests, LineInv, TypeOK, Boards
<1>5. rx' \in Seq(Bytes) /\ NoneOfConnect(rx')
  BY <1>1, EmptySeq DEF NoneOfConnect
<1>6. TypeOK'
  BY <1>1, <1>3, <1>4, <1>5 DEF LineInv, TypeOK, Short
<1>7. OnlyForRequest' /\ OwnAnswer'
  BY <1>1, <1>5 DEF LineInv, OnlyForRequest, OwnAnswer
<1> QED BY <1>1, <1>2, <1>6, <1>7 DEF LineInv, InStep

-----------------------------------------------------------------------------
(* The frames stay as LineInv has them.                                    *)
THEOREM LineInductive == Spec => []LineInv
<1>1. Init => LineInv
  <2> SUFFICES ASSUME Init PROVE LineInv
    OBVIOUS
  <2>1. TypeOK
    <3>1. tries \in 0 .. Retries - 1 /\ noise \in 0 .. MaxNoise
      BY LineAssumption DEF Init
    <3>2. waiting \in BOOLEAN /\ {quiet, sure} \subseteq BOOLEAN
      BY Zenon DEF Init
    <3>3. line \in Seq(Bytes) /\ rx \in Seq(Bytes)
      BY EmptySeq DEF Init
    <3> QED BY <3>1, <3>2, <3>3 DEF Init, TypeOK, Boards
  <2> QED BY <2>1 DEF Init, LineInv, OnlyForRequest, OwnAnswer, InStep
<1>2. LineInv /\ [Next]_vars => LineInv'
  <2> SUFFICES ASSUME LineInv, [Next]_vars PROVE LineInv'
    OBVIOUS
  <2>1. CASE UNCHANGED vars
    BY <2>1 DEF vars, LineInv, TypeOK, OnlyForRequest, OwnAnswer, InStep, OneFrame, Prompt
  <2> QED
    BY <2>1, ArriveStep, GlitchStep, BoardStep, HandshakeStep, RequestStep, ReadStep,
       ShortStep DEF Next
<1> QED BY <1>1, <1>2, PTL DEF Spec

\* The types.
THEOREM LineTypes == Spec => []TypeOK
BY LineInductive, PTL DEF LineInv

\* A frame that is taken for the answer to a request sent over a quiet line was
\* sent for that request, whatever the handshakes left behind.
THEOREM AnswersAreItsOwn == Spec => []OwnAnswer
BY LineInductive, PTL DEF LineInv

\* A request to a prompt board on a quiet line does not fail.
THEOREM PromptRequests == Spec => []PromptRequestSucceeds
<1>1. LineInv => PromptRequestSucceeds
  BY DEF LineInv, InStep, PromptRequestSucceeds
<1> QED BY <1>1, LineInductive, PTL
=============================================================================
