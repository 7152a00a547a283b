-------------------------- MODULE ParamStoreProofs --------------------------
(***************************************************************************)
(* The safety properties of ParamStore, for any number of stores and       *)
(* retries and any contents: every step preserves StoreInv.                *)
(*                                                                         *)
(* A step of the board (in Send) changes the flash and adds an answer that *)
(* is true of it; a step of the worker (in Receive) believes an answer,    *)
(* which AnswersTrue says it may.                                          *)
(***************************************************************************)
EXTENDS ParamStore, Functions, TLAPS

-----------------------------------------------------------------------------
(* The inductive invariant.  Shape holds of every behaviour; Sound, what   *)
(* the flash holds at each request of an operation and what the answers    *)
(* under way then say, as long as no request has been overtaken.           *)

Messages == [form : Forms, data : Content \cup {Payload}]
UnderWay == Range(wire) \cup Range(rx)

Shape ==
  /\ TypeOK /\ wire \in Seq(Messages) /\ rx \in Seq(Messages)
  /\ stage # "idle" => values \in Blocks \X Blocks
  /\ stage \notin Requests => tries = 0
  /\ waiting => stage \in Requests \cup {"connect"}
  /\ stage = "packet" <=> kind = "dump" /\ stage \in Requests
  /\ stage = "connect" => got = <<>>
  /\ stage = "packet" =>
       got \in Seq(Content \cup {Payload}) /\ Len(got) <= 2 * NumStores + 1

\* The request has been sent at least once.
Sent == stage \in Requests /\ (waiting \/ tries > 0)

\* A cell holds what its sector was last erased to receive, or nothing yet;
\* sector 0 receives a pointer, the others parameters.
Intended ==
  /\ \A s \in 0 .. NumStores, b \in {0, 1} : flash[Cell(s, b)] \in {Erased, image[s][b + 1]}
  /\ image[0][1] \in Stores \cup {Erased} /\ image[0][2] = Erased
  /\ \A s \in Stores, b \in {1, 2} : image[s][b] \in Blocks \cup {Erased}

\* Before an operation's first request, what is on the line answers handshakes.
Lined ==
  stage = "connect" \/ (First /\ ~Sent) => \A m \in Range(wire) : m.data = Payload

\* The request changed what it was to change.
Obeyed ==
  /\ stage = "initErase" => image[0] = <<FirstStore, Erased>>
  /\ stage = "erase" => image[store] = values
  /\ Request.cmd = "write" => flash[Request.cell] = Request.data

\* An answer to a request that was sent: the board has obeyed, and what it
\* reports is true; or it is meant for a handshake, and the first request has
\* met it.
MeantForHandshake(m) == crossed /\ First /\ m.data = Payload
AnswersTrue ==
  Sent => \A m \in UnderWay :
            Obeyed /\ (m.form = "good" => m.data = Data(Request) \/ MeantForHandshake(m))

\* Where nothing has gone wrong, there is one answer, and it is good.
CalmAnswers ==
  calm /\ stage \in Requests \cup {"connect"} =>
    /\ tries = 0 /\ ~crossed
    /\ Len(wire) + Len(rx) = (IF waiting THEN 1 ELSE 0)
    /\ \A m \in UnderWay : m.form = "good"

\* An operation that writes: a WRITE, or a READ of a board without a pointer
\* or of one that seemed to have none.
WriteStages == {"erase", "write0", "write1"}
InitStages == {"initErase", "initWrite"}
ReadStages == {"read0", "read1"}
SeemsBlank == had = Erased \/ crossed

StageShape ==
  /\ store \in Stores
  /\ stage # "idle" => had \in Stores \cup {Erased}
  /\ stage \in {"connect", "getStore"} => had = flash[Pointer]
  /\ stage \in InitStages => SeemsBlank
  /\ stage = "initWrite" => image[0] = <<FirstStore, Erased>>
  /\ stage \in WriteStages => kind = "write" \/ SeemsBlank
  /\ stage \in WriteStages \cup ReadStages => flash[Pointer] = store
  /\ stage \in {"write0", "write1"} => image[store] = values
  /\ stage = "write1" => flash[Cell(store, 0)] = values[1]
  /\ stage \in ReadStages =>
       /\ kind = "read"
       /\ had # store => SeemsBlank /\ StoreAt(store) = values

\* What has been read so far is what the flash holds.
GotShape ==
  /\ stage \in Requests \ {"read1", "packet"} => got = <<>>
  /\ stage = "read1" => got = <<flash[Cell(store, 0)]>> /\ flash[Cell(store, 0)] # Erased
  /\ stage = "packet" =>
       \A i \in 1 .. Len(got) : got[i] = flash[i - 1] \/ (crossed /\ i = 1)

Sound ==
  /\ Intended /\ Lined /\ AnswersTrue /\ CalmAnswers /\ StageShape /\ GotShape
  /\ WriteDoneStored /\ ReadDoneWhole /\ DumpDoneExact /\ CalmSucceeds

StoreInv == Shape /\ (~overtaken => Sound)

-----------------------------------------------------------------------------
(* Sequences of answers.                                                    *)

(* What is at the ends of a sequence of answers, and what it loses and gains. *)
LEMMA Ends ==
  ASSUME NEW s \in Seq(Messages)
  PROVE  /\ Range(s) \subseteq Messages
         /\ \A m \in Messages : /\ Append(s, m) \in Seq(Messages)
                                /\ Range(Append(s, m)) = Range(s) \cup {m}
                                /\ Len(Append(s, m)) = Len(s) + 1
         /\ s # <<>> => /\ Head(s) \in Range(s) /\ Tail(s) \in Seq(Messages)
                        /\ Range(s) = {Head(s)} \cup Range(Tail(s))
                        /\ Len(Tail(s)) = Len(s) - 1
         /\ Len(s) \in Nat /\ (Len(s) = 0 <=> s = <<>>)
<1>1. Range(s) \subseteq Messages
  BY DEF Range
<1>2. ASSUME NEW m \in Messages
      PROVE  /\ Append(s, m) \in Seq(Messages) /\ Range(Append(s, m)) = Range(s) \cup {m}
             /\ Len(Append(s, m)) = Len(s) + 1
  <2>1. Append(s, m) \in Seq(Messages) /\ Len(Append(s, m)) = Len(s) + 1
    OBVIOUS
  <2>2. \A i \in 1 .. Len(s) : Append(s, m)[i] = s[i]
    OBVIOUS
  <2>3. Append(s, m)[Len(s) + 1] = m
    OBVIOUS
  <2>4. 1 .. Len(s) + 1 = 1 .. Len(s) \cup {Len(s) + 1} /\ DOMAIN s = 1 .. Len(s)
          /\ DOMAIN Append(s, m) = 1 .. Len(s) + 1
    BY <2>1
  <2> QED BY <2>1, <2>2, <2>3, <2>4 DEF Range
<1>3. ASSUME s # <<>>
      PROVE  /\ Head(s) \in Range(s) /\ Tail(s) \in Seq(Messages)
             /\ Range(s) = {Head(s)} \cup Range(Tail(s)) /\ Len(Tail(s)) = Len(s) - 1
  <2>1. Len(s) \in Nat /\ Len(s) > 0 /\ Head(s) = s[1] /\ DOMAIN s = 1 .. Len(s)
    BY <1>3
  <2>2. Tail(s) \in Seq(Messages) /\ Len(Tail(s)) = Len(s) - 1
          /\ DOMAIN Tail(s) = 1 .. Len(s) - 1
    BY <1>3, <2>1
  <2>3. \A i \in 1 .. Len(s) - 1 : Tail(s)[i] = s[i + 1]
    BY <1>3, <2>1
  <2>4. \A i \in 2 .. Len(s) : s[i] = Tail(s)[i - 1] /\ i - 1 \in 1 .. Len(s) - 1
    BY <2>1, <2>3
  <2>5. ASSUME NEW i \in 1 .. Len(s) PROVE s[i] \in {Head(s)} \cup Range(Tail(s))
    <3>1. CASE i = 1
      BY <2>1, <3>1
    <3>2. CASE i \in 2 .. Len(s)
      BY <2>2, <2>4, <3>2 DEF Range
    <3> QED BY <2>1, <3>1, <3>2
  <2>6. Range(Tail(s)) \subseteq Range(s)
    BY <2>1, <2>2, <2>3 DEF Range
  <2> QED BY <2>1, <2>2, <2>5, <2>6 DEF Range
<1>4. Len(s) \in Nat /\ (Len(s) = 0 <=> s = <<>>)
  OBVIOUS
<1> QED BY <1>1, <1>2, <1>3, <1>4

LEMMA NoAnswers == <<>> \in Seq(Messages) /\ Range(<<>>) = {} /\ Len(<<>>) = 0
BY DEF Range

-----------------------------------------------------------------------------
(* The flash.                                                               *)

(* The cells of the sectors, and that no two are the same. *)
LEMMA CellsOf ==
  /\ Stores \subseteq 0 .. NumStores /\ FirstStore \in Stores
  /\ \A s \in 0 .. NumStores, b \in {0, 1} : Cell(s, b) \in Cells
  /\ \A s, t \in 0 .. NumStores, b, c \in {0, 1} : Cell(s, b) = Cell(t, c) => s = t /\ b = c
  /\ \A s \in 0 .. NumStores : Cell(s, 1) = Cell(s, 0) + 1
  /\ Pointer = Cell(0, 0) /\ 0 \in 0 .. NumStores /\ 0 \notin Stores
BY StoreAssumption DEF Stores, FirstStore, Cells, Cell, Pointer

(* Every cell is one of a sector's two. *)
LEMMA InSector ==
  ASSUME NEW c \in Cells
  PROVE  \E s \in 0 .. NumStores, b \in {0, 1} : c = Cell(s, b)
<1>1. c \in Nat /\ c <= 2 * NumStores + 1 /\ NumStores \in Nat
  BY StoreAssumption DEF Cells
<1> DEFINE s == c \div 2
           b == c % 2
<1>2. s \in Nat /\ b \in {0, 1} /\ c = 2 * s + b
  BY <1>1
<1>3. s \in 0 .. NumStores
  BY <1>1, <1>2
<1> QED BY <1>2, <1>3 DEF Cell

(* Erased and Junk are no contents. *)
LEMMA Told ==
  /\ Erased \notin Blocks /\ Erased \notin Stores /\ Junk \notin Blocks /\ Junk \notin Stores
  /\ Junk # Erased
BY StoreAssumption DEF Stores

(* What a cell holds that was programmed as intended. *)
LEMMA Holds ==
  ASSUME Intended
  PROVE  /\ flash[Pointer] \in Stores \cup {Erased}
         /\ \A s \in Stores, b \in {0, 1} : flash[Cell(s, b)] \in Blocks \cup {Erased}
         /\ \A c \in Cells : flash[c] # Junk
<1>1. flash[Pointer] \in Stores \cup {Erased}
  BY CellsOf DEF Intended
<1>2. \A s \in Stores, b \in {0, 1} : flash[Cell(s, b)] \in Blocks \cup {Erased}
  BY CellsOf DEF Intended
<1>3. \A s \in 0 .. NumStores, b \in {0, 1} : flash[Cell(s, b)] # Junk
  <2> TAKE s \in 0 .. NumStores, b \in {0, 1}
  <2>1. s = 0 \/ s \in Stores
    BY DEF Stores
  <2>2. image[s][b + 1] # Junk
    BY <2>1, Told DEF Intended
  <2> QED BY <2>2, Told DEF Intended
<1> QED BY <1>1, <1>2, <1>3, InSector

(* The request of each stage. *)
LEMMA Requested ==
  /\ stage = "getStore" => Request = Read(Pointer)
  /\ stage = "initErase" => Request = Erase(Pointer)
  /\ stage = "initWrite" => Request = Write(Pointer, FirstStore)
  /\ stage = "erase" => Request = Erase(Cell(store, 0))
  /\ stage = "write0" => Request = Write(Cell(store, 0), values[1])
  /\ stage = "write1" => Request = Write(Cell(store, 1), values[2])
  /\ stage = "read0" => Request = Read(Cell(store, 0))
  /\ stage = "read1" => Request = Read(Cell(store, 1))
  /\ stage = "packet" => Request = Read(Len(got))
BY DEF Request

(* The first try. *)
LEMMA FirstTry == 0 \in 0 .. Retries - 1
BY StoreAssumption

(* A step that changes neither the flash nor what it is to receive. *)
LEMMA FlashStays ==
  ASSUME Intended, UNCHANGED <<flash, image>>
  PROVE  Intended'
BY DEF Intended, Cell

(* A request of the same stage, store and values is the same. *)
LEMMA SameRequest ==
  ASSUME UNCHANGED <<stage, store, values, got>>
  PROVE  Request' = Request
BY DEF Request

-----------------------------------------------------------------------------
(* Shape: every step keeps it.                                              *)

(* What the board answers to a handshake or to a request. *)
LEMMA Replied ==
  ASSUME NEW d \in Content \cup {Payload}, wire \in Seq(Messages), calm \in BOOLEAN, Reply(d)
  PROVE  /\ wire' \in Seq(Messages) /\ calm' \in BOOLEAN
         /\ \/ wire' = wire
            \/ \E m \in Messages : Range(wire') = Range(wire) \cup {m} /\ m.data = d
         /\ calm' => /\ calm /\ Len(wire') = Len(wire) + 1
                     /\ \E m \in Messages : /\ Range(wire') = Range(wire) \cup {m}
                                            /\ m.form = "good"
<1>1. \A f \in Forms : Answer(f, d) \in Messages /\ Answer(f, d).form = f
                         /\ Answer(f, d).data = d
  BY DEF Answer, Messages
<1>2. UNCHANGED wire /\ Fault => wire' \in Seq(Messages) /\ wire' = wire /\ ~calm' /\ calm' \in BOOLEAN
  BY DEF Fault
<1>3. ASSUME wire' = Append(wire, Answer("good", d)), NoFault
      PROVE  /\ wire' \in Seq(Messages) /\ calm' = calm /\ Len(wire') = Len(wire) + 1
             /\ \E m \in Messages : /\ Range(wire') = Range(wire) \cup {m}
                                    /\ m.form = "good" /\ m.data = d
  <2>1. Answer("good", d) \in Messages /\ Answer("good", d).form = "good"
          /\ Answer("good", d).data = d
    BY <1>1 DEF Forms
  <2>2. /\ wire' \in Seq(Messages) /\ Range(wire') = Range(wire) \cup {Answer("good", d)}
        /\ Len(wire') = Len(wire) + 1
    BY <1>3, <2>1, Ends
  <2> QED BY <1>3, <2>1, <2>2 DEF NoFault
<1>4. ASSUME NEW f \in {"badHead", "bad"}, wire' = Append(wire, Answer(f, d)), Fault
      PROVE  /\ wire' \in Seq(Messages) /\ ~calm' /\ calm' \in BOOLEAN
             /\ \E m \in Messages : Range(wire') = Range(wire) \cup {m} /\ m.data = d
  <2>1. Answer(f, d) \in Messages /\ Answer(f, d).data = d
    BY <1>1 DEF Forms
  <2>2. wire' \in Seq(Messages) /\ Range(wire') = Range(wire) \cup {Answer(f, d)}
    BY <1>4, <2>1, Ends
  <2> QED BY <1>4, <2>1, <2>2 DEF Fault
<1> QED BY <1>2, <1>3, <1>4 DEF Reply

(* A request is one of the three commands, for a cell there is. *)
LEMMA RequestTypes ==
  ASSUME Shape, stage \in Requests
  PROVE  /\ Request.cell \in Cells /\ Request.data \in Content \cup {Payload}
         /\ \/ Request.cmd = "read"
            \/ Request.cmd = "erase"
            \/ Request.cmd = "write" /\ Request.data \in Content
<1>1. store \in 0 .. NumStores
  BY CellsOf DEF Shape, TypeOK, Addresses, Pointer
<1>2. Cell(store, 0) \in Cells /\ Cell(store, 1) \in Cells /\ Pointer \in Cells
        /\ FirstStore \in Content
  BY <1>1, CellsOf DEF Content
<1>3. stage \in {"write0", "write1"} => values[1] \in Content /\ values[2] \in Content
  BY DEF Shape, Content
<1>4. CASE stage = "packet"
  <2>1. Len(got) \in Nat /\ Len(got) <= 2 * NumStores + 1
    BY <1>4 DEF Shape
  <2> QED BY <1>4, <2>1, Requested, StoreAssumption DEF Cells, Read
<1>5. CASE stage # "packet"
  BY <1>2, <1>3, <1>5, Requested DEF Requests, Read, Write, Erase
<1> QED BY <1>4, <1>5

LEMMA ObeyTypes ==
  ASSUME Shape, stage \in Requests, Obey(Request)
  PROVE  /\ flash' \in [Cells -> Content] /\ image' \in [0 .. NumStores -> (Content \X Content)]
         /\ Data(Request) \in Content \cup {Payload}
<1>1. /\ flash \in [Cells -> Content] /\ image \in [0 .. NumStores -> (Content \X Content)]
      /\ Erased \in Content /\ Junk \in Content /\ FirstStore \in Content
  BY CellsOf DEF Shape, TypeOK, Content
<1>2. values \in Content \X Content
  BY DEF Shape, TypeOK, Content
<1>3. Request.cell \in Cells /\ Request.data \in Content \cup {Payload}
  BY RequestTypes
<1>4. flash' \in [Cells -> Content]
  <2>1. CASE Request.cmd = "write"
    <3>1. flash' = Program(Request.cell, Request.data) /\ Request.data \in Content
      BY <2>1, RequestTypes DEF Obey
    <3> QED BY <1>1, <1>3, <3>1 DEF Program
  <2>2. CASE Request.cmd = "erase"
    <3>1. flash' = EraseSector(Request.cell)
      BY <2>2 DEF Obey
    <3> QED BY <1>1, <1>3, <3>1 DEF EraseSector
  <2>3. CASE Request.cmd = "read"
    BY <1>1, <2>3 DEF Obey
  <2> QED BY <2>1, <2>2, <2>3, RequestTypes
<1>5. image' \in [0 .. NumStores -> (Content \X Content)]
  <2>1. \/ image' = image
        \/ image' = [image EXCEPT ![0] = <<FirstStore, Erased>>]
        \/ image' = [image EXCEPT ![store] = values]
    BY DEF Obey
  <2> QED BY <1>1, <1>2, <2>1
<1> QED BY <1>1, <1>3, <1>4, <1>5 DEF Data

LEMMA ShapeInit == Init => Shape
<1> SUFFICES ASSUME Init PROVE Shape
  OBVIOUS
<1> USE StoreAssumption DEF Init, Ok, FirstStore
<1>1. flash \in [Cells -> Content]
  BY DEF BoardStates, Content
<1>2. \A s \in 0 .. NumStores : StoreAt(s) \in Content \X Content
  BY <1>1, CellsOf DEF StoreAt
<1>3. image \in [0 .. NumStores -> (Content \X Content)]
  <2>1. image = [s \in 0 .. NumStores |-> StoreAt(s)]
    OBVIOUS
  <2> HIDE DEF Init
  <2> QED BY <1>2, <2>1
<1>4. TypeOK
  BY <1>1, <1>3, CellsOf, FirstTry DEF TypeOK, Stages, Kinds, Content, Addresses
<1> QED BY <1>4, NoAnswers DEF Shape, Requests

LEMMA ShapeSend == Shape /\ Send => Shape'
<1> SUFFICES ASSUME Shape, Send PROVE Shape'
  OBVIOUS
<1>1. /\ stage \in Requests /\ waiting' = TRUE /\ rx' = <<>>
      /\ UNCHANGED <<stage, startVars, store, tries, got>> /\ UNCHANGED <<ret, asked>>
      /\ wire \in Seq(Messages) /\ calm \in BOOLEAN
      /\ (Obey(Request) /\ Reply(Data(Request))) \/ Unheard
  BY DEF Send, Flush, Served, Shape, TypeOK
<1>2. crossed' \in BOOLEAN /\ overtaken' \in BOOLEAN
  BY DEF Send, Stray, Shape, TypeOK
<1>3. wire' \in Seq(Messages) /\ calm' \in BOOLEAN
  BY <1>1, ObeyTypes, Replied DEF Unheard, Fault
<1>4. flash' \in [Cells -> Content] /\ image' \in [0 .. NumStores -> (Content \X Content)]
  BY <1>1, ObeyTypes DEF Unheard, Shape, TypeOK
<1>5. TypeOK'
  BY <1>1, <1>2, <1>3, <1>4 DEF Shape, TypeOK, startVars
<1> QED BY <1>1, <1>3, <1>5, NoAnswers DEF Shape, startVars

(* What becomes of the operation when a request has succeeded or failed. *)
LEMMA ShapeAfter ==
  ASSUME Shape, stage \in Requests, UNCHANGED <<flash, image, startVars, asked, strays>>,
         tries' = 0, waiting' = FALSE, wire' \in Seq(Messages), rx' \in Seq(Messages),
         calm' \in BOOLEAN,
         \/ \E d \in Content \cup {Payload} :
              Succeed(d) /\ (stage = "getStore" => d \in Addresses)
         \/ \E r \in {NoAnswer, Blank, BadHead, Bad} : Fail(r)
  PROVE  Shape'
<1> USE DEF startVars, strays
<1>1. /\ stage' \in Stages /\ store' \in Addresses /\ ret' \in {Ok, Blank, NoAnswer, Canceled, Bad}
      /\ stage' = "packet" =>
           /\ stage = "packet" /\ got' \in Seq(Content \cup {Payload})
           /\ Len(got') <= 2 * NumStores + 1
      /\ stage = "packet" => stage' \in {"packet", "publish"}
      /\ stage' # "idle" /\ stage' # "connect"
  <2>1. ASSUME NEW r \in {NoAnswer, Blank, BadHead, Bad}, Fail(r)
        PROVE  /\ store' = store /\ ret' \in {ret, Ok, Blank, NoAnswer, Canceled, Bad}
               /\ stage' = "publish" \/ (stage = "getStore" /\ stage' = "initErase")
    BY <2>1 DEF Fail, Publish, Failure, Initialises, Ok, NoAnswer, Blank, BadHead, Bad, Canceled
  <2>2. ASSUME NEW d \in Content \cup {Payload}, Succeed(d), stage = "getStore" => d \in Addresses,
               stage # "packet"
        PROVE  /\ (stage = "getStore" /\ store' \in Addresses) \/ store' \in {store, FirstStore}
               /\ ret' \in {ret, Ok}
               /\ stage' \in {"read0", "erase", "initWrite", "write0", "write1", "read1", "publish"}
    BY <2>2 DEF Succeed, AfterPointer, Publish, Ok
  <2>3. ASSUME NEW d \in Content \cup {Payload}, Succeed(d), stage = "packet"
        PROVE  /\ store' = store /\ ret' \in {ret, Ok} /\ stage' \in {"packet", "publish"}
               /\ stage' = "packet" => /\ got' \in Seq(Content \cup {Payload})
                                       /\ Len(got') <= 2 * NumStores + 1
    <3>1. /\ store' = store /\ got' = Append(got, d)
          /\ IF Len(got) + 1 = 2 * NumStores + 2 THEN stage' = "publish" /\ ret' = Ok
                                                 ELSE UNCHANGED <<stage, ret>>
      BY <2>3 DEF Succeed, Collect, Publish
    <3>2. got \in Seq(Content \cup {Payload}) /\ Len(got) <= 2 * NumStores + 1
      BY <2>3 DEF Shape
    <3>3. got' \in Seq(Content \cup {Payload}) /\ Len(got') = Len(got) + 1 /\ Len(got) \in Nat
      BY <3>1, <3>2
    <3>4. CASE Len(got) + 1 = 2 * NumStores + 2
      <4>1. stage' = "publish" /\ ret' = Ok
        BY <3>1, <3>4
      <4> QED BY <3>1, <4>1
    <3>5. CASE Len(got) + 1 # 2 * NumStores + 2
      <4>1. stage' = "packet" /\ ret' = ret
        BY <2>3, <3>1, <3>5
      <4>2. Len(got) + 1 <= 2 * NumStores + 1
        BY <3>2, <3>3, <3>5, StoreAssumption
      <4>3. Len(got') <= 2 * NumStores + 1
        BY <3>3, <4>2
      <4> QED BY <3>1, <3>3, <4>1, <4>3
    <3> QED BY <3>4, <3>5
  <2>4. store \in Addresses /\ FirstStore \in Addresses
          /\ ret \in {Ok, Blank, NoAnswer, Canceled, Bad}
    BY CellsOf DEF Shape, TypeOK, Addresses
  <2> QED BY <2>1, <2>2, <2>3, <2>4 DEF Stages, Requests
<1>2. TypeOK'
  BY <1>1, FirstTry DEF Shape, TypeOK
<1>3. stage' = "packet" <=> kind = "dump" /\ stage' \in Requests
  BY <1>1 DEF Shape, Requests
<1>4. values \in Blocks \X Blocks
  BY DEF Shape, Requests
<1> QED BY <1>1, <1>2, <1>3, <1>4 DEF Shape

LEMMA ShapeReceive == Shape /\ Receive => Shape'
<1> SUFFICES ASSUME Shape, Receive PROVE Shape'
  OBVIOUS
<1> DEFINE m == Head(rx)
<1>1. /\ stage \in Requests /\ waiting /\ tries' = 0 /\ waiting' = FALSE /\ rx # <<>> /\ rx' = Tail(rx)
      /\ UNCHANGED <<flash, image, wire, startVars, asked, calm, strays>>
      /\ IF Result(m) = Ok THEN Succeed(m.data) ELSE Fail(Result(m))
  BY DEF Receive
<1>2. m \in Messages /\ rx' \in Seq(Messages) /\ wire' \in Seq(Messages) /\ calm' \in BOOLEAN
  BY <1>1, Ends DEF Shape, TypeOK
<1>3. m.form \in Forms /\ m.data \in Content \cup {Payload}
  BY <1>2 DEF Messages
<1>4. /\ Result(m) \in {Ok, Blank, BadHead, Bad}
      /\ Result(m) = Ok /\ stage = "getStore" => m.data \in Addresses
  BY <1>1, <1>3, RequestTypes, Requested
     DEF Result, Read, Forms, Ok, Blank, BadHead, Bad
<1> QED BY <1>1, <1>2, <1>3, <1>4, ShapeAfter

LEMMA ShapeTimeout == Shape /\ Timeout => Shape'
<1> SUFFICES ASSUME Shape, Timeout PROVE Shape'
  OBVIOUS
<1>1. /\ stage \in Requests /\ waiting /\ rx = <<>> /\ waiting' = FALSE
      /\ UNCHANGED <<flash, image, wire, rx, startVars, asked, strays>>
      /\ wire' \in Seq(Messages) /\ rx' \in Seq(Messages) /\ calm' \in BOOLEAN
  BY DEF Timeout, Late, Fault, NoFault, Shape, TypeOK
<1>2. CASE MoreTries
  <2>1. tries' = tries + 1 /\ tries' \in 0 .. Retries - 1 /\ UNCHANGED <<stage, store, got, ret>>
    BY <1>2, StoreAssumption DEF Timeout, MoreTries, NextTry, Shape, TypeOK
  <2>2. TypeOK'
    BY <1>1, <2>1 DEF Shape, TypeOK, startVars, strays
  <2> QED BY <1>1, <2>1, <2>2 DEF Shape, startVars
<1>3. CASE ~MoreTries
  <2>1. tries' = 0 /\ Fail(NoAnswer)
    BY <1>3 DEF Timeout
  <2> QED BY <1>1, <2>1, ShapeAfter
<1> QED BY <1>2, <1>3

LEMMA ShapeStep == Shape /\ [Next]_vars => Shape'
<1> SUFFICES ASSUME Shape, [Next]_vars PROVE Shape'
  OBVIOUS
<1> USE DEF startVars, strays
<1>1. ASSUME NEW k \in Kinds, NEW v \in Blocks \X Blocks, Start(k, v) PROVE Shape'
  <2>1. flash[Pointer] \in Content /\ (\E i \in DOMAIN wire : wire[i].data # Payload) \in BOOLEAN
    BY CellsOf DEF Shape, TypeOK
  <2>2. TypeOK'
    BY <1>1, <2>1, CellsOf, FirstTry DEF Shape, TypeOK, Stages, Start, Addresses
  <2> QED BY <1>1, <2>2 DEF Shape, Start, Requests
<1>2. ASSUME Handshake PROVE Shape'
  <2>1. wire' \in Seq(Messages) /\ calm' \in BOOLEAN
    BY <1>2, Replied DEF Handshake, Shape, TypeOK
  <2> QED BY <1>2, <2>1 DEF Handshake, Shape, TypeOK, Requests
<1>3. ASSUME Connected PROVE Shape'
  <2>1. rx' \in Seq(Messages) /\ stage' \in {"connect", "packet", "getStore"}
          /\ (stage' = "packet" <=> kind = "dump" /\ stage' # "connect")
    BY <1>3, Ends DEF Connected, Shape
  <2>2. TypeOK'
    BY <1>3, <2>1 DEF Connected, Shape, TypeOK, Stages, Requests
  <2>3. /\ UNCHANGED <<wire, kind, values, got, tries>> /\ waiting' = FALSE
        /\ tries = 0 /\ values \in Blocks \X Blocks
    BY <1>3 DEF Connected, Shape, Requests
  <2>4. got = <<>> /\ got \in Seq(Content \cup {Payload}) /\ Len(got) <= 2 * NumStores + 1
    BY <1>3, StoreAssumption DEF Connected, Shape
  <2> QED BY <2>1, <2>2, <2>3, <2>4 DEF Shape, Requests
<1>4. ASSUME ConnectTimeout PROVE Shape'
  BY <1>4 DEF ConnectTimeout, Late, Fault, NoFault, Shape, TypeOK
<1>5. ASSUME CancelOperation PROVE Shape'
  BY <1>5 DEF CancelOperation, Publish, Shape, TypeOK, Stages, Requests
<1>6. ASSUME Finish \/ Restart PROVE Shape'
  <2>1. CASE Finish
    BY <1>6, <2>1 DEF Finish, Shape, TypeOK, Stages, Requests
  <2>2. CASE Restart
    <3>1. TypeOK'
      BY <2>2, FirstTry DEF Restart, Fault, Shape, TypeOK, Stages
    <3> QED BY <2>2, <3>1, NoAnswers DEF Restart, Shape, Requests
  <2> QED BY <1>6, <2>1, <2>2
<1>7. ASSUME Arrive PROVE Shape'
  <2>1. wire' \in Seq(Messages) /\ rx' \in Seq(Messages)
    BY <1>7, Ends DEF Arrive, Shape
  <2> QED BY <1>7, <2>1 DEF Arrive, Shape, TypeOK
<1>8. ASSUME UNCHANGED vars PROVE Shape'
  BY <1>8 DEF vars, Shape, TypeOK
<1> QED BY <1>1, <1>2, <1>3, <1>4, <1>5, <1>6, <1>7, <1>8, ShapeSend, ShapeReceive, ShapeTimeout
        DEF Next, Worker

-----------------------------------------------------------------------------
(* Sound: steps that make no request of the flash.                          *)

LEMMA SoundInit == Init => Sound
<1> SUFFICES ASSUME Init PROVE Sound
  OBVIOUS
<1> USE StoreAssumption DEF Init, Ok, FirstStore
<1>1. flash \in BoardStates
  OBVIOUS
<1>2. Intended
  <2>1. \A s \in 0 .. NumStores, b \in {0, 1} : image[s][b + 1] = flash[Cell(s, b)]
    BY DEF StoreAt
  <2>2. image[0][1] = flash[Pointer] /\ image[0][2] = flash[1]
    BY CellsOf, <2>1 DEF Pointer, Cell
  <2>3. \A s \in Stores, b \in {0, 1} : flash[Cell(s, b)] \in Blocks \cup {Erased}
    BY <1>1 DEF BoardStates
  <2>4. \A s \in Stores, b \in {1, 2} : image[s][b] \in Blocks \cup {Erased}
    BY <2>1, <2>3, CellsOf
  <2> QED BY <1>1, <2>1, <2>2, <2>4 DEF Intended, BoardStates
<1>3. Lined /\ AnswersTrue /\ CalmAnswers /\ GotShape
  BY DEF Lined, First, AnswersTrue, CalmAnswers, GotShape, Sent, Requests
<1>4. StageShape
  BY CellsOf DEF StageShape, InitStages, WriteStages, ReadStages
<1>5. WriteDoneStored /\ ReadDoneWhole /\ DumpDoneExact /\ CalmSucceeds
  BY DEF WriteDoneStored, ReadDoneWhole, DumpDoneExact, CalmSucceeds
<1> QED BY <1>2, <1>3, <1>4, <1>5 DEF Sound

LEMMA StartSound ==
  ASSUME Shape, Sound, NEW k \in Kinds, NEW v \in Blocks \X Blocks, Start(k, v), ~overtaken'
  PROVE  Sound'
<1> USE DEF Sound, Start
<1>1. Intended'
  BY FlashStays
<1>2. Lined'
  <2>1. \A i \in DOMAIN wire : wire[i].data = Payload
    OBVIOUS
  <2> QED BY <2>1 DEF Lined, Range
<1>3. AnswersTrue'
  BY DEF AnswersTrue, Sent, Requests
<1>4. CalmAnswers'
  <2>1. ASSUME calm' PROVE Len(wire) + Len(rx) = 0 /\ UnderWay = {}
    <3>1. wire = <<>> /\ rx = <<>>
      BY <2>1
    <3>2. Len(wire) = 0 /\ Len(rx) = 0 /\ Range(wire) = {} /\ Range(rx) = {}
      BY <3>1, NoAnswers
    <3> QED BY <3>2 DEF UnderWay
  <2>2. Len(wire') + Len(rx') = Len(wire) + Len(rx) /\ UnderWay' = UnderWay
    BY DEF UnderWay
  <2> QED BY <2>1, <2>2 DEF CalmAnswers
<1>5. StageShape'
  BY Holds, CellsOf DEF StageShape, InitStages, WriteStages, ReadStages, Pointer
<1>6. GotShape'
  BY DEF GotShape, Requests
<1>7. (WriteDoneStored /\ ReadDoneWhole /\ DumpDoneExact /\ CalmSucceeds)'
  BY DEF WriteDoneStored, ReadDoneWhole, DumpDoneExact, CalmSucceeds
<1> QED BY <1>1, <1>2, <1>3, <1>4, <1>5, <1>6, <1>7

LEMMA HandshakeSound == Shape /\ Sound /\ Handshake => Sound'
<1> SUFFICES ASSUME Shape, Sound, Handshake PROVE Sound'
  OBVIOUS
<1> USE DEF Sound, Handshake, startVars, strays
<1>1. wire \in Seq(Messages) /\ rx \in Seq(Messages) /\ calm \in BOOLEAN /\ waiting = FALSE
  BY DEF Shape, TypeOK
<1>2. /\ \/ wire' = wire
         \/ \E m \in Messages : Range(wire') = Range(wire) \cup {m} /\ m.data = Payload
      /\ calm' => /\ calm /\ Len(wire') = Len(wire) + 1
                  /\ \E m \in Messages : Range(wire') = Range(wire) \cup {m} /\ m.form = "good"
  BY <1>1, Replied
<1>3. Intended'
  BY FlashStays
<1>4. Lined'
  BY <1>2 DEF Lined
<1>5. AnswersTrue'
  BY DEF AnswersTrue, Sent, Requests
<1>6. CalmAnswers'
  <2>1. Len(wire) \in Nat /\ Len(rx) \in Nat
    BY <1>1
  <2> QED BY <1>1, <1>2, <2>1 DEF CalmAnswers, UnderWay
<1>7. StageShape'
  BY DEF StageShape, SeemsBlank, InitStages, WriteStages, ReadStages
<1>8. GotShape'
  BY DEF GotShape, Requests
<1>9. (WriteDoneStored /\ ReadDoneWhole /\ DumpDoneExact /\ CalmSucceeds)'
  BY DEF WriteDoneStored, ReadDoneWhole, DumpDoneExact, CalmSucceeds
<1> QED BY <1>3, <1>4, <1>5, <1>6, <1>7, <1>8, <1>9

LEMMA ConnectedSound == Shape /\ Sound /\ Connected => Sound'
<1> SUFFICES ASSUME Shape, Sound, Connected PROVE Sound'
  OBVIOUS
<1> USE DEF Sound, Connected, startVars, strays
<1>1. /\ stage' \in {"connect", "packet", "getStore"} /\ waiting' = FALSE /\ tries' = 0 /\ got' = <<>>
      /\ waiting = TRUE
  BY DEF Shape, TypeOK, Requests
<1>2. /\ Range(rx') \subseteq Range(rx) /\ Len(rx') = Len(rx) - 1
      /\ Len(rx) \in Nat /\ Len(wire) \in Nat
  BY Ends DEF Shape
<1>3. Intended'
  BY FlashStays
<1>4. Lined'
  BY DEF Lined
<1>5. AnswersTrue'
  BY <1>1 DEF AnswersTrue, Sent
<1>6. CalmAnswers'
  BY <1>1, <1>2 DEF CalmAnswers, UnderWay
<1>7. StageShape'
  BY <1>1 DEF StageShape, InitStages, WriteStages, ReadStages
<1>8. GotShape'
  BY <1>1 DEF GotShape, Requests
<1>9. (WriteDoneStored /\ ReadDoneWhole /\ DumpDoneExact /\ CalmSucceeds)'
  BY <1>1 DEF WriteDoneStored, ReadDoneWhole, DumpDoneExact, CalmSucceeds
<1> QED BY <1>3, <1>4, <1>5, <1>6, <1>7, <1>8, <1>9

LEMMA ConnectTimeoutSound == Shape /\ Sound /\ ConnectTimeout => Sound'
<1> SUFFICES ASSUME Shape, Sound, ConnectTimeout PROVE Sound'
  OBVIOUS
<1> USE DEF Sound, ConnectTimeout, startVars, strays
<1>1. calm' = FALSE
  <2>1. CASE wire = <<>>
    <3>1. Len(wire) + Len(rx) = 0 /\ waiting = TRUE /\ calm \in BOOLEAN
      BY <2>1, NoAnswers DEF Shape, TypeOK
    <3> QED BY <2>1, <3>1 DEF CalmAnswers, Late, NoFault
  <2>2. CASE wire # <<>>
    BY <2>2 DEF Late, Fault
  <2> QED BY <2>1, <2>2
<1>2. Intended'
  BY FlashStays
<1>3. Lined'
  BY DEF Lined
<1>4. AnswersTrue' /\ CalmAnswers'
  BY <1>1 DEF AnswersTrue, CalmAnswers, Sent, Requests
<1>5. StageShape'
  BY DEF StageShape, InitStages, WriteStages, ReadStages
<1>6. GotShape'
  BY DEF GotShape, Requests
<1>7. (WriteDoneStored /\ ReadDoneWhole /\ DumpDoneExact /\ CalmSucceeds)'
  BY DEF WriteDoneStored, ReadDoneWhole, DumpDoneExact, CalmSucceeds
<1> QED BY <1>2, <1>3, <1>4, <1>5, <1>6, <1>7

LEMMA CancelSound == Shape /\ Sound /\ CancelOperation => Sound'
<1> SUFFICES ASSUME Shape, Sound, CancelOperation PROVE Sound'
  OBVIOUS
<1> USE DEF Sound, CancelOperation, Publish, startVars, strays
<1>1. Intended'
  BY FlashStays
<1>2. Lined' /\ AnswersTrue' /\ CalmAnswers'
  BY DEF Lined, First, AnswersTrue, CalmAnswers, Sent, Requests
<1>3. StageShape'
  BY DEF StageShape, InitStages, WriteStages, ReadStages
<1>4. GotShape'
  BY DEF GotShape, Requests
<1>5. (WriteDoneStored /\ ReadDoneWhole /\ DumpDoneExact /\ CalmSucceeds)'
  BY DEF WriteDoneStored, ReadDoneWhole, DumpDoneExact, CalmSucceeds, Canceled, Ok
<1> QED BY <1>1, <1>2, <1>3, <1>4, <1>5

LEMMA FinishSound == Shape /\ Sound /\ (Finish \/ Restart) => Sound'
<1> SUFFICES ASSUME Shape, Sound, Finish \/ Restart PROVE Sound'
  OBVIOUS
<1> USE DEF Sound, Finish, Restart, startVars, strays
<1>1. Intended'
  BY FlashStays
<1>2. Lined' /\ AnswersTrue' /\ CalmAnswers'
  BY DEF Lined, First, AnswersTrue, CalmAnswers, Sent, Requests
<1>3. StageShape'
  BY DEF StageShape, InitStages, WriteStages, ReadStages
<1>4. GotShape'
  BY DEF GotShape, Requests
<1>5. (WriteDoneStored /\ ReadDoneWhole /\ DumpDoneExact /\ CalmSucceeds)'
  BY DEF WriteDoneStored, ReadDoneWhole, DumpDoneExact, CalmSucceeds
<1> QED BY <1>1, <1>2, <1>3, <1>4, <1>5

(* A step that leaves the flash, the operation and the answers under way. *)
LEMMA SoundStays ==
  ASSUME Sound, UNCHANGED <<flash, image, stage, startVars, store, tries, waiting, got, ret,
                            asked, calm, strays>>,
         UnderWay' = UnderWay, Range(wire') \subseteq Range(wire),
         Len(wire') + Len(rx') = Len(wire) + Len(rx)
  PROVE  Sound'
<1> USE DEF Sound, startVars, strays
<1>1. Intended'
  BY FlashStays
<1>2. Request' = Request
  BY SameRequest
<1>3. Lined' /\ AnswersTrue' /\ CalmAnswers'
  BY <1>2 DEF Lined, First, AnswersTrue, CalmAnswers, Sent, Obeyed, Data, MeantForHandshake
<1>4. StageShape' /\ GotShape'
  BY DEF StageShape, GotShape, StoreAt, SeemsBlank
<1>5. (WriteDoneStored /\ ReadDoneWhole /\ DumpDoneExact /\ CalmSucceeds)'
  BY DEF WriteDoneStored, ReadDoneWhole, DumpDoneExact, CalmSucceeds, StoreAt
<1> QED BY <1>1, <1>3, <1>4, <1>5

LEMMA ArriveSound == Shape /\ Sound /\ (Arrive \/ UNCHANGED vars) => Sound'
<1> SUFFICES ASSUME Shape, Sound, Arrive \/ UNCHANGED vars PROVE Sound'
  OBVIOUS
<1>1. CASE Arrive
  <2>1. /\ wire # <<>> /\ rx' = Append(rx, Head(wire)) /\ wire' = Tail(wire)
        /\ wire \in Seq(Messages) /\ rx \in Seq(Messages)
    BY <1>1 DEF Arrive, Shape
  <2>2. Head(wire) \in Messages
    BY <2>1, Ends
  <2>3. /\ Range(wire) = {Head(wire)} \cup Range(wire') /\ Len(wire') = Len(wire) - 1
        /\ Range(rx') = Range(rx) \cup {Head(wire)} /\ Len(rx') = Len(rx) + 1
        /\ Len(wire) \in Nat /\ Len(rx) \in Nat
    BY <2>1, <2>2, Ends
  <2>4. UnderWay' = UnderWay /\ Range(wire') \subseteq Range(wire)
          /\ Len(wire') + Len(rx') = Len(wire) + Len(rx)
    BY <2>3 DEF UnderWay
  <2> QED BY <1>1, <2>4, SoundStays DEF Arrive
<1>2. CASE UNCHANGED vars
  BY <1>2, SoundStays DEF vars, UnderWay, startVars, strays
<1> QED BY <1>1, <1>2

-----------------------------------------------------------------------------
(* Sound: a request is sent.                                                *)

LEMMA ReadRequest ==
  ASSUME Shape, stage \in {"getStore", "read0", "read1", "packet"}
  PROVE  Request.cmd = "read" /\ Request.cell \in Cells /\ Data(Request) = flash[Request.cell]
<1>1. Request.cmd = "read"
  BY Requested DEF Read
<1> QED BY <1>1, RequestTypes DEF Data, Requests

LEMMA WriteRequest ==
  ASSUME Shape, Sound, stage \in {"initWrite", "write0", "write1"}
  PROVE  /\ Request.cmd = "write" /\ Request.data \notin {Erased, Junk}
         /\ Data(Request) = Request.data
         /\ \E s \in 0 .. NumStores, b \in {0, 1} :
              /\ Request.cell = Cell(s, b) /\ image[s][b + 1] = Request.data
              /\ stage = "initWrite" => s = 0 /\ b = 0
              /\ stage = "write0" => s = store /\ b = 0
              /\ stage = "write1" => s = store /\ b = 1
<1> USE CellsOf, Requested, Told DEF Write, Data
<1>1. /\ store \in Stores /\ values \in Blocks \X Blocks
      /\ stage = "initWrite" => image[0] = <<FirstStore, Erased>>
      /\ stage \in {"write0", "write1"} => image[store] = values
  BY DEF Shape, Sound, StageShape
<1>2. CASE stage = "initWrite"
  BY <1>1, <1>2
<1>3. CASE stage = "write0"
  <2>1. values[1] \in Blocks
    BY <1>1
  <2> QED BY <1>1, <1>3, <2>1
<1>4. CASE stage = "write1"
  <2>1. values[2] \in Blocks
    BY <1>1
  <2> QED BY <1>1, <1>4, <2>1
<1> QED BY <1>2, <1>3, <1>4

(* The board programs the cell with what it was erased to receive. *)
LEMMA Programmed ==
  ASSUME Shape, Sound, stage \in {"initWrite", "write0", "write1"}, Obey(Request)
  PROVE  flash' = [flash EXCEPT ![Request.cell] = Request.data] /\ image' = image
<1>1. PICK s \in 0 .. NumStores, b \in {0, 1} :
        Request.cell = Cell(s, b) /\ image[s][b + 1] = Request.data
  BY WriteRequest
<1>2. flash[Request.cell] \in {Erased, Request.data} /\ Request.cell \in Cells
  BY <1>1, CellsOf DEF Sound, Intended
<1>3. flash \in [Cells -> Content]
  BY DEF Shape, TypeOK
<1>4. Request.cmd = "write"
  BY WriteRequest
<1>5. flash' = Program(Request.cell, Request.data) /\ image' = image
  BY <1>4 DEF Obey
<1> QED BY <1>2, <1>5 DEF Program

LEMMA Erased0 ==
  ASSUME stage = "initErase", Obey(Request)
  PROVE  /\ flash' = [flash EXCEPT ![Cell(0, 0)] = Erased, ![Cell(0, 1)] = Erased]
         /\ image' = [image EXCEPT ![0] = <<FirstStore, Erased>>]
         /\ Data(Request) = Payload /\ Request.cmd = "erase"
<1>1. Request.cmd = "erase" /\ Request.cell = Pointer /\ Request.data = Payload
  BY Requested DEF Erase
<1>2. Pointer = Cell(0, 0) /\ Pointer + 1 = Cell(0, 1)
  BY CellsOf
<1>3. flash' = EraseSector(Pointer)
  BY <1>1 DEF Obey
<1>4. image' = [image EXCEPT ![0] = <<FirstStore, Erased>>]
  BY <1>1 DEF Obey
<1> QED BY <1>1, <1>2, <1>3, <1>4 DEF EraseSector, Data

LEMMA ErasedStore ==
  ASSUME Sound, stage = "erase", Obey(Request)
  PROVE  /\ flash' = [flash EXCEPT ![Cell(store, 0)] = Erased, ![Cell(store, 1)] = Erased]
         /\ image' = [image EXCEPT ![store] = values]
         /\ Data(Request) = Payload /\ Request.cmd = "erase"
<1>1. store \in Stores
  BY DEF Sound, StageShape
<1>2. Cell(store, 0) # Pointer
  BY <1>1, CellsOf
<1>3. /\ Request.cmd = "erase" /\ Request.cell = Cell(store, 0)
      /\ Request.data = Payload
  BY Requested DEF Erase
<1>4. Cell(store, 0) + 1 = Cell(store, 1)
  BY <1>1, CellsOf
<1>5. flash' = EraseSector(Cell(store, 0))
  BY <1>3 DEF Obey
<1>6. image' = [image EXCEPT ![store] = values]
  BY <1>2, <1>3 DEF Obey
<1> QED BY <1>3, <1>4, <1>5, <1>6 DEF EraseSector, Data

(* What the operation knows does not shrink when strays are counted. *)
Counted == UNCHANGED <<stage, startVars, store, tries, got>> /\ waiting' = TRUE
             /\ (crossed => crossed')

(* What the board does for a request, and that the answer is then true. *)
LEMMA ObeyRead ==
  ASSUME Shape, Sound, stage \in {"getStore", "read0", "read1", "packet"}, Obey(Request), Counted
  PROVE  /\ flash' = flash /\ image' = image
         /\ Intended' /\ Obeyed' /\ StageShape' /\ GotShape' /\ Data(Request)' = Data(Request)
<1>1. flash' = flash /\ image' = image
  BY ReadRequest DEF Obey
<1>2. Request' = Request
  BY SameRequest DEF startVars, Counted
<1>3. Obeyed'
  BY <1>2, ReadRequest DEF Obeyed, Counted
<1>4. StageShape' /\ GotShape'
  BY <1>1 DEF Sound, StageShape, GotShape, StoreAt, startVars, Counted, SeemsBlank
<1> QED BY <1>1, <1>2, <1>3, <1>4, FlashStays DEF Data, Sound

LEMMA ObeyWrite ==
  ASSUME Shape, Sound, stage \in {"initWrite", "write0", "write1"}, Obey(Request), Counted
  PROVE  /\ image' = image
         /\ Intended' /\ Obeyed' /\ StageShape' /\ GotShape' /\ Data(Request)' = Data(Request)
<1>1. flash' = [flash EXCEPT ![Request.cell] = Request.data] /\ image' = image
  BY Programmed
<1>2. Request' = Request
  BY SameRequest DEF startVars, Counted
<1>3. PICK s \in 0 .. NumStores, b \in {0, 1} :
        /\ Request.cell = Cell(s, b) /\ image[s][b + 1] = Request.data
        /\ stage = "initWrite" => s = 0 /\ b = 0
        /\ stage = "write0" => s = store /\ b = 0
        /\ stage = "write1" => s = store /\ b = 1
  BY WriteRequest
<1>4. flash \in [Cells -> Content] /\ Cell(s, b) \in Cells
  BY CellsOf DEF Shape, TypeOK
<1>5. flash'[Cell(s, b)] = Request.data
        /\ \A c \in Cells \ {Cell(s, b)} : flash'[c] = flash[c]
  BY <1>1, <1>3, <1>4
<1>6. Intended'
  <2>1. ASSUME NEW t \in 0 .. NumStores, NEW c \in {0, 1}
        PROVE  flash'[Cell(t, c)] \in {Erased, image[t][c + 1]}
    <3>1. CASE t = s /\ c = b
      BY <1>3, <1>5, <3>1
    <3>2. CASE ~(t = s /\ c = b)
      <4>1. Cell(t, c) \in Cells \ {Cell(s, b)}
        BY <3>2, CellsOf
      <4> QED BY <1>5, <4>1 DEF Sound, Intended
    <3> QED BY <3>1, <3>2
  <2> QED BY <1>1, <2>1 DEF Sound, Intended, Cell
<1>7. Obeyed'
  BY <1>2, <1>3, <1>5, WriteRequest DEF Obeyed, Counted
<1>8. stage # "initWrite" => /\ flash'[Pointer] = flash[Pointer]
                             /\ stage = "write1" => flash'[Cell(store, 0)] = flash[Cell(store, 0)]
  <2>1. store \in Stores
    BY DEF Sound, StageShape
  <2>2. stage # "initWrite" => s = store
    BY <1>3
  <2> QED BY <1>3, <1>5, <2>1, <2>2, CellsOf
<1>9. StageShape'
  BY <1>1, <1>8 DEF Sound, StageShape, SeemsBlank, WriteStages, InitStages, ReadStages,
                    startVars, Counted, Cell, Pointer
<1>10. GotShape'
  BY DEF Sound, GotShape, Requests, Counted
<1> QED BY <1>1, <1>2, <1>6, <1>7, <1>9, <1>10, WriteRequest DEF Data

LEMMA ObeyErase ==
  ASSUME Shape, Sound, stage \in {"initErase", "erase"}, Obey(Request), Counted
  PROVE  Intended' /\ Obeyed' /\ StageShape' /\ GotShape' /\ Data(Request)' = Data(Request)
<1> DEFINE s == IF stage = "initErase" THEN 0 ELSE store
           v == IF stage = "initErase" THEN <<FirstStore, Erased>> ELSE values
<1>1. /\ flash' = [flash EXCEPT ![Cell(s, 0)] = Erased, ![Cell(s, 1)] = Erased]
      /\ image' = [image EXCEPT ![s] = v]
      /\ Data(Request) = Payload /\ Request.cmd = "erase"
  BY Erased0, ErasedStore
<1>2. Request' = Request
  BY SameRequest DEF startVars, Counted
<1>3. /\ s \in 0 .. NumStores /\ (stage = "erase" => s \in Stores /\ v \in Blocks \X Blocks)
  BY CellsOf DEF Shape, Sound, StageShape
<1>4. flash \in [Cells -> Content] /\ image \in [0 .. NumStores -> (Content \X Content)]
  BY DEF Shape, TypeOK
<1>5. Cell(s, 0) \in Cells /\ Cell(s, 1) \in Cells
  BY <1>3, CellsOf
<1> HIDE DEF s, v
<1>6. /\ \A c \in Cells \ {Cell(s, 0), Cell(s, 1)} : flash'[c] = flash[c]
      /\ flash'[Cell(s, 0)] = Erased /\ flash'[Cell(s, 1)] = Erased
      /\ image'[s] = v /\ \A t \in 0 .. NumStores \ {s} : image'[t] = image[t]
  BY <1>1, <1>3, <1>4, <1>5
<1>7. Intended'
  <2>1. ASSUME NEW t \in 0 .. NumStores, NEW c \in {0, 1}
        PROVE  flash'[Cell(t, c)] \in {Erased, image'[t][c + 1]}
    <3>1. CASE t = s
      BY <1>6, <3>1
    <3>2. CASE t # s
      <4>1. Cell(t, c) \in Cells \ {Cell(s, 0), Cell(s, 1)} /\ image'[t] = image[t]
        BY <1>3, <1>6, <3>2, CellsOf
      <4> QED BY <1>6, <4>1 DEF Sound, Intended
    <3> QED BY <3>1, <3>2
  <2>2. image'[0][1] \in Stores \cup {Erased} /\ image'[0][2] = Erased
    <3>1. CASE s = 0
      <4>1. stage = "initErase"
        BY <1>3, <3>1, CellsOf
      <4> QED BY <1>6, <3>1, <4>1, CellsOf DEF v
    <3>2. CASE s # 0
      BY <1>6, <3>2, CellsOf DEF Sound, Intended
    <3> QED BY <3>1, <3>2
  <2>3. ASSUME NEW t \in Stores, NEW b \in {1, 2}
        PROVE  image'[t][b] \in Blocks \cup {Erased}
    <3>1. CASE t = s
      <4>1. stage = "erase"
        BY <3>1, CellsOf DEF s
      <4> QED BY <1>3, <1>6, <3>1, <4>1
    <3>2. CASE t # s
      BY <1>6, <3>2, CellsOf DEF Sound, Intended
    <3> QED BY <3>1, <3>2
  <2> QED BY <2>1, <2>2, <2>3 DEF Intended, Cell
<1>8. stage = "erase" => flash'[Pointer] = flash[Pointer]
  <2>1. stage = "erase" => Cell(0, 0) \in Cells \ {Cell(s, 0), Cell(s, 1)}
    BY <1>3, CellsOf
  <2> QED BY <1>6, <2>1, CellsOf
<1>9. Obeyed'
  BY <1>1, <1>2, <1>6 DEF Obeyed, s, v, startVars, Counted
<1>10. StageShape'
  BY <1>8 DEF Sound, StageShape, SeemsBlank, WriteStages, InitStages, ReadStages, startVars,
              Counted, Pointer
<1>11. GotShape'
  BY DEF Sound, GotShape, Requests, Counted
<1> QED BY <1>1, <1>2, <1>7, <1>9, <1>10, <1>11 DEF Data

LEMMA SendSound == Shape /\ Sound /\ Send /\ ~overtaken' => Sound'
<1> SUFFICES ASSUME Shape, Sound, Send, ~overtaken' PROVE Sound'
  OBVIOUS
<1>1. /\ stage \in Requests /\ waiting = FALSE /\ waiting' = TRUE /\ rx' = <<>>
      /\ UNCHANGED <<stage, startVars, store, tries, got>> /\ UNCHANGED <<ret, asked>>
      /\ wire \in Seq(Messages) /\ calm \in BOOLEAN /\ tries \in Nat /\ Counted
      /\ (Obey(Request) /\ Reply(Data(Request))) \/ Unheard
  BY StoreAssumption DEF Send, Flush, Stray, Served, Shape, TypeOK, Counted
<1>2. Request' = Request /\ (First => First')
  BY <1>1, SameRequest DEF startVars, First
<1>3. UnderWay' = Range(wire') /\ Range(wire) \subseteq UnderWay
  BY <1>1, NoAnswers DEF UnderWay
\* What is on the line already is true, or meant for a handshake.
<1>4. ASSUME NEW m \in Range(wire)
      PROVE  \/ tries > 0 /\ Obeyed /\ (m.form = "good" => m.data = Data(Request))
             \/ crossed' /\ First /\ m.data = Payload
  <2>1. CASE tries > 0
    <3>1. Obeyed /\ (m.form = "good" => m.data = Data(Request) \/ MeantForHandshake(m))
      BY <1>1, <1>3, <2>1 DEF Sound, AnswersTrue, Sent
    <3> QED BY <1>1, <2>1, <3>1 DEF MeantForHandshake, Counted
  <2>2. CASE tries = 0
    <3>1. wire # <<>>
      BY NoAnswers
    <3>2. First /\ crossed'
      BY <2>2, <3>1 DEF Send, Stray, NewRequest
    <3>3. m.data = Payload
      BY <1>1, <2>2, <3>2 DEF Sound, Lined, Sent
    <3> QED BY <3>2, <3>3
  <2> QED BY <1>1, <2>1, <2>2
<1>5. First => Obeyed'
  <2>1. First => Request.cmd = "read" /\ stage \in {"getStore", "packet"}
    BY ReadRequest DEF First
  <2> QED BY <1>1, <1>2, <2>1 DEF Obeyed
<1>6. Lined'
  BY <1>1 DEF Lined, Sent, First, Requests
<1>7. (WriteDoneStored /\ ReadDoneWhole /\ DumpDoneExact /\ CalmSucceeds)'
  BY <1>1 DEF WriteDoneStored, ReadDoneWhole, DumpDoneExact, CalmSucceeds, Requests
<1>8. CASE Unheard
  <2>1. UNCHANGED <<flash, image, wire>> /\ calm' = FALSE
    BY <1>8 DEF Unheard, Fault
  <2>2. Intended'
    BY <2>1, FlashStays DEF Sound
  <2>3. AnswersTrue'
    <3>1. Obeyed => Obeyed'
      BY <1>1, <1>2, <2>1 DEF Obeyed, startVars
    <3>2. Data(Request)' = Data(Request)
      BY <1>2, <2>1 DEF Data
    <3>3. ASSUME NEW m \in UnderWay'
          PROVE  Obeyed' /\ (m.form = "good" => m.data = Data(Request)' \/ MeantForHandshake(m)')
      BY <1>2, <1>3, <1>4, <1>5, <2>1, <3>1, <3>2 DEF MeantForHandshake
    <3> QED BY <3>3 DEF AnswersTrue
  <2>4. CalmAnswers'
    BY <2>1 DEF CalmAnswers
  <2>5. StageShape'
    BY <1>1, <2>1 DEF Sound, StageShape, startVars, StoreAt, SeemsBlank, Counted
  <2>6. GotShape'
    BY <1>1, <2>1 DEF Sound, GotShape, Counted
  <2> QED BY <1>6, <1>7, <2>2, <2>3, <2>4, <2>5, <2>6 DEF Sound
<1>9. CASE Obey(Request) /\ Reply(Data(Request))
  <2>1. Intended' /\ Obeyed' /\ StageShape' /\ GotShape' /\ Data(Request)' = Data(Request)
    <3>1. CASE stage \in {"getStore", "read0", "read1", "packet"}
      BY <1>1, <1>9, <3>1, ObeyRead
    <3>2. CASE stage \in {"initWrite", "write0", "write1"}
      BY <1>1, <1>9, <3>2, ObeyWrite
    <3>3. CASE stage \in {"initErase", "erase"}
      BY <1>1, <1>9, <3>3, ObeyErase
    <3> QED BY <1>1, <3>1, <3>2, <3>3 DEF Requests
  <2>2. Data(Request) \in Content \cup {Payload}
    BY <1>1, <1>9, ObeyTypes
  <2>3. /\ \/ wire' = wire
           \/ \E m \in Messages : Range(wire') = Range(wire) \cup {m} /\ m.data = Data(Request)
        /\ calm' => /\ calm /\ Len(wire') = Len(wire) + 1
                    /\ \E m \in Messages : Range(wire') = Range(wire) \cup {m} /\ m.form = "good"
    BY <1>1, <1>9, <2>2, Replied
  <2>4. AnswersTrue'
    <3>1. ASSUME NEW m \in Range(wire)
          PROVE  m.form = "good" => m.data = Data(Request) \/ MeantForHandshake(m)'
      BY <1>2, <1>4 DEF MeantForHandshake
    <3>2. ASSUME NEW m \in UnderWay'
          PROVE  m.form = "good" => m.data = Data(Request) \/ MeantForHandshake(m)'
      BY <1>3, <2>3, <3>1
    <3> QED BY <2>1, <3>2 DEF AnswersTrue
  <2>5. CalmAnswers'
    <3> SUFFICES ASSUME calm'
                 PROVE  /\ tries' = 0 /\ ~crossed' /\ Len(wire') + Len(rx') = 1
                        /\ \A m \in UnderWay' : m.form = "good"
      BY <1>1 DEF CalmAnswers
    <3>1. tries = 0 /\ ~crossed /\ Len(wire) + Len(rx) = 0 /\ calm
      BY <1>1, <2>3 DEF Sound, CalmAnswers
    <3>2. Len(wire) = 0 /\ wire = <<>>
      <4>1. Len(wire) \in Nat /\ Len(rx) \in Nat /\ (Len(wire) = 0 <=> wire = <<>>)
        BY Ends DEF Shape
      <4> QED BY <3>1, <4>1
    <3>3. ~crossed'
      BY <3>1, <3>2 DEF Send, Stray, NewRequest
    <3> QED BY <1>1, <1>3, <2>3, <3>1, <3>2, <3>3, NoAnswers
  <2> QED BY <1>6, <1>7, <2>1, <2>4, <2>5 DEF Sound
<1> QED BY <1>1, <1>8, <1>9

-----------------------------------------------------------------------------
(* Sound: an answer is received, or none is.                                *)

(* The worker's judgement of an answer is right, unless the answer was meant *)
(* for a handshake.                                                          *)
LEMMA Judged ==
  ASSUME Shape, Sound, stage \in Requests, waiting, NEW m \in UnderWay
  PROVE  /\ Result(m) \in {Ok, Blank, BadHead, Bad}
         /\ m.form # "good" => Result(m) \in {BadHead, Bad}
         /\ Obeyed
         /\ m.form = "good" /\ ~MeantForHandshake(m) =>
              /\ m.data = Data(Request)
              /\ stage \in {"getStore", "read0", "read1"} =>
                   /\ m.data = flash[Request.cell]
                   /\ Result(m) = IF m.data = Erased THEN Blank ELSE Ok
              /\ stage = "packet" => m.data = flash[Len(got)]
              /\ stage \notin {"getStore", "read0", "read1"} => Result(m) = Ok
         /\ m.form = "good" /\ MeantForHandshake(m) =>
              /\ crossed
              /\ \/ stage = "getStore" /\ Result(m) \in {Blank, Bad}
                 \/ stage = "packet" /\ got = <<>> /\ Result(m) = Ok
<1>1. m \in Messages /\ m.form \in Forms
  BY Ends DEF Shape, UnderWay, Messages
<1>2. Obeyed /\ (m.form = "good" => m.data = Data(Request) \/ MeantForHandshake(m))
  BY DEF Sound, AnswersTrue, Sent
<1>3. CASE m.form = "badHead"
  BY <1>2, <1>3 DEF Result, BadHead, Bad
<1>4. CASE m.form = "bad"
  BY <1>2, <1>4 DEF Result, BadHead, Bad
<1>5. CASE m.form = "good" /\ ~MeantForHandshake(m)
  <2>1. CASE stage \in {"getStore", "read0", "read1"}
    <3>1. Request.cmd = "read" /\ m.data = flash[Request.cell] /\ Request.cell \in Cells
      BY <1>2, <1>5, <2>1, ReadRequest
    <3>2. m.data # Junk
      BY <3>1, Holds DEF Sound
    <3>3. stage = "getStore" => m.data \in Addresses \cup {Erased}
      <4>1. stage = "getStore" => m.data = flash[Pointer]
        BY <3>1, Requested DEF Read
      <4> QED BY <4>1, Holds DEF Sound, Addresses
    <3> QED BY <1>2, <1>5, <2>1, <3>1, <3>2, <3>3 DEF Result, Blank, Ok, BadHead, Bad
  <2>2. CASE stage = "packet"
    BY <1>2, <1>5, <2>2, ReadRequest, Requested DEF Result, Read, Ok
  <2>3. CASE stage \in {"initWrite", "write0", "write1"}
    BY <1>2, <1>5, <2>3, WriteRequest DEF Result, Ok
  <2>4. CASE stage \in {"initErase", "erase"}
    BY <1>2, <1>5, <2>4, Requested DEF Result, Erase, Ok
  <2> QED BY <2>1, <2>2, <2>3, <2>4 DEF Requests
<1>6. CASE m.form = "good" /\ MeantForHandshake(m)
  <2>1. crossed /\ First /\ m.data = Payload
    BY <1>6 DEF MeantForHandshake
  <2>2. CASE stage = "getStore"
    <3>1. m.data \notin Addresses /\ Request.cmd = "read"
      BY <2>1, <2>2, Requested, StoreAssumption DEF Addresses, Pointer, Stores, Read
    <3>2. Result(m) = IF m.data = Erased THEN Blank
                      ELSE IF m.data = Junk THEN Bad
                      ELSE IF m.data \notin Addresses THEN Blank ELSE Ok
      BY <1>6, <2>2, <3>1 DEF Result
    <3>3. Result(m) \in {Blank, Bad}
      BY <3>1, <3>2
    <3>4. Result(m) \in {Ok, Blank, BadHead, Bad} /\ Result(m) # Ok
      BY <3>3 DEF Ok, Blank, BadHead, Bad
    <3> QED BY <1>2, <1>6, <2>1, <2>2, <3>3, <3>4
  <2>3. CASE stage = "packet" /\ got = <<>>
    <3>1. Request.cmd = "read"
      BY <2>3, Requested DEF Read
    <3>2. Result(m) = Ok
      BY <1>6, <2>3, <3>1 DEF Result
    <3> QED BY <1>2, <1>6, <2>1, <2>3, <3>2
  <2> QED BY <2>1, <2>2, <2>3 DEF First
<1> QED BY <1>1, <1>3, <1>4, <1>5, <1>6 DEF Forms

(* A request that has failed ends the operation, except for the pointer of a *)
(* board that has none, or seems to.                                         *)
LEMMA Failed ==
  ASSUME Shape, Sound, stage \in Requests, NEW r \in {NoAnswer, Blank, BadHead, Bad}, Fail(r),
         UNCHANGED <<flash, image, startVars, asked, strays>>, tries' = 0, waiting' = FALSE,
         r = Blank /\ stage = "getStore" => flash[Pointer] = Erased \/ crossed,
         calm' => /\ ~crossed /\ wire' = <<>> /\ rx' = <<>>
                  /\ r = Blank /\ stage \in {"getStore", "read0", "read1"}
                  /\ flash[Request.cell] = Erased
  PROVE  Sound'
<1> USE DEF Fail, Publish, Failure, Initialises, startVars, strays, Ok, NoAnswer, Blank, BadHead,
        Bad, Canceled
<1>1. /\ UNCHANGED <<store, got>> /\ stage' \in {"initErase", "publish"}
      /\ stage' = "initErase" => /\ stage = "getStore" /\ ret' = ret
                                 /\ flash[Pointer] = Erased \/ crossed
      /\ stage' = "publish" => ret' \in {-1, -2, -3, 1}
  OBVIOUS
<1>2. Intended'
  BY FlashStays DEF Sound
<1>3. Lined' /\ AnswersTrue'
  BY <1>1 DEF Lined, First, AnswersTrue, Sent
<1>4. CalmAnswers'
  <2>1. ASSUME calm' PROVE Len(wire') + Len(rx') = 0 /\ UnderWay' = {}
    <3>1. wire' = <<>> /\ rx' = <<>>
      BY <2>1
    <3>2. /\ Len(wire') = 0 /\ Len(rx') = 0 /\ Range(wire') = {} /\ Range(rx') = {}
      BY <3>1, NoAnswers
    <3> QED BY <3>2 DEF UnderWay
  <2> QED BY <2>1 DEF CalmAnswers
<1>5. StageShape'
  BY <1>1 DEF Sound, StageShape, SeemsBlank, Requests, WriteStages, InitStages, ReadStages
<1>6. GotShape'
  BY <1>1 DEF Sound, GotShape, Requests
<1>7. (WriteDoneStored /\ ReadDoneWhole /\ DumpDoneExact)'
  BY <1>1 DEF WriteDoneStored, ReadDoneWhole, DumpDoneExact
<1>8. CalmSucceeds'
  <2> SUFFICES ASSUME stage' = "publish", calm'
               PROVE  /\ kind = "read" /\ ret' = Blank /\ had \in Stores
                      /\ Erased \in {flash[Cell(had, 0)], flash[Cell(had, 1)]}
    BY DEF CalmSucceeds, Cell
  <2>1. r = Blank /\ stage \in {"read0", "read1"}
    OBVIOUS
  <2>2. Erased \in {flash[Cell(store, 0)], flash[Cell(store, 1)]} /\ ret' = Blank
    BY <2>1, Requested DEF Read
  <2>3. kind = "read" /\ store \in Stores /\ (had # store => StoreAt(store) = values)
          /\ values \in Blocks \X Blocks
    BY <2>1 DEF Shape, Sound, StageShape, ReadStages
  <2>4. had = store
    BY <2>2, <2>3, Told DEF StoreAt
  <2> QED BY <2>2, <2>3, <2>4
<1> QED BY <1>2, <1>3, <1>4, <1>5, <1>6, <1>7, <1>8 DEF Sound

(* A request has succeeded: the operation goes on to the next, or is done. *)
LEMMA Succeeded ==
  ASSUME Shape, Sound, stage \in Requests, waiting, NEW d, Succeed(d), Obeyed,
         UNCHANGED <<flash, image, wire, startVars, asked, calm, strays>>, tries' = 0,
         waiting' = FALSE,
         calm => ~crossed /\ wire' = <<>> /\ rx' = <<>>,
         stage \in {"getStore", "read0", "read1"} => d = flash[Request.cell] /\ d # Erased,
         stage = "packet" => d = flash[Len(got)] \/ (crossed /\ got = <<>>)
  PROVE  Sound'
<1> USE DEF Succeed, Publish, Collect, startVars, strays
<1>1. Intended' /\ AnswersTrue'
  BY FlashStays DEF Sound, AnswersTrue, Sent
<1>2. stage = "getStore" => d = flash[Pointer] /\ d \in Stores
  BY Requested, Holds DEF Sound, Read
<1>3. stage = "read0" => d = flash[Cell(store, 0)]
  BY Requested DEF Read
<1>4. stage = "read1" => d = flash[Cell(store, 1)]
  BY Requested DEF Read
<1>5. stage' = "publish" => ret' = Ok
  BY DEF Requests, AfterPointer
<1>6. CalmAnswers'
  <2>1. ASSUME calm' PROVE Len(wire') + Len(rx') = 0 /\ UnderWay' = {}
    <3>1. wire' = <<>> /\ rx' = <<>>
      BY <2>1
    <3>2. /\ Len(wire') = 0 /\ Len(rx') = 0 /\ Range(wire') = {} /\ Range(rx') = {}
      BY <3>1, NoAnswers
    <3> QED BY <3>2 DEF UnderWay
  <2> QED BY <2>1 DEF CalmAnswers
<1>7. CalmSucceeds'
  BY <1>5 DEF CalmSucceeds
<1>8. CASE stage = "getStore"
  <2>1. stage' = AfterPointer /\ store' = flash[Pointer] /\ got' = got /\ stage' \in {"read0", "erase"}
          /\ (stage' = "read0" => kind = "read") /\ (stage' = "erase" => kind = "write")
    BY <1>2, <1>8 DEF AfterPointer, Shape, Requests, TypeOK, Kinds
  <2>2. StageShape'
    BY <1>2, <1>8, <2>1, Told DEF Sound, StageShape, Requests, WriteStages, InitStages, ReadStages
  <2>3. GotShape' /\ Lined'
    BY <1>8, <2>1 DEF Sound, GotShape, Requests, Lined, First
  <2>4. (WriteDoneStored /\ ReadDoneWhole /\ DumpDoneExact)'
    BY <2>1 DEF WriteDoneStored, ReadDoneWhole, DumpDoneExact
  <2> QED BY <1>1, <1>6, <1>7, <2>2, <2>3, <2>4 DEF Sound
<1>9. CASE stage \in {"initErase", "initWrite", "erase", "write0"}
  <2>1. /\ stage' \in {"initWrite", "erase", "write0", "write1"} /\ got' = got
        /\ stage = "initErase" => stage' = "initWrite" /\ store' = store
        /\ stage = "initWrite" => stage' = "erase" /\ store' = FirstStore
        /\ stage = "erase" => stage' = "write0" /\ store' = store
        /\ stage = "write0" => stage' = "write1" /\ store' = store
    BY <1>9
  <2>2. /\ stage = "initWrite" => flash[Pointer] = FirstStore
        /\ stage = "write0" => flash[Cell(store, 0)] = values[1]
    BY Requested DEF Obeyed, Write
  <2>3. StageShape'
    BY <1>9, <2>1, <2>2, CellsOf
       DEF Sound, StageShape, SeemsBlank, Requests, WriteStages, InitStages, ReadStages, Obeyed,
           Cell, Pointer
  <2>4. GotShape' /\ Lined'
    BY <1>9, <2>1 DEF Sound, GotShape, Requests, Lined, First
  <2>5. (WriteDoneStored /\ ReadDoneWhole /\ DumpDoneExact)'
    BY <2>1 DEF WriteDoneStored, ReadDoneWhole, DumpDoneExact
  <2> QED BY <1>1, <1>6, <1>7, <2>3, <2>4, <2>5 DEF Sound
<1>10. CASE stage = "write1"
  <2>1. /\ store' = store /\ got' = got /\ got = <<>> /\ kind # "dump"
        /\ stage' = IF kind = "read" THEN "read0" ELSE "publish"
    BY <1>10 DEF Shape, Sound, GotShape, Requests
  <2>2. flash[Pointer] = store /\ flash[Cell(store, 0)] = values[1] /\ values \in Blocks \X Blocks
          /\ (kind = "read" => SeemsBlank)
    BY <1>10 DEF Shape, Sound, StageShape, WriteStages, Requests
  <2>3. flash[Cell(store, 1)] = values[2]
    BY <1>10, Requested DEF Obeyed, Write
  <2>4. StoreAt(store) = values
    BY <2>2, <2>3 DEF StoreAt
  <2>5. StageShape'
    BY <1>10, <2>1, <2>2, <2>4
       DEF Sound, StageShape, SeemsBlank, Requests, WriteStages, InitStages, ReadStages, StoreAt
  <2>6. GotShape' /\ Lined'
    BY <2>1 DEF GotShape, Requests, Lined, First
  <2>7. (WriteDoneStored /\ ReadDoneWhole /\ DumpDoneExact)'
    BY <2>1, <2>2, <2>4 DEF WriteDoneStored, ReadDoneWhole, DumpDoneExact, StoreAt
  <2> QED BY <1>1, <1>6, <1>7, <2>5, <2>6, <2>7 DEF Sound
<1>11. CASE stage = "read0"
  <2>1. store' = store /\ stage' = "read1" /\ got' = <<flash[Cell(store, 0)]>> /\ flash[Cell(store, 0)] # Erased
    BY <1>3, <1>11 DEF Sound, GotShape, Requests
  <2>2. StageShape'
    BY <1>11, <2>1
       DEF Sound, StageShape, SeemsBlank, Requests, WriteStages, InitStages, ReadStages, StoreAt
  <2>3. GotShape' /\ Lined'
    BY <2>1 DEF GotShape, Requests, Cell, Lined, First
  <2>4. (WriteDoneStored /\ ReadDoneWhole /\ DumpDoneExact)'
    BY <2>1 DEF WriteDoneStored, ReadDoneWhole, DumpDoneExact
  <2> QED BY <1>1, <1>6, <1>7, <2>2, <2>3, <2>4 DEF Sound
<1>12. CASE stage = "read1"
  <2>1. store' = store /\ stage' = "publish" /\ got = <<flash[Cell(store, 0)]>>
          /\ got' = Append(got, flash[Cell(store, 1)]) /\ kind = "read" /\ flash[Pointer] = store
          /\ flash[Cell(store, 0)] # Erased /\ flash[Cell(store, 1)] # Erased /\ store \in Stores
    BY <1>4, <1>12 DEF Sound, StageShape, GotShape, Requests, ReadStages
  <2>2. got' = StoreAt(store)
    <3>1. flash[Cell(store, 0)] \in Content /\ flash[Cell(store, 1)] \in Content
      BY <2>1, CellsOf DEF Shape, TypeOK
    <3>2. got' \in Seq(Content) /\ Len(got') = 2 /\ got'[1] = flash[Cell(store, 0)]
            /\ got'[2] = flash[Cell(store, 1)]
      BY <2>1, <3>1
    <3>3. got' = <<got'[1], got'[2]>>
      BY <3>2
    <3> QED BY <3>2, <3>3 DEF StoreAt
  <2>3. store \in Stores /\ image[store] \in Content \X Content
    BY <2>1, CellsOf DEF Shape, TypeOK
  <2>4. flash[Cell(store, 0)] = image[store][1] /\ flash[Cell(store, 1)] = image[store][2]
    BY <2>1, <2>3, CellsOf DEF Sound, Intended
  <2>5. got' = image[store]
    BY <2>2, <2>3, <2>4 DEF StoreAt
  <2>6. StageShape'
    BY <1>12, <2>1 DEF Sound, StageShape, Requests, WriteStages, InitStages, ReadStages
  <2>7. GotShape' /\ Lined'
    BY <2>1 DEF GotShape, Requests, Lined, First
  <2>8. (WriteDoneStored /\ ReadDoneWhole /\ DumpDoneExact)'
    BY <2>1, <2>2, <2>5 DEF WriteDoneStored, ReadDoneWhole, DumpDoneExact, StoreAt
  <2> QED BY <1>1, <1>6, <1>7, <2>6, <2>7, <2>8 DEF Sound
<1>13. CASE stage = "packet"
  <2>1. /\ got \in Seq(Content \cup {Payload}) /\ Len(got) <= 2 * NumStores + 1 /\ kind = "dump"
        /\ \A i \in 1 .. Len(got) : got[i] = flash[i - 1] \/ (crossed /\ i = 1)
        /\ got' = Append(got, d) /\ store' = store
        /\ stage' = IF Len(got) + 1 = 2 * NumStores + 2 THEN "publish" ELSE "packet"
    BY <1>13 DEF Shape, Sound, GotShape, Requests
  <2>2. /\ Len(got') = Len(got) + 1 /\ Len(got) \in Nat /\ got'[Len(got) + 1] = d
        /\ \A i \in 1 .. Len(got) : got'[i] = got[i]
    BY <2>1
  <2>3. got = <<>> => Len(got) = 0
    OBVIOUS
  <2>4. \A i \in 1 .. Len(got') : got'[i] = flash[i - 1] \/ (crossed /\ i = 1)
    <3> TAKE i \in 1 .. Len(got')
    <3>1. CASE i \in 1 .. Len(got)
      BY <2>1, <2>2, <3>1
    <3>2. CASE i = Len(got) + 1
      BY <1>13, <2>2, <2>3, <3>2
    <3> QED BY <2>2, <3>1, <3>2
  <2>5. StageShape'
    BY <1>13, <2>1 DEF Sound, StageShape, Requests, WriteStages, InitStages, ReadStages
  <2>6. GotShape'
    <3>1. flash' = flash /\ crossed' = crossed /\ stage' \in {"packet", "publish"}
      BY <2>1
    <3> QED BY <2>4, <3>1 DEF GotShape, Requests
  <2>7. Lined'
    <3>1. got' # <<>> /\ stage' \in {"packet", "publish"}
      BY <2>1, <2>2
    <3> QED BY <3>1 DEF Lined, First
  <2>8. (WriteDoneStored /\ ReadDoneWhole)'
    BY <2>1 DEF WriteDoneStored, ReadDoneWhole
  <2>9. DumpDoneExact'
    <3> SUFFICES ASSUME stage' = "publish"
                 PROVE  /\ Len(got') = 2 * NumStores + 2
                        /\ \A c \in Cells : got'[c + 1] = flash'[c] \/ (crossed' /\ c = 0)
      BY DEF DumpDoneExact
    <3>1. Len(got') = 2 * NumStores + 2
      BY <2>1, <2>2
    <3>2. ASSUME NEW c \in Cells PROVE got'[c + 1] = flash'[c] \/ (crossed' /\ c = 0)
      <4>1. c + 1 \in 1 .. Len(got') /\ (c + 1) - 1 = c /\ (c + 1 = 1 => c = 0)
        BY <3>1, StoreAssumption DEF Cells
      <4> QED BY <2>4, <4>1
    <3> QED BY <3>1, <3>2
  <2> QED BY <1>1, <1>6, <1>7, <2>5, <2>6, <2>7, <2>8, <2>9 DEF Sound
<1> QED BY <1>8, <1>9, <1>10, <1>11, <1>12, <1>13 DEF Requests

LEMMA ReceiveSound == Shape /\ Sound /\ Receive => Sound'
<1> SUFFICES ASSUME Shape, Sound, Receive PROVE Sound'
  OBVIOUS
<1> DEFINE m == Head(rx)
<1>1. /\ stage \in Requests /\ waiting /\ tries' = 0 /\ waiting' = FALSE
      /\ UNCHANGED <<flash, image, wire, startVars, asked, calm, strays>>
      /\ rx # <<>> /\ rx' = Tail(rx) /\ wire \in Seq(Messages) /\ rx \in Seq(Messages)
      /\ IF Result(m) = Ok THEN Succeed(m.data) ELSE Fail(Result(m))
  BY DEF Receive, Shape
<1>2. m \in UnderWay
  BY <1>1, Ends DEF UnderWay
<1>3. calm => ~crossed /\ m.form = "good" /\ wire' = <<>> /\ rx' = <<>>
  <2>1. /\ Len(wire) \in Nat /\ (Len(wire) = 0 <=> wire = <<>>) /\ Len(rx) \in Nat
        /\ (Len(rx) = 0 <=> rx = <<>>) /\ Len(rx') = Len(rx) - 1 /\ rx' \in Seq(Messages)
    BY <1>1, Ends
  <2>2. Len(rx') = 0 <=> rx' = <<>>
    BY <2>1, Ends
  <2>3. calm => Len(wire) + Len(rx) = 1 /\ ~crossed /\ m.form = "good"
    BY <1>1, <1>2 DEF Sound, CalmAnswers
  <2> QED BY <1>1, <2>1, <2>2, <2>3
<1>4. CASE Result(m) = Ok
  <2>1. m.form = "good"
    BY <1>1, <1>2, <1>4, Judged DEF Ok, BadHead, Bad
  <2>2. /\ Obeyed
        /\ stage \in {"getStore", "read0", "read1"} => m.data = flash[Request.cell] /\ m.data # Erased
        /\ stage = "packet" => m.data = flash[Len(got)] \/ (crossed /\ got = <<>>)
    BY <1>1, <1>2, <1>4, <2>1, Judged DEF Ok, Blank, Bad
  <2> QED BY <1>1, <1>3, <1>4, <2>2, Succeeded
<1>5. CASE Result(m) # Ok
  <2>1. Result(m) \in {NoAnswer, Blank, BadHead, Bad}
    BY <1>1, <1>2, <1>5, Judged
  <2>2. Result(m) = Blank => m.form = "good"
    BY <1>1, <1>2, Judged DEF Blank, BadHead, Bad
  <2>3. m.form = "good" => \/ crossed
                           \/ /\ Result(m) = Blank /\ stage \in {"getStore", "read0", "read1"}
                              /\ flash[Request.cell] = Erased
    BY <1>1, <1>2, <1>5, Judged
  <2>4. Result(m) = Blank /\ stage = "getStore" => flash[Pointer] = Erased \/ crossed
    BY <2>2, <2>3, Requested DEF Read
  <2> QED BY <1>1, <1>3, <1>5, <2>1, <2>3, <2>4, Failed
<1> QED BY <1>4, <1>5

LEMMA TimeoutSound == Shape /\ Sound /\ Timeout => Sound'
<1> SUFFICES ASSUME Shape, Sound, Timeout PROVE Sound'
  OBVIOUS
<1>1. /\ stage \in Requests /\ waiting /\ rx = <<>> /\ waiting' = FALSE /\ Late
      /\ UNCHANGED <<flash, image, wire, rx, startVars, asked, strays>>
  BY DEF Timeout
<1>2. calm' = FALSE
  <2>1. CASE wire = <<>>
    <3>1. Len(wire) + Len(rx) = 0 /\ calm \in BOOLEAN
      BY <1>1, <2>1, NoAnswers DEF Shape, TypeOK
    <3> QED BY <1>1, <2>1, <3>1 DEF Sound, CalmAnswers, Late, NoFault
  <2>2. CASE wire # <<>>
    BY <1>1, <2>2 DEF Late, Fault
  <2> QED BY <2>1, <2>2
<1>3. CASE MoreTries
  <2>1. tries' = tries + 1 /\ tries \in Nat /\ UNCHANGED <<stage, store, got, ret>>
    BY <1>3, StoreAssumption DEF Timeout, NextTry, Shape, TypeOK
  <2>2. Intended'
    BY <1>1, FlashStays DEF Sound
  <2>3. Request' = Request /\ Data(Request)' = Data(Request)
    BY <1>1, <2>1, SameRequest DEF startVars, Data
  <2>4. AnswersTrue'
    <3>1. UnderWay' = UnderWay /\ Sent
      BY <1>1 DEF UnderWay, Sent
    <3>2. Obeyed => Obeyed'
      BY <1>1, <2>1, <2>3 DEF Obeyed, startVars
    <3>3. \A m : MeantForHandshake(m) => MeantForHandshake(m)'
      BY <1>1, <2>1 DEF MeantForHandshake, First, strays
    <3> QED BY <2>3, <3>1, <3>2, <3>3 DEF Sound, AnswersTrue
  <2>5. CalmAnswers' /\ Lined'
    <3>1. Sent' /\ stage # "connect"
      BY <1>1, <2>1 DEF Sent, Requests
    <3> QED BY <1>2, <2>1, <3>1 DEF CalmAnswers, Lined
  <2>6. StageShape'
    BY <1>1, <2>1 DEF Sound, StageShape, startVars, strays, StoreAt, SeemsBlank
  <2>7. GotShape'
    BY <1>1, <2>1 DEF Sound, GotShape, strays
  <2>8. (WriteDoneStored /\ ReadDoneWhole /\ DumpDoneExact /\ CalmSucceeds)'
    BY <1>1, <2>1 DEF WriteDoneStored, ReadDoneWhole, DumpDoneExact, CalmSucceeds, Requests
  <2> QED BY <2>2, <2>4, <2>5, <2>6, <2>7, <2>8 DEF Sound
<1>4. CASE ~MoreTries
  <2>1. tries' = 0 /\ Fail(NoAnswer)
    BY <1>4 DEF Timeout
  <2>2. NoAnswer # Blank
    BY DEF NoAnswer, Blank
  <2> QED BY <1>1, <1>2, <2>1, <2>2, Failed
<1> QED BY <1>3, <1>4

-----------------------------------------------------------------------------
(* The theorems.                                                            *)

LEMMA ShapeInductive == Spec => []Shape
BY ShapeInit, ShapeStep, PTL DEF Spec

LEMMA StoreInvInit == Init => StoreInv
BY ShapeInit, SoundInit DEF StoreInv

\* No step of an overtaken behaviour undoes it.
LEMMA OvertakenStays == ASSUME [Next]_vars, overtaken PROVE overtaken'
BY DEF Next, Worker, Start, Handshake, Connected, ConnectTimeout, CancelOperation, Send, Stray,
       Receive, Timeout, Finish, Restart, Arrive, vars, strays

LEMMA StoreInvStep == StoreInv /\ [Next]_vars => StoreInv'
<1> SUFFICES ASSUME StoreInv, [Next]_vars PROVE StoreInv'
  OBVIOUS
<1>1. Shape'
  BY ShapeStep DEF StoreInv
<1>2. ASSUME ~overtaken' PROVE Sound'
  <2>1. Shape /\ Sound
    BY <1>2, OvertakenStays DEF StoreInv
  <2> QED BY <1>2, <2>1, StartSound, HandshakeSound, ConnectedSound, ConnectTimeoutSound,
             CancelSound, FinishSound, ArriveSound, SendSound, ReceiveSound, TimeoutSound
          DEF Next, Worker
<1> QED BY <1>1, <1>2 DEF StoreInv

\* The invariant: what the flash holds and what the answers on the line say at
\* each request of an operation, whatever was lost, repeated or interrupted;
\* with what the operation's first request may take from a handshake, as long
\* as no later request has been overtaken by an answer.
THEOREM StoreInductive == Spec => []StoreInv
BY StoreInvInit, StoreInvStep, PTL DEF Spec

\* Every variable of the worker and of the board holds a value of its type,
\* in every behaviour.
THEOREM StoreTypes == Spec => []TypeOK
<1>1. Shape => TypeOK
  BY DEF Shape
<1> QED BY <1>1, ShapeInductive, PTL

\* No cell of the board's flash is programmed over something else: retries
\* repeat what the board may have done already, and no write is sent before
\* the erase of its sector was confirmed.
THEOREM NothingOverprogrammed == Spec => []NeverOverprogrammed
<1>1. StoreInv => NeverOverprogrammed
  BY Holds DEF StoreInv, Sound, NeverOverprogrammed
<1> QED BY <1>1, StoreInductive, PTL

\* A WRITE that is reported done is in the flash, with its pointer.
THEOREM WritesStored == Spec => []WriteDoneStored
<1>1. StoreInv => WriteDoneStored
  BY DEF StoreInv, Sound, WriteDoneStored
<1> QED BY <1>1, StoreInductive, PTL

\* A READ that is reported done returns the flash's parameters, both halves of
\* one write, also where an answer to a handshake was taken for the pointer's.
THEOREM ReadsWhole == Spec => []ReadDoneWhole
<1>1. StoreInv => ReadDoneWhole
  BY DEF StoreInv, Sound, ReadDoneWhole
<1> QED BY <1>1, StoreInductive, PTL

\* A dump that is reported done is the flash, packet for packet, but for a
\* first packet that was requested with answers to handshakes under way.
THEOREM DumpsExact == Spec => []DumpDoneExact
<1>1. StoreInv => DumpDoneExact
  BY DEF StoreInv, Sound, DumpDoneExact
<1> QED BY <1>1, StoreInductive, PTL

\* An operation that nothing disturbs succeeds, whatever state of the board
\* earlier ones have left, except for a READ of a store that is incomplete.
THEOREM CalmOperationsSucceed == Spec => []CalmSucceeds
<1>1. StoreInv => CalmSucceeds
  BY DEF StoreInv, Sound, CalmSucceeds
<1> QED BY <1>1, StoreInductive, PTL

\* A dump never changes the flash; a READ changes only that of a board without
\* a pointer, unless answers to handshakes were under way when it asked for it.
THEOREM ReadingLeavesFlash == Spec => ReadLeavesFlash
<1> DEFINE Reads == kind = "dump" \/ (kind = "read" /\ had \in Stores /\ ~crossed /\ ~overtaken)
<1>1. ASSUME StoreInv, [Next]_vars, Reads PROVE flash' = flash
  <2>1. CASE Send
    <3>1. /\ stage \in Requests /\ Shape
          /\ (Obey(Request) /\ Reply(Data(Request))) \/ Unheard
      BY <1>1, <2>1 DEF Send, Served, StoreInv
    <3>2. stage \in {"getStore", "read0", "read1", "packet"}
      <4>1. CASE kind = "dump"
        BY <3>1, <4>1 DEF Shape
      <4>2. CASE kind = "read" /\ had \in Stores /\ ~crossed /\ ~overtaken
        <5>1. had # Erased /\ Sound
          BY <1>1, <4>2, Told DEF StoreInv
        <5> QED BY <3>1, <4>2, <5>1
                DEF Sound, StageShape, SeemsBlank, Requests, WriteStages, InitStages
      <4> QED BY <1>1, <4>1, <4>2
    <3> QED BY <3>1, <3>2, ReadRequest DEF Obey, Unheard
  <2>2. CASE ~Send
    BY <1>1, <2>2 DEF Next, Worker, vars, Start, Handshake, Connected, ConnectTimeout,
         CancelOperation, Receive, Timeout, Finish, Restart, Arrive
  <2> QED BY <2>1, <2>2
<1>2. StoreInv /\ [Next]_vars => [Reads => flash' = flash]_vars
  BY <1>1
<1> QED BY <1>2, StoreInductive, PTL DEF Spec, ReadLeavesFlash

-----------------------------------------------------------------------------
(* Once connected, an operation comes nearer to its end with every step of *)
(* the worker.                                                             *)

\* The requests that may still be made, the present one included; and what is
\* left to the worker at most: a send and a wait for each try of each of them.
RequestsLeft ==
  CASE stage = "getStore" -> 8
    [] stage = "initErase" -> 7
    [] stage = "initWrite" -> 6
    [] stage = "erase" -> 5
    [] stage = "write0" -> 4
    [] stage = "write1" -> 3
    [] stage = "read0" -> 2
    [] stage = "read1" -> 1
    [] stage = "packet" -> 2 * NumStores + 2 - Len(got)
    [] OTHER -> 0
StepsLeft ==
  IF stage \in Requests
  THEN 2 * Retries * RequestsLeft - 2 * tries - (IF waiting THEN 1 ELSE 0)
  ELSE 0
MostSteps == 2 * Retries * (2 * NumStores + 6)

ComesNearer ==
  stage \in Requests =>
    /\ StepsLeft' <= StepsLeft
    /\ Worker => StepsLeft' < StepsLeft

\* Tries are fewer than a request has.
LEMMA TriesFit ==
  ASSUME NEW j \in Nat, NEW k \in Nat, j < k, NEW t \in 0 .. Retries - 1
  PROVE  /\ 2 * Retries * j \in Nat /\ 2 * Retries * k \in Nat
         /\ 2 * Retries * j + 2 * t + 1 < 2 * Retries * k
<1>1. Retries \in Nat \ {0}
  BY StoreAssumption
<1> DEFINE w == 2 * Retries
<1>2. w \in Nat /\ 2 * t + 1 < w
  BY <1>1
<1> HIDE DEF w
<1>3. w * j \in Nat /\ w * k \in Nat /\ w * (j + 1) = w * j + w
  BY <1>2
<1>4. w * (j + 1) <= w * k
  <2>1. k - (j + 1) \in Nat /\ k = (j + 1) + (k - (j + 1))
    OBVIOUS
  <2> DEFINE a == j + 1  b == k - (j + 1)
  <2>2. a \in Nat /\ b \in Nat /\ k = a + b
    BY <2>1
  <2> HIDE DEF a, b
  <2>3. w * (a + b) = w * a + w * b /\ w * a \in Nat /\ w * b \in Nat
    BY <1>2, <2>2
  <2>4. w * k = w * a + w * b
    BY <2>2, <2>3
  <2>5. w * a <= w * k
    BY <2>3, <2>4
  <2> QED BY <2>5 DEF a
<1>5. w * j + 2 * t + 1 < w * k
  BY <1>2, <1>3, <1>4
<1> QED BY <1>3, <1>5 DEF w

LEMMA RequestsAreLeft ==
  ASSUME Shape, stage \in Requests
  PROVE  /\ RequestsLeft \in Nat /\ RequestsLeft >= 1 /\ RequestsLeft <= 2 * NumStores + 6
         /\ tries \in 0 .. Retries - 1 /\ waiting \in BOOLEAN
<1>1. NumStores \in Nat \ {0} /\ tries \in 0 .. Retries - 1 /\ waiting \in BOOLEAN
  BY StoreAssumption DEF Shape, TypeOK
<1>2. CASE stage = "packet"
  <2>1. Len(got) \in Nat /\ Len(got) <= 2 * NumStores + 1
    BY <1>2 DEF Shape
  <2>2. RequestsLeft = 2 * NumStores + 2 - Len(got)
    BY <1>2 DEF RequestsLeft
  <2> QED BY <1>1, <2>1, <2>2
<1>3. CASE stage # "packet"
  <2>1. RequestsLeft \in 1 .. 8
    BY <1>3 DEF RequestsLeft, Requests
  <2> QED BY <1>1, <2>1
<1> QED BY <1>2, <1>3

\* A request that is over leaves fewer.
LEMMA FewerAfter ==
  ASSUME Shape, stage \in Requests, (\E d : Succeed(d)) \/ (\E r : Fail(r)),
         waiting' = FALSE, tries' = 0
  PROVE  StepsLeft' \in Int /\ StepsLeft' < 2 * Retries * RequestsLeft - 2 * tries - 1
<1>1. /\ RequestsLeft \in Nat /\ RequestsLeft >= 1 /\ tries \in 0 .. Retries - 1
      /\ Retries \in Nat /\ NumStores \in Nat
  BY RequestsAreLeft, StoreAssumption
<1>2. \/ stage' = "publish"
      \/ stage' \in Requests /\ RequestsLeft' \in Nat /\ RequestsLeft' < RequestsLeft
  <2>1. ASSUME NEW r, Fail(r)
        PROVE  \/ stage' = "publish"
               \/ stage = "getStore" /\ stage' = "initErase"
    BY <2>1 DEF Fail, Initialises, Publish
  <2>2. ASSUME stage = "getStore", stage' = "initErase"
        PROVE  stage' \in Requests /\ RequestsLeft' \in Nat /\ RequestsLeft' < RequestsLeft
    BY <2>2 DEF RequestsLeft, Requests
  <2>3. ASSUME NEW d, Succeed(d), stage = "packet"
        PROVE  \/ stage' = "publish"
               \/ stage' = "packet" /\ got' = Append(got, d)
    BY <2>3 DEF Succeed, Collect, Publish
  <2>4. ASSUME NEW d, stage = "packet", stage' = "packet", got' = Append(got, d)
        PROVE  stage' \in Requests /\ RequestsLeft' \in Nat /\ RequestsLeft' < RequestsLeft
    <3>1. Len(got) \in Nat /\ got \in Seq(Content \cup {Payload}) /\ Len(got) <= 2 * NumStores + 1
      BY <2>4 DEF Shape
    <3>2. Len(got') = Len(got) + 1
      BY <2>4, <3>1
    <3>3. /\ RequestsLeft = 2 * NumStores + 2 - Len(got)
          /\ RequestsLeft' = 2 * NumStores + 2 - Len(got')
      BY <2>4 DEF RequestsLeft
    <3> QED BY <1>1, <2>4, <3>1, <3>2, <3>3 DEF Requests
  <2>5. ASSUME NEW d, Succeed(d), stage # "packet"
        PROVE  \/ stage' = "publish"
               \/ stage = "getStore" /\ stage' \in {"read0", "erase"}
               \/ stage = "initErase" /\ stage' = "initWrite"
               \/ stage = "initWrite" /\ stage' = "erase"
               \/ stage = "erase" /\ stage' = "write0"
               \/ stage = "write0" /\ stage' = "write1"
               \/ stage = "write1" /\ stage' = "read0"
               \/ stage = "read0" /\ stage' = "read1"
    BY <2>5 DEF Succeed, AfterPointer, Publish
  <2>6. ASSUME NEW d, Succeed(d), stage # "packet", stage' # "publish"
        PROVE  stage' \in Requests /\ RequestsLeft' \in Nat /\ RequestsLeft' < RequestsLeft
    BY <2>5, <2>6 DEF RequestsLeft, Requests
  <2>7. ASSUME NEW d, Succeed(d), stage' # "publish"
        PROVE  stage' \in Requests /\ RequestsLeft' \in Nat /\ RequestsLeft' < RequestsLeft
    BY <2>3, <2>4, <2>6, <2>7
  <2>8. ASSUME NEW r, Fail(r), stage' # "publish"
        PROVE  stage' \in Requests /\ RequestsLeft' \in Nat /\ RequestsLeft' < RequestsLeft
    BY <2>1, <2>2, <2>8
  <2> QED BY <2>7, <2>8
<1>3. CASE stage' = "publish"
  <2>1. StepsLeft' = 0
    BY <1>3 DEF StepsLeft, Requests
  <2>2. 2 * Retries * 0 + 2 * tries + 1 < 2 * Retries * RequestsLeft /\ 2 * Retries * RequestsLeft \in Nat
    BY <1>1, TriesFit
  <2> QED BY <1>1, <2>1, <2>2
<1>4. CASE stage' \in Requests /\ RequestsLeft' \in Nat /\ RequestsLeft' < RequestsLeft
  <2>1. StepsLeft' = 2 * Retries * RequestsLeft' - 2 * 0 - 0
    BY <1>4 DEF StepsLeft
  <2>2. /\ 2 * Retries * RequestsLeft' + 2 * tries + 1 < 2 * Retries * RequestsLeft
        /\ 2 * Retries * RequestsLeft' \in Nat /\ 2 * Retries * RequestsLeft \in Nat
    BY <1>1, <1>4, TriesFit
  <2> QED BY <1>1, <2>1, <2>2
<1> QED BY <1>2, <1>3, <1>4

LEMMA StepsLeftIs ==
  ASSUME Shape
  PROVE  /\ StepsLeft \in Nat /\ StepsLeft <= MostSteps
         /\ stage \in Requests => StepsLeft >= 1
<1>1. Retries \in Nat \ {0} /\ NumStores \in Nat \ {0}
  BY StoreAssumption
<1> DEFINE m == 2 * NumStores + 6
<1>2. 2 * Retries * m \in Nat /\ MostSteps = 2 * Retries * m /\ m \in Nat
  BY <1>1 DEF MostSteps
<1>3. CASE stage \notin Requests
  BY <1>2, <1>3 DEF StepsLeft
<1>4. CASE stage \in Requests
  <2> DEFINE w == 2 * Retries
  <2>1. /\ RequestsLeft \in Nat /\ RequestsLeft >= 1 /\ RequestsLeft <= m
        /\ tries \in 0 .. Retries - 1 /\ waiting \in BOOLEAN
    BY <1>4, RequestsAreLeft
  <2>2. w * RequestsLeft - 2 * tries - 1 > 0 /\ w * RequestsLeft \in Nat
    <3>1. w * 0 + 2 * tries + 1 < w * RequestsLeft /\ w * RequestsLeft \in Nat
      BY <2>1, TriesFit
    <3> QED BY <1>1, <2>1, <3>1
  <2>3. w * RequestsLeft <= w * m
    <3>1. CASE RequestsLeft = m
      BY <1>1, <1>2, <3>1
    <3>2. CASE RequestsLeft < m
      <4>1. /\ w * RequestsLeft + 2 * 0 + 1 < w * m
            /\ w * RequestsLeft \in Nat /\ w * m \in Nat /\ 0 \in 0 .. Retries - 1
        BY <1>1, <1>2, <2>1, <3>2, TriesFit
      <4> QED BY <4>1
    <3> QED BY <1>2, <2>1, <3>1, <3>2
  <2>4. StepsLeft = w * RequestsLeft - 2 * tries - (IF waiting THEN 1 ELSE 0)
    BY <1>4 DEF StepsLeft
  <2> HIDE DEF w
  <2> DEFINE x == w * RequestsLeft  y == w * m
  <2>5. StepsLeft \in Nat /\ StepsLeft <= y /\ StepsLeft >= 1
    <3>1. /\ x \in Nat /\ y \in Nat /\ x <= y /\ x - 2 * tries - 1 > 0
          /\ StepsLeft = x - 2 * tries - (IF waiting THEN 1 ELSE 0)
      BY <1>2, <2>2, <2>3, <2>4 DEF w
    <3>2. tries \in Nat /\ waiting \in BOOLEAN
      BY <1>1, <2>1
    <3> HIDE DEF x, y
    <3> QED BY <3>1, <3>2
  <2> QED BY <1>2, <2>5 DEF w
<1> QED BY <1>3, <1>4

LEMMA NearerStep == ASSUME Shape, [Next]_vars PROVE ComesNearer
<1> SUFFICES ASSUME stage \in Requests
             PROVE  StepsLeft' <= StepsLeft /\ (Worker => StepsLeft' < StepsLeft)
  BY DEF ComesNearer
<1>1. StepsLeft \in Nat /\ StepsLeft >= 1
  BY StepsLeftIs
<1> DEFINE Less == StepsLeft' \in Int /\ StepsLeft' < StepsLeft
<1>2. /\ RequestsLeft \in Nat /\ RequestsLeft >= 1 /\ tries \in 0 .. Retries - 1
      /\ waiting \in BOOLEAN /\ Retries \in Nat /\ 2 * Retries * RequestsLeft \in Nat
  BY RequestsAreLeft, StoreAssumption
<1>3. StepsLeft = 2 * Retries * RequestsLeft - 2 * tries - (IF waiting THEN 1 ELSE 0)
  BY DEF StepsLeft
<1>4. ASSUME UNCHANGED <<stage, got, tries, waiting>> PROVE StepsLeft' = StepsLeft
  BY <1>4 DEF StepsLeft, RequestsLeft
<1>5. ASSUME Send PROVE Less
  <2>1. stage' = stage /\ got' = got /\ tries' = tries /\ waiting = FALSE /\ waiting' = TRUE
    BY <1>5, <1>2 DEF Send
  <2>2. StepsLeft' = 2 * Retries * RequestsLeft - 2 * tries - 1
    BY <2>1 DEF StepsLeft, RequestsLeft
  <2> QED BY <1>2, <1>3, <2>1, <2>2
<1>6. ASSUME Receive PROVE Less
  <2>1. /\ waiting = TRUE /\ waiting' = FALSE /\ tries' = 0
        /\ (\E d : Succeed(d)) \/ (\E r : Fail(r))
    BY <1>2, <1>6 DEF Receive
  <2>2. StepsLeft' \in Int /\ StepsLeft' < 2 * Retries * RequestsLeft - 2 * tries - 1
    BY <2>1, FewerAfter
  <2> QED BY <1>3, <2>1, <2>2
<1>7. ASSUME Timeout PROVE Less
  <2>1. waiting = TRUE /\ waiting' = FALSE
    BY <1>2, <1>7 DEF Timeout
  <2>2. CASE MoreTries
    <3>1. stage' = stage /\ got' = got /\ tries' = tries + 1
      BY <1>7, <2>2 DEF Timeout, NextTry
    <3>2. StepsLeft' = 2 * Retries * RequestsLeft - 2 * (tries + 1) - 0
      BY <2>1, <3>1 DEF StepsLeft, RequestsLeft
    <3> QED BY <1>2, <1>3, <2>1, <3>2
  <2>3. CASE ~MoreTries
    <3>1. tries' = 0 /\ Fail(NoAnswer)
      BY <1>7, <2>3 DEF Timeout
    <3>2. StepsLeft' \in Int /\ StepsLeft' < 2 * Retries * RequestsLeft - 2 * tries - 1
      BY <2>1, <3>1, FewerAfter
    <3> QED BY <1>3, <2>1, <3>2
  <2> QED BY <2>2, <2>3
<1>8. ASSUME stage' \notin Requests PROVE Less
  BY <1>1, <1>8 DEF StepsLeft
<1>9. ASSUME CancelOperation PROVE stage' \notin Requests
  BY <1>9 DEF CancelOperation, Publish, Requests
<1>10. ASSUME Restart PROVE stage' \notin Requests
  BY <1>10 DEF Restart, Requests
<1>11. ASSUME Arrive \/ UNCHANGED vars PROVE UNCHANGED <<stage, got, tries, waiting>>
  BY <1>11 DEF Arrive, vars
<1>12. ~Handshake /\ ~Connected /\ ~ConnectTimeout /\ ~Finish
  BY DEF Handshake, Connected, ConnectTimeout, Finish, Requests
<1>13. ~(\E k \in Kinds, v \in Blocks \X Blocks : Start(k, v))
  BY DEF Start, Requests
<1>14. Worker => Less
  BY <1>5, <1>6, <1>7, <1>8, <1>9, <1>12 DEF Worker
<1>15. StepsLeft' <= StepsLeft
  BY <1>1, <1>4, <1>8, <1>10, <1>11, <1>13, <1>14 DEF Next
<1> QED BY <1>14, <1>15

\* The work that is left is a number no larger than MostSteps, and once the
\* board is connected every step of the worker, a send, an answer, a timeout or
\* a cancel (flash_operate, flash_dump_read_packet), makes it smaller and
\* nothing makes it larger: why ConnectedEnds holds for every number of stores
\* and retries, whatever is lost, late or garbled.
THEOREM WorkIsBounded == Spec => [](StepsLeft \in 0 .. MostSteps) /\ [][ComesNearer]_vars
<1>1. Shape => StepsLeft \in 0 .. MostSteps
  <2> SUFFICES ASSUME Shape PROVE StepsLeft \in 0 .. MostSteps
    OBVIOUS
  <2>1. MostSteps \in Nat
    BY StoreAssumption DEF MostSteps
  <2> QED BY <2>1, StepsLeftIs
<1>2. Shape /\ [Next]_vars => [ComesNearer]_vars
  BY NearerStep
<1> QED BY <1>1, <1>2, ShapeInductive, PTL DEF Spec
=============================================================================
