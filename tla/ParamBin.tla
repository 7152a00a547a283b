------------------------------ MODULE ParamBin ------------------------------
(***************************************************************************)
(* A BIN file from the PC tool that writes it to the firmware that reads   *)
(* it: validator.rs, payload_codec.rs and bin_format.rs on one side,       *)
(* app_param_bin.c on the other, each with a decoder of its own.           *)
(*                                                                         *)
(* The payload is laid out byte by byte, since what can go wrong is in its *)
(* offsets and lengths.  A character is the sequence of its UTF-8 bytes, a *)
(* name a sequence of characters, and a u32 the pair of its 16-bit halves. *)
(* AES-GCM is external: a seal is that of one header and one payload.      *)
(***************************************************************************)
EXTENDS Integers, Sequences, SequencesExt

CONSTANTS
  Count,       \* PARAM_COUNT: 72
  NameChars,   \* NAME_MAX_CHARS: 20
  NameBytes,   \* NAME_MAX_BYTES, APP_PARAM_BIN_NAME_MAX_BYTES: 96
  BoardChars,  \* BOARD_NAME_MAX_CHARS: 32
  BoardBytes,  \* BOARD_NAME_MAX_BYTES: 96
  MaxFile,     \* PARAM_BIN_MAX_FILE_SIZE: 128 KiB
  Space,       \* a blank character
  Projects,    \* what the user may have entered: [board, params]
  OtherBytes   \* bytes that a damaged or a foreign file may hold instead

\* Offsets and lengths are written as u16 (validate_parameters bounds each name).
ASSUME LayoutAssumption ==
  /\ {Count, NameChars, NameBytes, BoardChars, BoardBytes, MaxFile} \subseteq Nat
  /\ Count * NameBytes < 65536 /\ BoardBytes < 65536 /\ Count < 256
  /\ OtherBytes \subseteq 0 .. 255

VARIABLES
  bin,      \* the file on the device: NoFile or [head, body, seal, size]
  source,   \* the project it is an unchanged export of, or NoProject
  parsed,   \* what the firmware made of it
  listed    \* what the PC tool made of it

binVars == <<bin, source, parsed, listed>>

NoFile == [size |-> 0]
NoProject == [board |-> <<>>, params |-> <<>>]
Unasked == [took |-> FALSE, why |-> "unasked"]
Refused == [took |-> FALSE, why |-> "refused"]
NoMemory == [took |-> FALSE, why |-> "no memory"]
Took(board, params) == [took |-> TRUE, board |-> board, params |-> params]

(* The layout.                                                              *)

HeaderSize == 17
TagLen == 16
PayloadHeaderLen == 20
RecordSize == 12
Schema == 3
Magic == <<85, 80, 76, 68>>     \* "UPLD"
Header(nonce) == [magic |-> "UEPB", version |-> 1, nonce |-> nonce]

U16(n) == <<n % 256, (n \div 256) % 256>>
\* Byte i of a buffer, counted from 0: Outside, where the buffer has ended.
Outside == -1
Byte(b, i) == IF i < Len(b) THEN b[i + 1] ELSE Outside
Le16(b, i) == Byte(b, i) + 256 * Byte(b, i + 1)
Bytes(b, at, len) == [i \in 1 .. len |-> Byte(b, at + i - 1)]

Utf8(name) == FlattenSeq(name)
Trimmed(name) ==
  LET ink == {i \in DOMAIN name : name[i] # Space}
  IN  IF ink = {} THEN <<>>
      ELSE SubSeq(name, CHOOSE i \in ink : \A j \in ink : i <= j,
                        CHOOSE i \in ink : \A j \in ink : j <= i)

TypeByte == [control |-> 0, protection |-> 1]
PermissionByte == [hidden |-> 0, visible |-> 1]

\* A file of the largest payload is no larger than the device allows.
ASSUME RoomAssumption ==
  HeaderSize + PayloadHeaderLen + Count * RecordSize + BoardBytes + Count * NameBytes + TagLen
    <= MaxFile

(* The PC tool writes.                                                      *)

\* How many bytes a character has, by its first byte.
Width(byte) ==
  CASE byte \in 0 .. 127 -> 1
    [] byte \in 194 .. 223 -> 2
    [] byte \in 224 .. 239 -> 3
    [] byte \in 240 .. 244 -> 4
    [] OTHER -> 0
\* A byte of a character after the first.
IsTail(byte) == byte \in 128 .. 191
\* A character, as its bytes.
Char == {c \in Seq(0 .. 255) :
           c # <<>> /\ Width(c[1]) = Len(c) /\ \A i \in 2 .. Len(c) : IsTail(c[i])}
\* The two halves of a u32.
Word == {n \in Nat : n < 65536}
\* model.rs: Parameter.
Parameter ==
  [address : 0 .. 255, name : Seq(Char), default : Word \X Word,
   type : DOMAIN TypeByte, permission : DOMAIN PermissionByte]

ASSUME ProjectsAssumption == Projects \subseteq [board : Seq(Char), params : Seq(Parameter)]

\* validate_parameters: no error is reported.
Valid(params) ==
  /\ Len(params) = Count
  /\ {params[i].address : i \in DOMAIN params} = 0 .. Count - 1
  /\ \A i \in DOMAIN params :
       /\ Trimmed(params[i].name) # <<>>
       /\ Len(params[i].name) <= NameChars
       /\ Len(Utf8(params[i].name)) <= NameBytes

\* (Variant: the bytes are not counted.)
ValidBoardChars(board) == Trimmed(board) # <<>> /\ Len(Trimmed(board)) <= BoardChars
\* validate_board_name.
ValidBoard(board) ==
  /\ Trimmed(board) # <<>>
  /\ Len(Trimmed(board)) <= BoardChars
  /\ Len(Utf8(Trimmed(board))) <= BoardBytes

Table(params) == FlattenSeq([i \in DOMAIN params |-> Utf8(params[i].name)])
\* (Variant: characters are counted, not bytes.)
OffsetInChars(params, i) == Len(FlattenSeq([j \in 1 .. i - 1 |-> params[j].name]))
Offset(params, i) == Len(Table(SubSeq(params, 1, i - 1)))
Record(params, i) ==
  LET p == params[i]
  IN  <<p.address, TypeByte[p.type], PermissionByte[p.permission], 0>>
      \o U16(p.default[1]) \o U16(p.default[2])
      \o U16(Offset(params, i)) \o U16(Len(Utf8(p.name)))

\* encode_payload.
Encoded(project) ==
  LET board == Utf8(Trimmed(project.board))
      table == Table(project.params)
  IN  Magic \o U16(Schema) \o <<Count, RecordSize>>
      \o U16(Len(board)) \o U16(Len(table)) \o [i \in 1 .. 8 |-> 0]
      \o FlattenSeq([i \in DOMAIN project.params |-> Record(project.params, i)])
      \o board \o table

\* build_header, export_encrypted_bin_bytes: the header is authenticated too.
Sealed(head, body) ==
  [head |-> head, body |-> body, seal |-> <<head, body>>,
   size |-> HeaderSize + Len(body) + TagLen]

(* Where the parts of a payload are.                                        *)

BoardLen(b) == Le16(b, 8)
TableLen(b) == Le16(b, 10)
BoardAt == PayloadHeaderLen + Count * RecordSize
TableAt(b) == BoardAt + BoardLen(b)
RecordAt(i) == PayloadHeaderLen + (i - 1) * RecordSize
NameAt(b, i) == Le16(b, RecordAt(i) + 8)
NameLen(b, i) == Le16(b, RecordAt(i) + 10)
Decoded(b, i, name) ==
  [address |-> Byte(b, RecordAt(i)), name |-> name,
   default |-> <<Le16(b, RecordAt(i) + 4), Le16(b, RecordAt(i) + 6)>>,
   type |-> Byte(b, RecordAt(i) + 1), permission |-> Byte(b, RecordAt(i) + 2)]
NameField(b, i) == Bytes(b, TableAt(b) + NameAt(b, i), NameLen(b, i))
BinContent(b) ==
  Took(Bytes(b, BoardAt, BoardLen(b)), [i \in 1 .. Count |-> Decoded(b, i, NameField(b, i))])

(* The firmware reads.                                                      *)

\* aes_gcm_decrypt_payload: whose key it was, and whether all is as it was.
Authentic(f) ==
  /\ f.head.magic = "UEPB"
  /\ f.head.version = 1
  /\ f.seal = <<f.head, f.body>>

\* decode_payload: each address may come once.
\* (Variant: the addresses seen before are not kept.)
UniqueAny(b) == \A i \in 1 .. Count : Byte(b, RecordAt(i)) < Count
Unique(b) ==
  \A i \in 1 .. Count :
    /\ Byte(b, RecordAt(i)) < Count
    /\ \A j \in 1 .. i - 1 : Byte(b, RecordAt(j)) # Byte(b, RecordAt(i))

\* decode_payload: the payload holds all that its header announces.
Complete(b) == Len(b) >= TableAt(b) + TableLen(b)

\* decode_payload, in its order: what is accepted.
Takes(b) ==
  /\ Len(b) >= PayloadHeaderLen
  /\ SubSeq(b, 1, 4) = Magic
  /\ Le16(b, 4) = Schema
  /\ Byte(b, 6) = Count
  /\ Byte(b, 7) = RecordSize
  /\ BoardLen(b) \in 1 .. BoardBytes
  /\ Complete(b)
  /\ Unique(b)
  /\ \A i \in 1 .. Count :
       /\ Byte(b, RecordAt(i) + 1) <= 1
       /\ Byte(b, RecordAt(i) + 2) \in {0, 1}
       /\ NameAt(b, i) + NameLen(b, i) <= TableLen(b)
       /\ NameLen(b, i) <= NameBytes

\* read_whole_file and app_param_bin_parse_file.
ParseFile(f) ==
  IF f.size \in HeaderSize + TagLen .. MaxFile /\ Authentic(f) /\ Takes(f.body)
  THEN BinContent(f.body) ELSE Refused

(* The PC tool reads.                                                       *)

\* str::from_utf8, as far as the first byte of a character tells.
IsUtf8(s) ==
  \A i \in DOMAIN s :
    \/ IsTail(s[i]) /\ \E k \in 1 .. 3 : i > k /\ Width(s[i - k]) > k
                                        /\ \A j \in i - k + 1 .. i : IsTail(s[j])
    \/ Width(s[i]) > 0 /\ \A j \in i + 1 .. i + Width(s[i]) - 1 :
                            j <= Len(s) /\ IsTail(s[j])

\* payload_codec::decode_payload.
ToolTakes(b) ==
  /\ Len(b) >= PayloadHeaderLen
  /\ SubSeq(b, 1, 4) = Magic
  /\ <<Le16(b, 4), Byte(b, 6), Byte(b, 7)>> = <<Schema, Count, RecordSize>>
  /\ BoardLen(b) # 0 /\ BoardLen(b) <= BoardBytes
  /\ Len(b) >= TableAt(b) + TableLen(b)
  /\ IsUtf8(Bytes(b, BoardAt, BoardLen(b)))
  /\ {Byte(b, RecordAt(i)) : i \in 1 .. Count} = 0 .. Count - 1
  /\ \A i \in 1 .. Count :
       /\ Byte(b, RecordAt(i) + 1) \in {0, 1}
       /\ Byte(b, RecordAt(i) + 2) \in {0, 1}
       /\ NameAt(b, i) + NameLen(b, i) <= TableLen(b)
       /\ IsUtf8(NameField(b, i))

\* parse_encrypted_bin_bytes, parse_header.
ToolParse(f) ==
  IF /\ f.size >= HeaderSize + TagLen
     /\ Authentic(f)
     /\ ToolTakes(f.body)
  THEN BinContent(f.body) ELSE Refused

(* What can happen.                                                         *)

BinInit == bin = NoFile /\ source = NoProject /\ parsed = Unasked /\ listed = Unasked

NewFile(f, p) == bin' = f /\ source' = p /\ parsed' = Unasked /\ listed' = Unasked

\* A project is exported and the file brought to the device.
Export(p, nonce) ==
  /\ Valid(p.params) /\ ValidBoard(p.board)
  /\ NewFile(Sealed(Header(nonce), Encoded(p)), p)

\* A byte of the file changes on its way, or its end is lost.
DamageHead(head) ==
  /\ source # NoProject /\ head # bin.head
  /\ NewFile([bin EXCEPT !.head = head], NoProject)
DamageBody(i, byte) ==
  /\ source # NoProject /\ byte # bin.body[i]
  /\ NewFile([bin EXCEPT !.body[i] = byte], NoProject)
Cut(size) ==
  /\ source # NoProject /\ size < bin.size
  /\ NewFile([head |-> bin.head, body |-> SubSeq(bin.body, 1, size - HeaderSize - TagLen),
              seal |-> <<>>, size |-> size], NoProject)

\* A tool with another layout, or another version, wrote the file.
Foreign(body) == source # NoProject /\ body # bin.body
                 /\ NewFile(Sealed(bin.head, body), NoProject)
OtherLayout(i, byte) == Foreign([bin.body EXCEPT ![i] = byte])
OtherLength(len) ==
  Foreign(IF len <= Len(bin.body) THEN SubSeq(bin.body, 1, len) ELSE Append(bin.body, 0))

\* The firmware parses the file, or has no memory for it; the tool opens it.
Parse == bin # NoFile /\ parsed' = ParseFile(bin) /\ UNCHANGED <<bin, source, listed>>
ParseNoMemory == bin # NoFile /\ parsed' = NoMemory /\ UNCHANGED <<bin, source, listed>>
OpenBin == bin # NoFile /\ listed' = ToolParse(bin) /\ UNCHANGED <<bin, source, parsed>>

BinNext ==
  \/ \E p \in Projects : \E nonce \in {1, 2} : Export(p, nonce)
  \/ \E head \in [magic : {"UEPB", "other"}, version : {1, 2}, nonce : {1, 2}] : DamageHead(head)
  \/ source # NoProject /\ \E i \in DOMAIN bin.body : \E byte \in OtherBytes :
       DamageBody(i, byte) \/ OtherLayout(i, byte)
  \/ source # NoProject /\ \E size \in 0 .. bin.size - 1 : Cut(size)
  \/ source # NoProject /\ \E len \in 0 .. Len(bin.body) + 1 : OtherLength(len)
  \/ Parse \/ ParseNoMemory \/ OpenBin

BinSpec == BinInit /\ [][BinNext]_binVars

(* Properties.                                                              *)

\* What a decoder has to make of a project: the names as bytes.
Meaning(p) ==
  Took(Utf8(Trimmed(p.board)),
       [i \in DOMAIN p.params |->
          [address |-> p.params[i].address, name |-> Utf8(p.params[i].name),
           default |-> p.params[i].default, type |-> TypeByte[p.params[i].type],
           permission |-> PermissionByte[p.params[i].permission]]])

\* What the tool exports, the firmware takes (memory permitting) and understands
\* as it was meant, and so does the tool itself.
ExportUnderstood ==
  source # NoProject =>
    /\ parsed \in {Unasked, NoMemory, Meaning(source)}
    /\ listed \in {Unasked, Meaning(source)}

\* The two decoders agree on every file: where one refuses what the other takes,
\* the firmware found a name longer than its buffer, or the tool found a text
\* that is not UTF-8, which the firmware does not look at.
DecodersAgree ==
  parsed \notin {Unasked, NoMemory} /\ listed # Unasked =>
    \/ parsed = listed
    \/ /\ listed.took /\ parsed = Refused
       /\ \/ bin.size > MaxFile
          \/ \E i \in 1 .. Count : Len(listed.params[i].name) > NameBytes
    \/ /\ parsed.took /\ listed = Refused
       /\ \/ ~IsUtf8(parsed.board)
          \/ \E i \in 1 .. Count : ~IsUtf8(parsed.params[i].name)
=============================================================================
