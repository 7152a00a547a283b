----------------------------- MODULE FileNames ------------------------------
(***************************************************************************)
(* The way of a file's name: from the user's disk into a request, out of   *)
(* it onto the device (upload_handler), into the listing                   *)
(* (list_dir_entries), and from there into the requests that are about the *)
(* file (app_web_common.c, and the pages that build them).                 *)
(*                                                                         *)
(* A text is a sequence of characters; some of them stand for a run of     *)
(* several, so that the buffers' real sizes are met by short sequences.    *)
(***************************************************************************)
EXTENDS Integers, Sequences, FiniteSets, SequencesExt

CONSTANTS
  UserNames,   \* the names of the files a user may upload
  CharWidth,   \* [characters -> their bytes]
  Hex,         \* [characters the pages escape -> their two hexadecimal digits]
  Escaped,     \* [runs the pages escape -> the run of their escapes]
  HexDigits,   \* the characters that are hexadecimal digits
  BadChars,    \* what valid_upload_name refuses besides has_bad_path_chars
  MaxPath,     \* APP_WEB_MAX_PATH: 320
  FormBuf,     \* APP_WEB_PARAM_FORM_BUF_SIZE: 1536
  MaxLfn,      \* CONFIG_FATFS_MAX_LFN: 255
  MountSize,   \* the length of "/disk"
  IdSize,      \* how many digits an operation's id has
  ValuesSize,  \* the most that the text of the values takes, escaped
  MaxFiles     \* how many files are on the device (a bound)

\* What a name is made of.
Chars == DOMAIN CharWidth \ {Escaped[r] : r \in DOMAIN Escaped}

\* What encodeURIComponent and the firmware's limits satisfy: no character is
\* written as another one, the separators are escaped, an escape is of three
\* bytes, and a form has room for any path beside the values.
NamesAssumption ==
  /\ UserNames \subseteq Seq(Chars)
  /\ {MaxPath, FormBuf, MaxLfn, MountSize, IdSize, ValuesSize} \subseteq Nat
  /\ CharWidth \in [DOMAIN CharWidth -> Nat]
  /\ \A c \in HexDigits \cup {"%", "/", "+"} : c \in DOMAIN CharWidth /\ CharWidth[c] = 1
  /\ {"%", "/", "+", "&", " "} \subseteq DOMAIN Hex /\ "&" \notin HexDigits /\ "/" \in BadChars
  /\ Hex \in [DOMAIN Hex -> HexDigits \X HexDigits]
  /\ \A c, d \in DOMAIN Hex : Hex[c] = Hex[d] => c = d
  /\ DOMAIN Escaped \cap DOMAIN Hex = {}
  /\ Escaped \in [DOMAIN Escaped -> DOMAIN CharWidth \ DOMAIN Hex]
  /\ \A r, s \in DOMAIN Escaped : Escaped[r] = Escaped[s] => r = s
  /\ 5 + 8 + ValuesSize + MaxPath <= FormBuf
ASSUME NamesHold == NamesAssumption

VARIABLES
  disk,    \* the names in the file system's root
  shown,   \* the paths the page has been given
  asked    \* the last request: what it was for, and what the server made of it

namesVars == <<disk, shown, asked>>

Rejected == <<"refused">>
RequestKinds == {"parse", "status", "readback", "download", "delete"}

ByteLen(text) ==
  LET upTo[i \in 0 .. Len(text)] == IF i = 0 THEN 0 ELSE upTo[i - 1] + CharWidth[text[i]]
  IN  upTo[Len(text)]
Path(name) == <<"/">> \o name

(* The pages write.                                                         *)

\* encodeURIComponent; URLSearchParams also writes a space as a plus sign.
Encode(text) ==
  FlattenSeq([i \in DOMAIN text |->
    CASE text[i] \in DOMAIN Hex -> <<"%">> \o Hex[text[i]]
      [] text[i] \in DOMAIN Escaped -> <<Escaped[text[i]]>>
      [] OTHER -> <<text[i]>>])
FormEncode(text) ==
  FlattenSeq([i \in DOMAIN text |->
    IF text[i] = " " THEN <<"+">> ELSE Encode(<<text[i]>>)])

\* The length of what goes before and after the path in each request, the
\* buffer it is read into, and how the path is written.
Around(kind) ==
  CASE kind = "status" -> 3 + IdSize + 1 + 5   \* "id=", "&", "path="
    [] kind = "download" -> 5 + 8 + ValuesSize  \* "path=", "&values="
    [] OTHER -> 5
\* (Variant: the body of a download is read into a buffer for a path.)
BufferOfPath(kind) == IF kind = "readback" THEN FormBuf ELSE MaxPath
Buffer(kind) == IF kind \in {"readback", "download"} THEN FormBuf ELSE MaxPath
Written(kind, path) ==
  IF kind \in {"readback", "download"} THEN FormEncode(path) ELSE Encode(path)

(* The server reads.                                                        *)

\* httpd_req_get_url_query_str or read_form_body, and httpd_query_key_value:
\* the value goes to the next ampersand.
Value(text) ==
  LET ends == {i \in DOMAIN text : text[i] = "&"}
  IN  IF ends = {} THEN text
      ELSE SubSeq(text, 1, (CHOOSE i \in ends : \A j \in ends : i <= j) - 1)
Fits(kind, text) == Around(kind) + ByteLen(text) < Buffer(kind) /\ ByteLen(Value(text)) < MaxPath

IsEscape(text, i) ==
  /\ text[i] = "%"
  /\ i + 2 <= Len(text)
  /\ text[i + 1] \in HexDigits /\ text[i + 2] \in HexDigits
OfDigits(pair) ==
  IF \E c \in DOMAIN Hex : Hex[c] = pair THEN CHOOSE c \in DOMAIN Hex : Hex[c] = pair
  ELSE "other"
OfRun(c) ==
  IF \E r \in DOMAIN Escaped : Escaped[r] = c
  THEN CHOOSE r \in DOMAIN Escaped : Escaped[r] = c ELSE c

\* url_decode, from each place on.
\* (Variant: a plus sign stays one.)
DecodeNoPlus(text) ==
  LET from[i \in 1 .. Len(text) + 1] ==
        IF i > Len(text) THEN <<>>
        ELSE IF IsEscape(text, i) THEN <<OfDigits(<<text[i + 1], text[i + 2]>>)>> \o from[i + 3]
        ELSE <<OfRun(text[i])>> \o from[i + 1]
  IN  from[1]
Decode(text) ==
  LET from[i \in 1 .. Len(text) + 1] ==
        IF i > Len(text) THEN <<>>
        ELSE IF IsEscape(text, i) THEN <<OfDigits(<<text[i + 1], text[i + 2]>>)>> \o from[i + 3]
        ELSE IF text[i] = "+" THEN <<" ">> \o from[i + 1]
        ELSE <<OfRun(text[i])>> \o from[i + 1]
  IN  from[1]

\* has_bad_path_chars; ".bin" is one of the characters.
HasBadPathChars(text) ==
  \/ \E i \in 1 .. Len(text) - 1 : text[i] = "." /\ text[i + 1] \in {".", ".bin"}
  \/ \E i \in DOMAIN text : text[i] \in {"\\", ":"}

\* valid_upload_name.
ValidUploadName(name) ==
  /\ name # <<>>
  /\ ~HasBadPathChars(name)
  /\ \A i \in DOMAIN name : name[i] \notin BadChars

\* build_storage_path, without the root: the name under the mount point.
NoSlashes(text) ==
  LET rest == {i \in DOMAIN text : text[i] # "/"}
  IN  IF rest = {} THEN <<>>
      ELSE SubSeq(text, CHOOSE i \in rest : \A j \in rest : i <= j, Len(text))
StoragePath(value) ==
  LET name == NoSlashes(Decode(value))
  IN  IF /\ ByteLen(Decode(value)) < MaxPath
         /\ name # <<>>
         /\ ~HasBadPathChars(name)
         /\ MountSize + 1 + ByteLen(name) < MaxPath
      THEN name ELSE Rejected

(* What can happen.                                                         *)

NamesInit == disk = {} /\ shown = {} /\ asked = [kind |-> "none", of |-> <<>>, got |-> <<>>]

Ask(kind, of, got) == asked' = [kind |-> kind, of |-> of, got |-> got]

\* upload_handler: the name as it is decoded, with room for that of the
\* temporary file; the file system limits the length as well.
Stored(name) ==
  LET encoded == Encode(name)
      got == Decode(Value(encoded))
  IN  IF /\ 9 + ByteLen(encoded) < MaxPath         \* "filename="
         /\ ByteLen(got) < MaxPath
         /\ ValidUploadName(got)
         /\ MountSize + 1 + ByteLen(got) + 4 < MaxPath  \* ".tmp"
         /\ ByteLen(got) + 4 <= MaxLfn
      THEN got ELSE Rejected
UploadAs(name) ==
  /\ Ask("upload", name, Stored(name))
  /\ disk' = disk \cup ({Stored(name)} \ {Rejected})
  /\ UNCHANGED shown

\* list_dir_entries and the page's loadFiles.
Listable(name) ==
  /\ ~HasBadPathChars(name)
  /\ 1 + ByteLen(name) < MaxPath
  /\ MountSize + 1 + ByteLen(name) < MaxPath
List ==
  /\ shown' = {Path(name) : name \in {n \in disk : Listable(n)}}
  /\ Ask("list", <<>>, <<>>)
  /\ UNCHANGED disk

\* What the file's path becomes in a request of this kind.
Target(kind, path) ==
  LET text == Written(kind, path)
  IN  IF Fits(kind, text) THEN StoragePath(Value(text)) ELSE Rejected

\* A request about a listed file; the page's delete reloads the listing later.
RequestAbout(kind, path) ==
  /\ Ask(kind, Tail(path), Target(kind, path))
  /\ disk' = IF kind = "delete" THEN disk \ {Target(kind, path)} ELSE disk
  /\ UNCHANGED shown

NamesNext ==
  \/ \E name \in UserNames : Cardinality(disk) < MaxFiles /\ UploadAs(name)
  \/ List
  \/ \E kind \in RequestKinds : \E path \in shown : RequestAbout(kind, path)

NamesSpec == NamesInit /\ [][NamesNext]_namesVars

(* Properties.                                                              *)

\* What a name becomes on its way is that name, or the request is refused: no
\* request is about another file than the one it was made for.
NamesKept == asked.got \in {asked.of, Rejected}

\* A listed file can be parsed, read back, downloaded and deleted, since a name
\* that fits the request of its upload fits theirs; and it can be asked about
\* while an operation runs, unless the escaped path and the id beside it are
\* longer than the buffer get_query_value has for the query.
TooLongToPoll(name) == Around("status") + ByteLen(Encode(Path(name))) >= MaxPath
ListedFilesUsable ==
  asked.kind \in RequestKinds /\ asked.got = Rejected =>
    asked.kind = "status" /\ TooLongToPoll(asked.of)

\* What README.md:18 says of /api/param/readback and the pages rely on: for a
\* file that was listed an operation can be started and its values collected.
\* It fails for a long name, whose file is taken, listed and read back, but
\* whose path does not fit the status request that would bring the values.
EveryRequestServed == asked.kind \in RequestKinds => asked.got # Rejected
=============================================================================
