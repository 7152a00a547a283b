----------------------------- MODULE MCBinFiles -----------------------------
(***************************************************************************)
(* The way of a BIN file in one instance: its storing (FileStore), its     *)
(* contents (ParamBin) and its name (FileNames).  The three share no       *)
(* variable and no property is about two of them, so each runs with the    *)
(* other two at rest in an initial state: all of its own behaviours.       *)
(*                                                                         *)
(* The contents are of two parameters, with limits small enough to be      *)
(* passed by two or three characters of one to four bytes.  The names meet *)
(* the buffers at their real sizes: latin is a run of 241 plain bytes, the *)
(* hans are of Chinese characters, 3 bytes each and 9 when escaped.        *)
(***************************************************************************)
EXTENDS FileStore, ParamBin, FileNames

A == <<97>>                       \* one byte
Zhong == <<228, 184, 173>>        \* three
Smile == <<240, 159, 152, 128>>   \* four
Blank == <<32>>

Param(address, name, default, type, permission) ==
  [address |-> address, name |-> name, default |-> default, type |-> type,
   permission |-> permission]
First(name) == Param(0, name, <<65535, 1>>, "control", "visible")
Second(name) == Param(1, name, <<0, 258>>, "protection", "hidden")

\* Names of every width, in both orders, and names or boards that are too long,
\* blank, padded, or whose addresses are not each once.
MCProjects ==
  {[board |-> <<A>>, params |-> <<First(<<A>>), Second(<<Zhong, Smile>>)>>],
   [board |-> <<Blank, Zhong, A, Blank>>, params |-> <<Second(<<Smile, Smile>>), First(<<Blank, A>>)>>],
   [board |-> <<Zhong, Zhong, Zhong>>, params |-> <<First(<<Zhong>>), Second(<<A>>)>>],
   [board |-> <<Smile, Smile, Smile>>, params |-> <<First(<<A>>), Second(<<A>>)>>],
   [board |-> <<A, A, A, A>>, params |-> <<First(<<A>>), Second(<<A>>)>>],
   [board |-> <<Blank>>, params |-> <<First(<<A>>), Second(<<A>>)>>],
   [board |-> <<A>>, params |-> <<First(<<A>>), Second(<<Blank>>)>>],
   [board |-> <<A>>, params |-> <<First(<<A, A, A>>), Second(<<A>>)>>],
   [board |-> <<A>>, params |-> <<First(<<A>>), First(<<Zhong>>)>>],
   [board |-> <<A>>, params |-> <<First(<<A>>)>>]}

\* Small numbers, the length limits and past them, and each kind of UTF-8 byte.
MCOtherBytes == 0 .. 3 \cup {8, 9, 10, 12, 97, 128, 173, 228, 240, 255}

Small == {"a", "%", "2", "5", "F", "+", " ", "/", ".", ":", "&"}
MCHexDigits == {"0", "2", "3", "5", "6", "a", "A", "B", "F"}
MCHex == [c \in {"%", " ", "/", "&", ":", "+"} |->
  CASE c = "%" -> <<"2", "5">> [] c = " " -> <<"2", "0">> [] c = "/" -> <<"2", "F">>
    [] c = "&" -> <<"2", "6">> [] c = ":" -> <<"3", "A">> [] c = "+" -> <<"2", "B">>]
MCEscaped == [r \in {"han32", "han33", "han34"} |->
  CASE r = "han32" -> "%han32" [] r = "han33" -> "%han33" [] r = "han34" -> "%han34"]
MCWidth == [c \in Small \cup MCHexDigits \cup {".bin", "other", "latin"} \cup DOMAIN MCEscaped
              \cup {"%han32", "%han33", "%han34"} |->
  CASE c \in Small \cup MCHexDigits \cup {"other"} -> 1 [] c = ".bin" -> 4 [] c = "latin" -> 241
    [] c = "han32" -> 96 [] c = "han33" -> 99 [] c = "han34" -> 102
    [] c = "%han32" -> 288 [] c = "%han33" -> 297 [] c = "%han34" -> 306]

Stems ==
  {<<>>, <<"%", "2", "5">>, <<"%", "2", "F">>, <<"%", "%", "%">>}
    \cup [1 .. 1 -> Small] \cup [1 .. 2 -> {"a", "%", "+", " ", "."}]
MCNames ==
  {s \o <<".bin">> : s \in Stems}
    \cup {s \o <<r, ".bin">> : s \in {<<>>, <<"a">>, <<"%", "%">>, <<"%", "%", "%">>},
                              r \in {"latin", "han32", "han33", "han34"}}

AtRest == Init /\ \A n \in Names : file[n] = Absent
BinFilesVars == <<vars, binVars, namesVars>>

BinFilesInit == Init /\ BinInit /\ NamesInit
BinFilesNext ==
  \/ BinInit /\ NamesInit /\ Next /\ UNCHANGED <<binVars, namesVars>>
  \/ AtRest /\ NamesInit /\ BinNext /\ UNCHANGED <<vars, namesVars>>
  \/ AtRest /\ BinInit /\ NamesNext /\ UNCHANGED <<vars, binVars>>

BinFilesSpec ==
  /\ BinFilesInit /\ [][BinFilesNext]_BinFilesVars
  /\ \A t \in Tasks : WF_vars(Step(t)) /\ SF_vars(Lock(t))
=============================================================================
