----------------------------- MODULE ParamPage ------------------------------
(***************************************************************************)
(* The parameter page of the admin (admin_param_config.js, admin_files.js) *)
(* with what the server does for it (app_web_param_bin_api.c,              *)
(* app_web_param_api.c): the list of BIN files, the table of each path,    *)
(* the selection, and the run of a readback or of a download, which reads  *)
(* back, asks for a confirmation and writes.  Files are replaced and       *)
(* deleted and the board is written by others between any two steps; the   *)
(* selection and the values change while answers are awaited.              *)
(*                                                                         *)
(* How an operation waits for the board and is canceled is PageOperation's *)
(* and ParamBoard's: here it runs, and a run may end at any time.  A       *)
(* request for the list or for a file is handled where it is sent; only    *)
(* its answer is late.                                                     *)
(***************************************************************************)
EXTENDS ParamValue, FiniteSets

CONSTANTS
  Paths,       \* the paths BIN files are stored under
  Contents,    \* what they may contain, parsed
  First,       \* the contents of the files at the start
  Inputs,      \* numbers typed into the fields
  OtherTicks,  \* what others write to the board
  MaxRuns,     \* bound: readbacks and downloads
  MaxEdits,    \* bound: values typed, defaults filled in
  MaxChanges   \* bound: changes of the files and of the board by others

None == "none"    \* no file, no selection
NoFile == [a \in {} |-> [default |-> 0, visible |-> FALSE]]
NoValues == [a \in {} |-> 0]

ASSUME PageAssumption ==
  /\ Addresses # {} /\ None \notin Paths
  /\ Contents \subseteq Parsed /\ First \in [Paths -> Contents \cup {NoFile}]
  /\ Inputs \subseteq Int /\ OtherTicks \subseteq [Addresses -> Ticks]
  /\ MaxRuns \in Nat /\ MaxEdits \in Nat /\ MaxChanges \in Nat

VARIABLES
  files,     \* the stored files
  board,     \* the board's parameters (NoValues: never initialised)
  op,        \* the service's operation
  list,      \* binFiles
  selected,  \* selected
  tables,    \* boardParamStates
  parses,    \* answers of /api/bin/parse on their way
  lists,     \* answers of /files on their way
  deletes,   \* paths of the files deleted whose answers are on their way
  flow,      \* the run of actReadback or actDownload
  used       \* what of the bounds is used up

vars == <<files, board, op, list, selected, tables, parses, lists, deletes, flow, used>>
server == <<files, board, op>>
page == <<list, selected, tables, parses, lists, deletes>>

-----------------------------------------------------------------------------
Stored == {p \in Paths : files[p] # NoFile}

\* A state object of boardParamStates: of tells which object it is, from
\* (history) the file it was parsed from and origins whose values it was given.
NoTable(gen) == [gen |-> gen, parsed |-> FALSE, params |-> NoValues, defaults |-> NoValues,
                 from |-> NoFile, origins |-> {}]

\* The operation the page started, and history: the file it was started with.
NoOp == [kind |-> "none", state |-> "done", mine |-> FALSE, ticks |-> NoValues, file |-> NoFile]
Running == op.state = "running"

Stages == {"no", "read", "reading", "readAnswer", "confirm", "write", "writing", "refused"}
\* readback is the answer shown in the dialog; history: what the board held,
\* whether others wrote to it since, what was confirmed, the file the table was
\* parsed from and the file as it was when the server last looked.
NoFlow == [stage |-> "no", kind |-> "none", path |-> None, gen |-> 0, payload |-> NoValues,
           readback |-> NoValues, held |-> NoValues, foreign |-> FALSE,
           confirmed |-> NoValues, from |-> NoFile, file |-> NoFile]

Init ==
  /\ files = First /\ board = NoValues /\ op = NoOp
  /\ list = {} /\ selected = None
  /\ tables = [p \in Paths |-> NoTable(0)]
  /\ parses = {} /\ lists = {Stored} /\ deletes = {} /\ flow = NoFlow
  /\ used = [runs |-> 0, edits |-> 0, changes |-> 0]

Use(bound, max) == used[bound] < max /\ used' = [used EXCEPT ![bound] = @ + 1]

-----------------------------------------------------------------------------
(* The list, the selection and the tables.                                  *)

\* selectBin and switchPage, with the parseSelected of a path that has no table yet.
Select(p, t) ==
  /\ selected' = p
  /\ parses' = IF p # None /\ ~t[p].parsed
               THEN parses \cup {[path |-> p, file |-> files[p]]} ELSE parses

Choose(p) ==
  /\ p \in list /\ Select(p, tables)
  /\ UNCHANGED <<server, list, tables, lists, deletes, flow, used>>

AskFiles ==
  /\ lists' = lists \cup {Stored}
  /\ UNCHANGED <<server, list, selected, tables, parses, deletes, flow, used>>

\* loadFiles: a selection that is gone is replaced by the first of the list,
\* unless the admin shows another page; switchPage then makes up for it.
ReceiveFiles(l) ==
  /\ l \in lists /\ lists' = lists \ {l} /\ list' = l
  /\ IF selected \in l \/ l = {}
     THEN selected' = (IF selected \in l THEN selected ELSE None) /\ UNCHANGED parses
     ELSE (\E p \in l : Select(p, tables)) \/ (selected' = None /\ UNCHANGED parses)
  /\ UNCHANGED <<server, tables, deletes, flow, used>>

\* The n-th of a set of addresses, in the order of the file.
Index(a, S) == Cardinality({b \in S : b < a})

\* parseSelected: values are kept by address, else by name (taken to go with
\* the address), else by position.
Carried(old, a, file) ==
  LET same == {b \in DOMAIN old : b = a}
      there == {b \in DOMAIN old : Index(b, DOMAIN old) = Index(a, Visible(file))}
      kept == IF same # {} THEN same ELSE there
  IN IF \E b \in kept : old[b] # Blank
     THEN old[CHOOSE b \in kept : TRUE] ELSE file[a].default

ReceiveParse(r) ==
  /\ r \in parses /\ parses' = parses \ {r}
  /\ IF r.file = NoFile THEN UNCHANGED tables
     ELSE tables' = [tables EXCEPT ![r.path] =
            [gen |-> @.gen, parsed |-> TRUE, from |-> r.file, origins |-> @.origins \cup {r.path},
             params |-> [a \in Visible(r.file) |-> Carried(@.params, a, r.file)],
             defaults |-> [a \in Visible(r.file) |-> r.file[a].default]]]
  /\ UNCHANGED <<server, list, selected, lists, deletes, flow, used>>

\* The parameters of the selected path are given values.
Fill(params) ==
  /\ selected # None
  /\ tables' = [tables EXCEPT ![selected].params = params,
                              ![selected].origins = @ \cup {selected}]
  /\ Use("edits", MaxEdits)
  /\ UNCHANGED <<server, list, selected, parses, lists, deletes, flow>>

Type(a, v) ==
  /\ selected # None /\ a \in DOMAIN tables[selected].params
  /\ Fill([tables[selected].params EXCEPT ![a] = v])
Input(a) == \E v \in {Clamp(n) : n \in Inputs} \cup {Blank} : Type(a, v)
ActDefault == selected # None /\ Fill(tables[selected].defaults)

\* deleteFileByPath: delete_handler removes the file.
Delete(p) ==
  /\ p \in list /\ files[p] # NoFile /\ Use("changes", MaxChanges)
  /\ files' = [files EXCEPT ![p] = NoFile]
  /\ deletes' = deletes \cup {p}
  /\ UNCHANGED <<board, op, list, selected, tables, parses, lists, flow>>

\* When it has answered, the state object goes too; loadFiles follows.
Deleted(p) ==
  /\ p \in deletes /\ deletes' = deletes \ {p}
  /\ tables' = [tables EXCEPT ![p] = NoTable(@.gen + 1)]
  /\ selected' = (IF selected = p THEN None ELSE selected)
  /\ lists' = lists \cup {Stored}
  /\ UNCHANGED <<server, list, parses, flow, used>>

(* Others.                                                                  *)

Change(p, f) ==
  /\ files[p] # f /\ Use("changes", MaxChanges)
  /\ files' = [files EXCEPT ![p] = f]
  /\ UNCHANGED <<board, op, page, flow>>

\* Another page's operation replaces the last one.
OtherWrite(ticks) ==
  /\ ~Running /\ Use("changes", MaxChanges)
  /\ board' = ticks
  /\ op' = [NoOp EXCEPT !.kind = "write"]
  /\ flow' = [flow EXCEPT !.foreign = TRUE]
  /\ UNCHANGED <<files, page>>

-----------------------------------------------------------------------------
(* A run.                                                                   *)

At(stage) == flow.stage = stage

Run(kind, payload) ==
  /\ At("no") /\ selected # None /\ Use("runs", MaxRuns)
  /\ flow' = [NoFlow EXCEPT !.stage = "read", !.kind = kind, !.path = selected,
                            !.gen = tables[selected].gen, !.from = tables[selected].from,
                            !.payload = payload]
  /\ UNCHANGED <<server, page>>
ActReadback == Run("readback", NoValues)
\* The values are collected before the readback.
ActDownload ==
  /\ selected # None /\ Collectable(tables[selected].params)
  /\ Run("download", tables[selected].params)

\* A request is refused, an answer lost, the operation canceled or failed.
Fail == ~At("no") /\ flow' = NoFlow /\ UNCHANGED <<server, page, used>>

Launch(kind, values, file) ==
  op' = [kind |-> kind, state |-> "running", mine |-> TRUE, ticks |-> ToTicks(values),
         file |-> file]

\* param_readback_handler; refused if the service is busy, Fail.
HandleRead ==
  /\ At("read") /\ ~Running
  /\ LET file == files[flow.path] IN
     IF file = NoFile \/ ~AllConvertible(Defaults(file))
     THEN flow' = [flow EXCEPT !.stage = "refused", !.file = file] /\ UNCHANGED op
     ELSE /\ flow' = [flow EXCEPT !.stage = "reading"]
          /\ Launch("read", Defaults(file), file)
  /\ UNCHANGED <<files, board, page, used>>

\* run_read_operation: a board that was never initialised gets the defaults, and
\* so may one whose pointer was misread (ParamStore!ReadbackReads).
Initialised == board' \in {op.ticks} \cup ({board} \ {NoValues})

\* (Variant: the answer is what the operation was started with.)
WorkerReadDefaults ==
  /\ Running /\ op.kind = "read"
  /\ Initialised
  /\ op' = [op EXCEPT !.state = "done"]
  /\ flow' = [flow EXCEPT !.held = board', !.foreign = FALSE]
  /\ UNCHANGED <<files, page, used>>
WorkerRead ==
  /\ Running /\ op.kind = "read"
  /\ Initialised
  /\ op' = [op EXCEPT !.state = "done", !.ticks = board']
  /\ flow' = [flow EXCEPT !.held = board', !.foreign = FALSE]
  /\ UNCHANGED <<files, page, used>>

\* param_status_handler parses the file again for the addresses it may show.
HandleStatus ==
  /\ At("reading") /\ ~Running /\ op.mine /\ files[flow.path] # NoFile
  /\ flow' = [flow EXCEPT !.stage = "readAnswer", !.file = files[flow.path],
                          !.readback = Shown(op.ticks, files[flow.path])]
  /\ UNCHANGED <<server, page, used>>

\* The read values reach the state object the run was started with; if that
\* was deleted since, nobody sees it.
TakeOver(p) ==
  tables' = IF tables[p].gen # flow.gen THEN tables
            ELSE [tables EXCEPT ![p].params =
                    [a \in DOMAIN @ |-> IF a \in DOMAIN flow.readback THEN flow.readback[a]
                                        ELSE @[a]],
                  ![p].origins = @ \cup {flow.path}]

\* (Variant: the values go into whatever table is open.)
TakesCurrent ==
  IF flow.kind = "readback"
  THEN (IF selected = None THEN UNCHANGED tables ELSE TakeOver(selected)) /\ flow' = NoFlow
  ELSE UNCHANGED tables /\ flow' = [flow EXCEPT !.stage = "confirm"]
Takes ==
  IF selected # flow.path THEN UNCHANGED tables /\ flow' = NoFlow
  ELSE IF flow.kind = "readback" THEN TakeOver(flow.path) /\ flow' = NoFlow
  ELSE UNCHANGED tables /\ flow' = [flow EXCEPT !.stage = "confirm"]

ReceiveRead ==
  /\ At("readAnswer") /\ Takes
  /\ UNCHANGED <<server, list, selected, parses, lists, deletes, used>>

Confirm ==
  /\ At("confirm")
  /\ flow' = [flow EXCEPT !.stage = "write", !.confirmed = flow.payload]
  /\ UNCHANGED <<server, page, used>>

\* What the download request carries.
\* (Variant: the values are collected again when they are sent.)
SentAgain == tables[flow.path].params
Sent == flow.payload

\* param_download_handler.
HandleWrite ==
  /\ At("write") /\ ~Running
  /\ LET file == files[flow.path] IN
     IF file = NoFile \/ ~Parses(Sent, file) \/ ~AllConvertible(Merged(Sent, file))
     THEN flow' = [flow EXCEPT !.stage = "refused", !.file = file] /\ UNCHANGED op
     ELSE /\ flow' = [flow EXCEPT !.stage = "writing", !.file = file]
          /\ Launch("write", Merged(Sent, file), file)
  /\ UNCHANGED <<files, board, page, used>>

WorkerWrite ==
  /\ Running /\ op.kind = "write"
  /\ board' = op.ticks
  /\ op' = [op EXCEPT !.state = "done"]
  /\ UNCHANGED <<files, flow, page, used>>

\* A write that fails may have written, or have left a board on which every
\* readback fails until the next write; a readback that fails may have
\* initialised the board.
WorkerFails ==
  /\ Running /\ op' = NoOp
  /\ board' \in {board, op.ticks}
  /\ UNCHANGED <<files, flow, page, used>>

Finish ==
  /\ At("writing") /\ ~Running /\ op.mine
  /\ flow' = NoFlow
  /\ UNCHANGED <<server, page, used>>

Next ==
  \/ \E p \in Paths : Choose(p) \/ Delete(p) \/ Deleted(p) \/ \E f \in Contents \cup {NoFile} : Change(p, f)
  \/ \E r \in parses : ReceiveParse(r)
  \/ \E l \in lists : ReceiveFiles(l)
  \/ \E a \in Addresses : Input(a)
  \/ \E t \in OtherTicks : OtherWrite(t)
  \/ AskFiles \/ ActDefault \/ ActReadback \/ ActDownload \/ Fail
  \/ HandleRead \/ WorkerRead \/ HandleStatus \/ ReceiveRead \/ Confirm
  \/ HandleWrite \/ WorkerWrite \/ WorkerFails \/ Finish

Spec == Init /\ [][Next]_vars
-----------------------------------------------------------------------------
(* Properties.                                                              *)

\* Numbers for some of the addresses, and fields, which may be blank.
IsText(v) == \E S \in SUBSET Addresses : v \in [S -> Nat]
IsFields(v) == \E S \in SUBSET Addresses : v \in [S -> Nat \cup {Blank}]
MaybeFile == Contents \cup {NoFile}
Boards == [Addresses -> Ticks] \cup {NoValues}

ServerType ==
  /\ files \in [Paths -> MaybeFile] /\ board \in Boards
  /\ op \in [kind : {"none", "read", "write"}, state : {"done", "running"}, mine : BOOLEAN,
             ticks : Boards, file : MaybeFile]
TableType(t) ==
  /\ t \in [gen : Nat, parsed : BOOLEAN, params : {t.params}, defaults : {t.defaults},
            from : MaybeFile, origins : SUBSET Paths]
  /\ IsFields(t.params) /\ IsText(t.defaults)
PageType ==
  /\ list \subseteq Paths /\ selected \in Paths \cup {None}
  /\ tables = [p \in Paths |-> tables[p]] /\ \A p \in Paths : TableType(tables[p])
  /\ parses \subseteq [path : Paths, file : MaybeFile] /\ lists \subseteq SUBSET Paths
  /\ deletes \subseteq Paths
FlowType ==
  /\ flow \in [stage : Stages, kind : {"none", "readback", "download"},
               path : Paths \cup {None}, gen : Nat, payload : {flow.payload},
               readback : {flow.readback}, held : Boards, foreign : BOOLEAN,
               confirmed : {flow.confirmed}, from : MaybeFile, file : MaybeFile]
  /\ IsText(flow.payload) /\ IsText(flow.readback) /\ IsText(flow.confirmed)
TypeOK ==
  ServerType /\ PageType /\ FlowType /\ used \in [runs : Nat, edits : Nat, changes : Nat]

\* A table holds values of its own path only: of its file, typed into it, or
\* read back for it, whatever is selected when an answer comes.
ValuesOfOwnPath == \A p \in Paths : tables[p].origins \subseteq {p}

\* What a download writes is, for the parameters its file shows, what was
\* confirmed in the dialog, and for the others the file's defaults.
WrittenAsConfirmed ==
  At("writing") /\ op.mine =>
    \A a \in Addresses :
      IF op.file[a].visible
      THEN a \in DOMAIN flow.confirmed /\ ToNs(op.ticks[a]) = flow.confirmed[a]
      ELSE ToNs(op.ticks[a]) = op.file[a].default

\* The dialog lists every change: unless others wrote in between, a parameter
\* of the page that it does not list keeps its value on the board.
ChangesListed ==
  [][WorkerWrite /\ At("writing") /\ ~flow.foreign =>
       \A a \in DOMAIN flow.confirmed \ Diffs(flow.readback, flow.confirmed) :
          board'[a] = board[a]]_vars

\* After a readback the table shows what the board held, if the file is the
\* one the table was parsed from.
ReadbackShown ==
  [][ReceiveRead /\ flow.kind = "readback" /\ selected = flow.path =>
       LET t == tables'[flow.path] IN
         t.gen = flow.gen /\ t.from = flow.file =>
           \A a \in DOMAIN t.params : t.params[a] = ToNs(flow.held[a])]_vars

\* The page's checks and the server's are the same: a confirmed download is
\* refused only for a file that is not the one the table was parsed from, that
\* shows no parameter, or that has a default the board cannot hold.
RefusedOnlyIfChanged ==
  At("refused") /\ flow.confirmed # NoValues =>
    flow.file # flow.from \/ ~AllConvertible(Defaults(flow.file))

\* A table is empty until it is parsed, and then has the parameters its file shows.
TableInv(t) ==
  /\ DOMAIN t.defaults = DOMAIN t.params
  /\ IF t.parsed THEN t.from \in Contents /\ DOMAIN t.params = Visible(t.from)
     ELSE t.from = NoFile /\ t.params = NoValues

\* What a run has collected and had confirmed at each of its stages.
FlowInv ==
  /\ At("no") \/ flow.path \in Paths
  /\ flow.payload # NoValues =>
       /\ flow.from \in Contents /\ DOMAIN flow.payload = Visible(flow.from)
       /\ AllConvertible(flow.payload)
  /\ flow.stage \in {"read", "reading", "readAnswer", "confirm"} => flow.confirmed = NoValues
  /\ flow.stage \in {"write", "writing"} => flow.confirmed = flow.payload

\* What the operation of a run has been started with.
OpInv ==
  /\ Running => op.mine
  /\ op.mine => op.ticks # NoValues
  /\ At("writing") /\ op.mine =>
       /\ op.kind = "write" /\ op.file \in Contents
       /\ Parses(flow.payload, op.file) /\ AllConvertible(Merged(flow.payload, op.file))
       /\ op.ticks = ToTicks(Merged(flow.payload, op.file))

\* The board holds what the run's readback found on it until others write or
\* the run's own write ends, and the answer is that.
HeldInv ==
  LET read == At("reading") /\ op.mine /\ ~Running
      before == flow.stage \in {"readAnswer", "confirm", "write"}
  IN /\ At("reading") /\ Running => op.kind = "read"
     /\ before => ~Running
     /\ read => op.ticks = flow.held
     /\ read \/ before \/ (At("writing") /\ Running) => flow.foreign \/ board = flow.held
     /\ before \/ At("writing") =>
          /\ flow.held # NoValues
          /\ \A a \in DOMAIN flow.readback : flow.readback[a] = ToNs(flow.held[a])
     /\ At("readAnswer") => flow.file \in Contents /\ DOMAIN flow.readback = Visible(flow.file)

\* The tables, the run, its operation and the board belong together: what the
\* promises about a readback and a download rest on.
PageInv == (\A p \in Paths : TableInv(tables[p])) /\ FlowInv /\ OpInv /\ HeldInv
=============================================================================
