------------------------------ MODULE DumpPage ------------------------------
(***************************************************************************)
(* The admin page's flash dump view (admin_flash_dump.js) and the buttons  *)
(* it shares with the parameter page (admin_core.js): the image that was   *)
(* fetched, the page of it that is drawn, and which buttons are enabled.   *)
(*                                                                         *)
(* Handlers run one at a time.  The buttons are enabled and disabled where *)
(* the code calls for it and not whenever something changes that they      *)
(* depend on.  How a run starts, asks and ends is PageOperation's; here it *)
(* ends in one way or another.                                             *)
(***************************************************************************)
EXTENDS Integers, FiniteSetsExt

CONSTANTS
  TotalBytes,  \* FLASH_DUMP_TOTAL_BYTES: 524288
  PageBytes,   \* FLASH_DUMP_PAGE_BYTES: 1024
  RowBytes,    \* FLASH_DUMP_ROW_BYTES: 74
  Inputs,      \* what is typed into the page field; no number is taken as -1
  MaxRuns      \* bound: dumps started

\* What the numbers of the firmware satisfy.
DumpAssumption ==
  /\ {TotalBytes, PageBytes, RowBytes} \subseteq Nat \ {0} /\ TotalBytes % PageBytes = 0
  /\ Inputs \subseteq Int /\ MaxRuns \in Nat

VARIABLES
  selected,   \* whether a BIN file is selected
  paramBusy,  \* a readback or a download runs
  dumpBusy,   \* flashDumpBusy
  image,      \* flashDumpBuffer and flashDumpBytes: the run it came from, 0: none
  index,      \* flashDumpPageIndex
  field,      \* the page field
  drawn,      \* the cells in the view: of which image and which page
  enabled,    \* the enabled buttons
  runs        \* dumps started

vars == <<selected, paramBusy, dumpBusy, image, index, field, drawn, enabled, runs>>
-----------------------------------------------------------------------------
PageCount == TotalBytes \div PageBytes
RowsPerPage == (PageBytes + RowBytes - 1) \div RowBytes

\* clampFlashDumpPage.
Clamp(page) == IF page < 0 THEN 0 ELSE Min({page, PageCount - 1})

\* renderFlashDumpPage: the bytes of the image that the cells of a page show.
Shown(page) ==
  UNION {LET rowOffset == page * PageBytes + row * RowBytes
             rowEnd == Min({RowBytes, TotalBytes - rowOffset})
         IN {rowOffset + col : col \in 0 .. rowEnd - 1} : row \in 0 .. RowsPerPage - 1}

\* setFlashDumpPageInfo: the range the page is said to have.
Announced(page) == page * PageBytes .. page * PageBytes + PageBytes - 1

Buttons == {"param", "start", "export", "query", "prev", "next"}
Nothing == [image |-> 0, page |-> 0]

\* updateParamButtons.
ParamButtons == IF paramBusy \/ dumpBusy \/ ~selected THEN {} ELSE {"param"}
\* updateFlashDumpButtons.
DumpButtons ==
  LET canQuery == image # 0 /\ ~dumpBusy IN
  (IF dumpBusy \/ paramBusy THEN {} ELSE {"start"})
  \cup (IF canQuery THEN {"export", "query"} ELSE {})
  \cup (IF canQuery /\ index > 0 THEN {"prev"} ELSE {})
  \cup (IF canQuery /\ index < PageCount - 1 THEN {"next"} ELSE {})

\* setParamBusy, setFlashDumpBusy.
UpdateBoth == enabled' = ParamButtons' \cup DumpButtons'
\* updateFlashDumpButtons alone.
UpdateDump == enabled' = (enabled \cap {"param"}) \cup DumpButtons'

Init ==
  /\ selected = FALSE /\ paramBusy = FALSE /\ dumpBusy = FALSE
  /\ image = 0 /\ index = 0 /\ field = 0 /\ drawn = Nothing
  /\ enabled = {"start"} /\ runs = 0

dumpVars == <<dumpBusy, image, index, field, drawn, runs>>
-----------------------------------------------------------------------------
(* The parameter page.                                                      *)

\* selectBin, parseSelected.
Select ==
  /\ selected' = TRUE
  /\ UNCHANGED <<dumpVars, paramBusy>>
  /\ IF paramBusy THEN UNCHANGED enabled ELSE UpdateBoth

\* loadFiles, deleteFileByPath: the selected file is gone.
Deselect ==
  /\ selected /\ selected' = FALSE
  /\ UNCHANGED <<dumpVars, paramBusy, enabled>>

\* actReadback, actDownload.
ActParam ==
  /\ "param" \in enabled /\ selected
  /\ paramBusy' = TRUE
  /\ UNCHANGED <<dumpVars, selected>> /\ UpdateBoth
ParamEnds ==
  /\ paramBusy /\ paramBusy' = FALSE
  /\ UNCHANGED <<dumpVars, selected>> /\ UpdateBoth

-----------------------------------------------------------------------------
(* The dump page.                                                           *)

\* actFlashDump, with resetFlashDumpView.
Start ==
  /\ "start" \in enabled /\ ~dumpBusy /\ runs < MaxRuns
  /\ image' = 0 /\ index' = 0 /\ field' = 0 /\ drawn' = Nothing
  /\ dumpBusy' = TRUE /\ runs' = runs + 1
  /\ UNCHANGED <<selected, paramBusy>> /\ UpdateBoth

\* It is canceled or fails, or the image has not the length of a dump.
Fails ==
  /\ dumpBusy /\ dumpBusy' = FALSE
  /\ UNCHANGED <<selected, paramBusy, image, index, field, drawn, runs>> /\ UpdateBoth

\* renderFlashDumpPage and what else the handler changes.
Render(page, i) ==
  /\ index' = Clamp(page) /\ field' = index'
  /\ drawn' = [image |-> i, page |-> index']

\* fetchFlashDumpData, renderFlashDumpData and the finally.
Fetched ==
  /\ dumpBusy /\ dumpBusy' = FALSE
  /\ image' = runs /\ Render(0, runs)
  /\ UNCHANGED <<selected, paramBusy, runs>> /\ UpdateBoth

\* The field is disabled and enabled with the query button.
TypePage(v) ==
  /\ "query" \in enabled
  /\ field' = v
  /\ UNCHANGED <<selected, paramBusy, dumpBusy, image, index, drawn, enabled, runs>>

\* A button, and renderFlashDumpPage, which ends with updateFlashDumpButtons.
Turn(button, page) ==
  /\ button \in enabled /\ image # 0
  /\ Render(page, image)
  /\ UNCHANGED <<selected, paramBusy, dumpBusy, image, runs>> /\ UpdateDump
Query == Turn("query", field)
Next1 == Turn("next", index + 1)
Prev1 == Turn("prev", index - 1)

Next ==
  \/ Select \/ Deselect \/ ActParam \/ ParamEnds
  \/ Start \/ Fails \/ Fetched
  \/ \E v \in Inputs : TypePage(v)
  \/ Query \/ Next1 \/ Prev1

Spec == Init /\ [][Next]_vars
-----------------------------------------------------------------------------
(* Properties.                                                              *)

TypeOK ==
  /\ selected \in BOOLEAN /\ paramBusy \in BOOLEAN /\ dumpBusy \in BOOLEAN
  /\ image \in 0 .. runs /\ runs \in 0 .. MaxRuns
  /\ index \in 0 .. PageCount - 1 /\ field \in Inputs \cup (0 .. PageCount - 1)
  /\ drawn \in [image : 0 .. runs, page : 0 .. PageCount - 1]
  /\ enabled \subseteq Buttons

\* The page never has a readback or download and a dump at once: the board
\* serves one, and only disabled buttons keep the two apart (actFlashDump does
\* not look at paramBusy, actReadback and actDownload at neither flag).
OneRun == ~(paramBusy /\ dumpBusy)

\* A button that may be pressed is not left disabled by an update that was not
\* made: whenever nothing runs, everything the page has can be used.
NothingLeftDisabled ==
  ~paramBusy /\ ~dumpBusy => ParamButtons \cup DumpButtons \subseteq enabled

\* What is drawn is the page at the index of the image that an export saves;
\* while a run is on and after one that failed, no older image is left.
ViewOfImage ==
  /\ drawn = IF image = 0 THEN Nothing ELSE [image |-> image, page |-> index]
  /\ image # 0 => image = runs /\ ~dumpBusy

\* Every byte of the range announced for a page is on it, and no cell lies
\* beyond the end of the image: the last row of the last page is cut.
RangeShown ==
  image # 0 => Announced(index) \subseteq Shown(index) /\ Shown(index) \subseteq 0 .. TotalBytes - 1

\* The buttons for the next and the previous page go exactly one page on.
TurnsOnePage == [][(Next1 => index' = index + 1) /\ (Prev1 => index' = index - 1)]_vars
=============================================================================
