--------------------------- MODULE PageOperation ----------------------------
(***************************************************************************)
(* The web pages as clients of the operation service: the loop of          *)
(* runParamBoardOperation (admin_core.js and user_app.js), that of         *)
(* actFlashDump (admin_flash_dump.js) and the cancel button, with the      *)
(* handlers that start an operation, answer a status request and cancel    *)
(* (app_web_param_api.c, app_web_flash_dump_api.c).                        *)
(*                                                                         *)
(* A run of a page is one press of a button: it starts an operation, asks  *)
(* for its status until it ends and returns.  Every request travels on a   *)
(* connection of its own, so requests overtake each other; the one task of *)
(* the server handles each in one step.  The service is what ParamBoard    *)
(* shows of itself (BoardService): here with what a cancel does to it.     *)
(***************************************************************************)
EXTENDS Naturals, FiniteSets, FiniteSetsExt, Functions

CONSTANTS
  Pages,         \* the pages that are open
  StylesOf,      \* the kinds of run a page has: "admin" or "user" for
                 \* runParamBoardOperation, "dump" for actFlashDump
  RunsOf,        \* bound: runs of each page
  MaxRestarts,   \* bound: restarts of the ESP32
  Lossy          \* whether requests, answers and pages may be lost

Styles == {"admin", "user", "dump"}

\* Every page has a button that starts a run.
ASSUME PageAssumption ==
  /\ Pages # {} /\ IsFiniteSet(Pages)
  /\ StylesOf \in [Pages -> (SUBSET Styles) \ {{}}]
  /\ RunsOf \in [Pages -> Nat] /\ MaxRestarts \in Nat /\ Lossy \in BOOLEAN

VARIABLES
  op,         \* s_status, and history: the page and run it was started for
  nextId,     \* s_next_op_id
  canceling,  \* a cancel for the running operation is queued
  image,      \* the dump whose image is ready to be fetched
  page,       \* each page's run
  cancels,    \* cancel requests on their way
  pressed,    \* history: the runs whose cancel button was pressed, and when
  restarts,   \* restarts so far
  lost        \* history: something was lost, or the ESP32 restarted

vars == <<op, nextId, canceling, image, page, cancels, pressed, restarts, lost>>

-----------------------------------------------------------------------------
MaxRuns == Max(Range(RunsOf))
Runs == 0 .. MaxRuns
NoId == 0       \* ids do not wrap in so few runs
Nothing == "nothing"

\* "connecting" and "working" are two parts of the code's RUNNING.
OpStates == {"idle", "connecting", "working", "done", "failed", "canceled"}
Running == op.state \in {"connecting", "working"}
Idle == [id |-> NoId, kind |-> "none", state |-> "idle", page |-> Nothing, run |-> 0]

\* What a page awaits.
Waits == {"no", "start", "startAnswer", "status", "statusAnswer", "sleep", "cancel",
          "data", "dataAnswer"}
\* An answer: an id and the state of an operation, or an image, and history:
\* whose it is.
Answers == [id : Nat, state : OpStates \cup {"running", "refused", "image"},
            page : Pages \cup {Nothing}, run : Runs]
NoAnswer == [id |-> NoId, state |-> "refused", page |-> Nothing, run |-> 0]
Page == [awaits : Waits, style : Styles, run : Runs,
         canceled : BOOLEAN,       \* boardConnectCanceled
         id : Nat,     \* opId
         answer : Answers,
         outcome : {"none", "done", "failed", "canceled"},
         stale : BOOLEAN]          \* history: the ESP32 restarted during this run
Cancel == [page : Pages, run : Runs, again : BOOLEAN]

Init ==
  /\ op = Idle /\ nextId = 1 /\ canceling = FALSE /\ image = NoId
  /\ page = [p \in Pages |->
               [awaits |-> "no", style |-> CHOOSE s \in StylesOf[p] : TRUE, run |-> 0,
                canceled |-> FALSE, id |-> NoId, answer |-> NoAnswer, outcome |-> "none",
                stale |-> FALSE]]
  /\ cancels = {} /\ pressed = {} /\ restarts = 0 /\ lost = FALSE

-----------------------------------------------------------------------------
(* The page.                                                                *)

serviceVars == <<op, nextId, canceling, image, restarts, lost>>
Awaits(p, w) == page[p].awaits = w
Set(p, awaits, answer) == [page[p] EXCEPT !.awaits = awaits, !.answer = answer]

\* The run ends: finally clears boardConnectCanceled.
Return(p, outcome) ==
  page' = [page EXCEPT ![p].awaits = "no", ![p].canceled = FALSE, ![p].id = NoId,
                       ![p].answer = NoAnswer, ![p].outcome = outcome]
\* catch: an error of a canceled run is not reported.
Throw(p) == Return(p, IF page[p].canceled THEN "canceled" ELSE "failed")

\* A button is pressed; the buttons are disabled while the page has a run.
Start(p, style) ==
  /\ Awaits(p, "no") /\ page[p].run < RunsOf[p] /\ style \in StylesOf[p]
  /\ page' = [page EXCEPT ![p].awaits = "start", ![p].style = style, ![p].run = @ + 1,
                          ![p].canceled = FALSE, ![p].outcome = "none", ![p].stale = FALSE]
  /\ UNCHANGED <<serviceVars, cancels, pressed>>

ThisCancel(p, again) == [page |-> p, run |-> page[p].run, again |-> again]

\* The cancel button of the dialog, which is open during a run but not during
\* a dump.  The admin page closes it, the user page lets it be pressed again.
Press(p) ==
  /\ ~Awaits(p, "no") /\ page[p].style # "dump"
  /\ page[p].canceled => page[p].style = "user"
  /\ page' = [page EXCEPT ![p].canceled = TRUE]
  /\ cancels' = cancels \cup {ThisCancel(p, FALSE)}
  /\ pressed' = pressed \cup {[page |-> p, run |-> page[p].run, style |-> page[p].style,
                               started |-> page[p].awaits \notin {"start", "startAnswer"}]}
  /\ UNCHANGED serviceVars

AskStatus(p) == page' = [page EXCEPT ![p] = Set(p, "status", NoAnswer)]

\* The loop sends the cancel again and waits for its answer.
CancelAgain(p) ==
  /\ cancels' = cancels \cup {ThisCancel(p, TRUE)}
  /\ page' = [page EXCEPT ![p] = Set(p, "cancel", NoAnswer)]

\* The answer to the start: a run canceled meanwhile does not enter the loop,
\* and only the user page cancels again after it.
Started(p) ==
  /\ Awaits(p, "startAnswer")
  /\ LET a == page[p].answer IN
       \/ a.state = "refused" /\ Throw(p) /\ UNCHANGED cancels
       \/ /\ a.state # "refused"
          /\ IF ~page[p].canceled
             THEN /\ page' = [page EXCEPT ![p] = [Set(p, "status", NoAnswer) EXCEPT !.id = a.id]]
                  /\ UNCHANGED cancels
             ELSE IF page[p].style = "user" THEN CancelAgain(p)
             ELSE Return(p, "canceled") /\ UNCHANGED cancels
  /\ UNCHANGED <<serviceVars, pressed>>

\* The answer to a status request.  The admin page looks at its cancel flag
\* first, the user page at the state.
StatusIn(p) ==
  /\ Awaits(p, "statusAnswer")
  /\ LET a == page[p].answer IN
       CASE a.state = "refused"                          -> Throw(p)
         [] page[p].canceled /\ page[p].style = "admin" -> Return(p, "canceled")
         [] OTHER ->
              CASE a.state = "done" /\ page[p].style = "dump" ->
                         page' = [page EXCEPT ![p] = Set(p, "data", NoAnswer)]
                [] a.state = "done" /\ page[p].style # "dump" -> Return(p, "done")
                [] a.state = "canceled" -> Return(p, "canceled")
                [] a.state \in {"failed", "idle"} -> Throw(p)
                [] a.state = "running"  -> page' = [page EXCEPT ![p] = Set(p, "sleep", NoAnswer)]
  /\ UNCHANGED <<serviceVars, cancels, pressed>>

\* fetchFlashDumpData: the image is shown.
DataIn(p) ==
  /\ Awaits(p, "dataAnswer")
  /\ IF page[p].answer.state = "image" THEN Return(p, "done") ELSE Throw(p)
  /\ UNCHANGED <<serviceVars, cancels, pressed>>

\* (Variant: the page stops asking after a while.)
WakeGivesUp(p) ==
  /\ Awaits(p, "sleep")
  /\ \/ Return(p, "failed") /\ UNCHANGED cancels
     \/ IF page[p].canceled THEN CancelAgain(p) ELSE AskStatus(p) /\ UNCHANGED cancels
  /\ UNCHANGED <<serviceVars, pressed>>

\* (Variant: the flag is not looked at after the pause.)
WakeAsks(p) ==
  /\ Awaits(p, "sleep")
  /\ AskStatus(p) /\ UNCHANGED cancels
  /\ UNCHANGED <<serviceVars, pressed>>

Wake(p) ==
  /\ Awaits(p, "sleep")
  /\ IF page[p].canceled THEN CancelAgain(p) ELSE AskStatus(p) /\ UNCHANGED cancels
  /\ UNCHANGED <<serviceVars, pressed>>

CancelAnswered(p) ==
  /\ Awaits(p, "cancel") /\ ThisCancel(p, TRUE) \notin cancels
  /\ Return(p, "canceled")
  /\ UNCHANGED <<serviceVars, cancels, pressed>>

\* fetch throws, its request or answer being lost, or the page is reloaded.
Drop(p) ==
  /\ Lossy /\ ~Awaits(p, "no")
  /\ Throw(p)
  /\ lost' = TRUE
  /\ UNCHANGED <<op, nextId, canceling, image, cancels, pressed, restarts>>

-----------------------------------------------------------------------------
(* The server.                                                              *)

Answer(p, awaits, a) == page' = [page EXCEPT ![p] = Set(p, awaits, a)]
Refusal == NoAnswer

Kind(style) == IF style = "dump" THEN "dump" ELSE "param"

\* (Variant: only an operation that waits for the board is in the way.)
BusyConnecting == op.state = "connecting"
Busy == Running

\* The BIN file or the values a parameter request names may be refused.
BadFile(p) == page[p].style # "dump"

\* param_readback_handler, param_download_handler and flash_dump_start_handler.
HandleStart(p) ==
  /\ Awaits(p, "start")
  /\ \/ /\ Busy \/ BadFile(p)
        /\ Answer(p, "startAnswer", Refusal) /\ UNCHANGED <<op, nextId, canceling, image>>
     \/ /\ ~Busy
        /\ op' = [id |-> nextId, kind |-> Kind(page[p].style), state |-> "connecting",
                  page |-> p, run |-> page[p].run]
        /\ nextId' = nextId + 1
        /\ canceling' = FALSE
        /\ image' = IF page[p].style = "dump" THEN NoId ELSE image
        /\ Answer(p, "startAnswer", [id |-> nextId, state |-> "running", page |-> p,
                                     run |-> page[p].run])
  /\ UNCHANGED <<cancels, pressed, restarts, lost>>

\* (Variant: the status of whatever ran last.)
KnowsAny(p) == TRUE
Knows(p) == op.id = page[p].id /\ (page[p].style = "dump" => op.kind = "dump")

\* param_status_handler and flash_dump_status_handler.
HandleStatus(p) ==
  /\ Awaits(p, "status")
  /\ \/ /\ ~Knows(p) \/ (BadFile(p) /\ op.state = "done")
        /\ Answer(p, "statusAnswer", Refusal)
     \/ /\ Knows(p)
        /\ Answer(p, "statusAnswer",
                  [id |-> op.id, state |-> IF Running THEN "running" ELSE op.state,
                   page |-> op.page, run |-> op.run])
  /\ UNCHANGED <<serviceVars, cancels, pressed>>

\* flash_dump_data_handler: no request names the dump it wants; while another
\* operation runs the lock is held.
HandleData(p) ==
  /\ Awaits(p, "data")
  /\ Answer(p, "dataAnswer",
            IF Running \/ image = NoId THEN Refusal
            ELSE [NoAnswer EXCEPT !.id = image, !.state = "image"])
  /\ UNCHANGED <<serviceVars, cancels, pressed>>

\* param_connect_cancel_handler: whatever operation is running.
HandleCancel(c) ==
  /\ c \in cancels
  /\ cancels' = cancels \ {c}
  /\ canceling' = (canceling \/ Running)
  /\ UNCHANGED <<op, nextId, image, page, pressed, restarts, lost>>

\* The worker: the board answers the handshake, ...
Connect ==
  /\ op.state = "connecting"
  /\ op' = [op EXCEPT !.state = "working"]
  /\ UNCHANGED <<nextId, canceling, image, page, cancels, pressed, restarts, lost>>

\* ... the operation ends, and the cancels queued for it with it, ...
Ends(states) ==
  /\ op' \in {[op EXCEPT !.state = s] : s \in states}
  /\ image' = IF op.kind = "dump" /\ op'.state = "done" THEN op.id ELSE image
  /\ UNCHANGED <<nextId, page, cancels, pressed, restarts, lost>>

Finish ==
  /\ op.state = "working" /\ Ends({"done", "failed"})
  /\ canceling' = FALSE

\* ... or a cancel is seen: while it connects, and between the packets of a dump.
\* (Variant: a queued cancel is only looked at once the board has answered.)
SeesCancelLate == op.state = "working" /\ op.kind = "dump"
SeesCancel == op.state = "connecting" \/ (op.state = "working" /\ op.kind = "dump")
EndCanceled ==
  /\ canceling /\ SeesCancel /\ Ends({"canceled"})
  /\ canceling' = FALSE

LoseCancel(c) ==
  /\ Lossy /\ c \in cancels
  /\ cancels' = cancels \ {c}
  /\ lost' = TRUE
  /\ UNCHANGED <<op, nextId, canceling, image, page, pressed, restarts>>

Restart ==
  /\ restarts < MaxRestarts
  /\ restarts' = restarts + 1
  /\ op' = Idle /\ nextId' = 1 /\ canceling' = FALSE /\ image' = NoId
  /\ page' = [p \in Pages |-> [page[p] EXCEPT !.stale = ~Awaits(p, "no")]]
  /\ lost' = TRUE
  /\ UNCHANGED <<cancels, pressed>>

Step(p) == \/ Started(p) \/ StatusIn(p) \/ DataIn(p) \/ Wake(p) \/ CancelAnswered(p)
           \/ HandleStart(p) \/ HandleStatus(p) \/ HandleData(p)
Next ==
  \/ \E p \in Pages : \/ \E s \in Styles : Start(p, s)
                      \/ Press(p) \/ Step(p) \/ Drop(p)
  \/ \E c \in cancels : HandleCancel(c) \/ LoseCancel(c)
  \/ Connect \/ Finish \/ EndCanceled \/ Restart

Spec == Init /\ [][Next]_vars

\* Requests are handled and answered, timers fire and the worker works; the
\* board need not answer and nobody need press anything.
LiveSpec ==
  /\ Spec
  /\ \A p \in Pages : WF_vars(Step(p))
  /\ \A c \in Cancel : WF_vars(HandleCancel(c))
  /\ WF_vars(Finish) /\ WF_vars(EndCanceled)
-----------------------------------------------------------------------------
(* Properties.                                                              *)

TypeOK ==
  /\ op \in [id : Nat, kind : {"none", "param", "dump"}, state : OpStates,
            page : Pages \cup {Nothing}, run : Runs]
  /\ nextId \in Nat \ {NoId} /\ op.id < nextId /\ image \in 0 .. op.id
  /\ restarts \in 0 .. MaxRestarts /\ lost \in BOOLEAN
  /\ canceling => Running
  /\ page \in [Pages -> Page] /\ cancels \subseteq Cancel

\* What a page is told is about the operation its run started, unless the
\* ESP32 restarted during the run: ids begin at 1 again, and the page may then
\* take another page's operation for its own.
ToldOfItsOwn ==
  \A p \in Pages : LET a == page[p].answer IN
    a.page # Nothing => \/ a.page = p /\ a.run = page[p].run
                        \/ page[p].stale

\* As long as nothing is lost, a running operation has a page that asks for
\* its status, or somebody pressed the cancel button of its run: no operation
\* blocks the board behind the users' backs.
Attended ==
  Running /\ ~lost =>
    \/ page[op.page].run = op.run /\ ~Awaits(op.page, "no")
    \/ \E c \in pressed : c.page = op.page /\ c.run = op.run

\* The operations the pages see are those of the service ParamBoard implements,
\* which a restart begins anew (dump images left out: every operation is a read
\* to it).
Service == INSTANCE BoardService WITH
  Readers <- {}, MaxId <- MaxRuns * Cardinality(Pages), ready <- FALSE, image <- 0, readers <- {},
  op <- [id |-> op.id, kind |-> IF op.id = NoId THEN "none" ELSE "read",
         state |-> IF Running THEN "running" ELSE op.state]
OnTheService ==
  /\ Service!Init
  /\ [][IF restarts' = restarts THEN Service!Next ELSE Service!Init']_Service!vars

RunningFor(c) == Running /\ op.page = c.page /\ op.run = c.run

\* The dialog says that pressing cancel leaves the current operation.  On the
\* user page the operation ends, whenever the button is pressed; on the admin
\* page it does if the start had been answered.  Nothing must be lost: only the
\* run's own page sends the cancel again.
Effective(c) == c.style = "user" \/ c.started
Presses == [page : Pages, run : Runs \ {0}, style : {"admin", "user"}, started : BOOLEAN]
CancelEnds ==
  \A c \in Presses : <>[](c \in pressed /\ Effective(c) /\ ~lost
                           => ~(RunningFor(c) /\ op.state = "connecting"))

\* A canceled run returns, also when the cancel is lost: its dialog does not
\* wait for the board.
CanceledReturns == \A p \in Pages : page[p].canceled ~> Awaits(p, "no")
=============================================================================
