------------------------ MODULE PageOperationProofs -------------------------
(***************************************************************************)
(* What a page is told, that no operation is left to itself, and that the  *)
(* operations the pages see are those of BoardService: for any finite set  *)
(* of pages, any number of runs and restarts, with and without losses.     *)
(***************************************************************************)
EXTENDS PageOperation, FiniteSetTheorems, TLAPS

-----------------------------------------------------------------------------
(* The inductive invariant: how each page's run and what it awaits agree   *)
(* with the operation the service runs or ran last.                        *)

\* The operation is that of the page's present run.
Own(p) == op.page = p /\ op.run = page[p].run

OpShape ==
  /\ op.id = NoId => op.page = Nothing
  /\ Running => op.id # NoId /\ op.page \in Pages

\* A page between two runs remembers nothing of the last; a canceled run has
\* had its button pressed.
RunShape(p) ==
  /\ page[p].run <= RunsOf[p]
  /\ op.page = p => op.run <= page[p].run
  /\ Awaits(p, "no") => page[p].id = NoId /\ page[p].answer = NoAnswer /\ ~page[p].canceled
  /\ ~Awaits(p, "no") => page[p].run # 0
  /\ Awaits(p, "cancel") => page[p].canceled
  /\ page[p].canceled => \E c \in pressed : c.page = p /\ c.run = page[p].run
  /\ Awaits(p, "statusAnswer") =>
       page[p].answer.state \in {"refused", "idle", "running", "done", "failed", "canceled"}

\* The ids a page holds were given out since the last restart, unless the run
\* has seen the restart: then the service has given them to no other run.
IdShape(p) ==
  ~page[p].stale =>
    /\ page[p].id < nextId /\ page[p].answer.id < nextId
    /\ page[p].id = op.id => op.page = Nothing \/ Own(p)
    /\ Awaits(p, "startAnswer") /\ page[p].answer.id = op.id => op.page = Nothing \/ Own(p)

\* While a run's operation is under way and nothing was lost, the run waits for
\* the answer to its start or is in the loop that asks for the status, and what
\* it has been told says so.
LoopShape(p) ==
  Running /\ Own(p) /\ ~lost =>
    /\ page[p].awaits \notin {"start", "data", "dataAnswer"}
    /\ Awaits(p, "startAnswer") =>
         /\ page[p].answer.state = "running" /\ page[p].answer.id = op.id
         /\ op.kind = Kind(page[p].style)
    /\ page[p].awaits \in {"status", "statusAnswer", "sleep"} =>
         page[p].id = op.id /\ op.kind = Kind(page[p].style)
    /\ Awaits(p, "statusAnswer") => page[p].answer.state = "running"

\* ToldOfItsOwn, for one page.
Told(p) ==
  page[p].answer.page # Nothing =>
    \/ page[p].answer.page = p /\ page[p].answer.run = page[p].run
    \/ page[p].stale

PageInv ==
  /\ TypeOK
  /\ OpShape
  /\ \A p \in Pages : RunShape(p) /\ IdShape(p) /\ LoopShape(p) /\ Told(p)
  /\ Attended

\* The runs that have asked for an operation.  Each id is given out to one of
\* them: there are no more ids in use than runs.
Asked ==
  {run \in Pages \X (1 .. MaxRuns) :
     \/ run[2] < page[run[1]].run
     \/ run[2] = page[run[1]].run /\ ~Awaits(run[1], "start")}
IdsGiven == nextId - 1 <= Cardinality(Asked)


(* The bound on the runs.                                                   *)

LEMMA MaxOfFinite ==
  ASSUME NEW S \in SUBSET Nat, IsFiniteSet(S), S # {}
  PROVE  Max(S) \in S /\ \A x \in S : x <= Max(S)
<1> DEFINE Top(X) == \E m \in X : \A x \in X : m >= x
<1> DEFINE Bad == {X \in SUBSET S : X # {} /\ ~Top(X)}
<1>1. SUFFICES Bad = {}
  <2>1. Top(S)
    BY <1>1
  <2> QED BY <2>1 DEF Max
<1>2. SUFFICES ASSUME Bad # {} PROVE FALSE
  OBVIOUS
<1>3. IsWellFoundedOn(StrictSubsetOrdering(S), SUBSET S)
  BY FS_StrictSubsetOrderingWellFounded, FS_FiniteSubsetsOfFinite
<1>4. PICK X \in Bad : \A Y \in Bad : <<Y, X>> \notin StrictSubsetOrdering(S)
  <2>1. Bad \subseteq SUBSET S
    OBVIOUS
  <2> HIDE DEF Bad
  <2> QED BY <1>2, <1>3, <2>1, WFMin
<1>5. PICK x \in X : x \in Nat
  BY <1>4
<1>6. X # {x}
  BY <1>4, <1>5
<1>7. X \ {x} \notin Bad
  BY <1>4, <1>5 DEF StrictSubsetOrdering
<1>8. PICK m \in X \ {x} : \A y \in X \ {x} : m >= y
  BY <1>4, <1>6, <1>7
<1>9. \A y \in X : m >= y \/ x >= y
  BY <1>5, <1>8
<1>10. m \in Nat /\ X \subseteq Nat
  BY <1>4, <1>8
<1> QED BY <1>4, <1>5, <1>8, <1>10

LEMMA RunsBound ==
  /\ MaxRuns \in Nat
  /\ \A p \in Pages : RunsOf[p] \in Nat /\ RunsOf[p] <= MaxRuns
<1>1. RunsOf \in Surjection(Pages, Range(RunsOf))
  BY PageAssumption DEF Surjection, Range
<1>2. IsFiniteSet(Range(RunsOf))
  BY <1>1, PageAssumption, FS_Surjection
<1>3. Range(RunsOf) \in SUBSET Nat /\ Range(RunsOf) # {}
  BY PageAssumption DEF Range
<1>4. MaxRuns \in Range(RunsOf) /\ \A n \in Range(RunsOf) : n <= MaxRuns
  BY <1>2, <1>3, MaxOfFinite DEF MaxRuns
<1> QED BY <1>3, <1>4, PageAssumption DEF Range

(* What the updates of a page's record do.                                  *)

\* The run of p goes on: only what it awaits, has been told and remembers of
\* its operation differ.
Goes(p, awaits, answer, id) ==
  /\ page' \in [Pages -> Page]
  /\ \A q \in Pages : q # p => page'[q] = page[q]
  /\ page'[p].awaits = awaits /\ page'[p].answer = answer /\ page'[p].id = id
  /\ page'[p].style = page[p].style /\ page'[p].run = page[p].run
  /\ page'[p].canceled = page[p].canceled /\ page'[p].stale = page[p].stale

LEMMA SetPage ==
  ASSUME page \in [Pages -> Page], NEW p \in Pages, NEW w \in Waits, NEW a \in Answers,
         page' = [page EXCEPT ![p] = Set(p, w, a)]
  PROVE  Goes(p, w, a, page[p].id)
BY DEF Goes, Set, Page

LEMMA SetPageId ==
  ASSUME page \in [Pages -> Page], NEW p \in Pages, NEW w \in Waits, NEW a \in Answers,
         NEW i \in Nat, page' = [page EXCEPT ![p] = [Set(p, w, a) EXCEPT !.id = i]]
  PROVE  Goes(p, w, a, i)
BY DEF Goes, Set, Page

LEMMA NoAnswerType == NoAnswer \in Answers /\ NoAnswer.id = NoId /\ NoAnswer.page = Nothing
                      /\ NoAnswer.state = "refused"
BY RunsBound DEF NoAnswer, Answers, NoId, Runs

LEMMA ThisCancelType ==
  ASSUME NEW p \in Pages, page[p] \in Page, NEW again \in BOOLEAN
  PROVE  ThisCancel(p, again) \in Cancel
BY DEF ThisCancel, Cancel, Page

LEMMA ReturnPage ==
  ASSUME page \in [Pages -> Page], NEW p \in Pages,
         NEW outcome \in {"none", "done", "failed", "canceled"}, Return(p, outcome)
  PROVE  /\ page' \in [Pages -> Page]
         /\ \A q \in Pages : q # p => page'[q] = page[q]
         /\ page'[p].awaits = "no" /\ page'[p].answer = NoAnswer /\ page'[p].id = NoId
         /\ page'[p].run = page[p].run /\ page'[p].canceled = FALSE
<1> DEFINE r == [page[p] EXCEPT !.awaits = "no", !.canceled = FALSE, !.id = NoId,
                                !.answer = NoAnswer, !.outcome = outcome]
<1>1. page[p] \in Page
  OBVIOUS
<1>2. page' = [page EXCEPT ![p] = r]
  BY <1>1 DEF Return, Page
<1>3. r \in Page
  BY <1>1, NoAnswerType DEF Page, Waits, NoId
<1>4. r.awaits = "no" /\ r.answer = NoAnswer /\ r.id = NoId /\ r.run = page[p].run
      /\ r.canceled = FALSE
  BY <1>1 DEF Page
<1> HIDE DEF r
<1> QED BY <1>2, <1>3, <1>4

-----------------------------------------------------------------------------
(* Init, and the steps of a page.                                           *)

LEMMA InitPage == Init => PageInv
<1> SUFFICES ASSUME Init PROVE PageInv
  OBVIOUS
<1>1. ASSUME NEW p \in Pages PROVE (CHOOSE s \in StylesOf[p] : TRUE) \in Styles
  <2>1. StylesOf[p] \subseteq Styles /\ \E s \in StylesOf[p] : TRUE
    BY PageAssumption
  <2>2. (CHOOSE s \in StylesOf[p] : TRUE) \in StylesOf[p]
    BY <2>1
  <2> QED BY <2>1, <2>2
<1>2. page \in [Pages -> Page]
  <2>1. 0 \in Runs /\ NoId \in Nat
    BY RunsBound DEF Runs, NoId
  <2>2. ASSUME NEW s \in Styles
        PROVE  [awaits |-> "no", style |-> s, run |-> 0, canceled |-> FALSE, id |-> NoId,
                answer |-> NoAnswer, outcome |-> "none", stale |-> FALSE] \in Page
    BY <2>1, NoAnswerType DEF Page, Waits
  <2> QED BY <1>1, <2>2 DEF Init
<1>3. TypeOK
  <2>1. 0 \in Runs /\ 0 \in Nat /\ 0 \in 0 .. MaxRestarts
    BY RunsBound, PageAssumption DEF Runs
  <2>2. op \in [id : Nat, kind : {"none", "param", "dump"}, state : OpStates,
               page : Pages \cup {Nothing}, run : Runs]
    BY <2>1 DEF Init, Idle, NoId, OpStates
  <2>3. nextId \in Nat \ {NoId} /\ op.id < nextId /\ image \in 0 .. op.id
    BY DEF Init, Idle, NoId
  <2> QED BY <1>2, <2>1, <2>2, <2>3 DEF Init, TypeOK
<1>4. OpShape /\ Attended
  BY DEF Init, OpShape, Attended, Idle, Running
<1>5. ASSUME NEW p \in Pages PROVE RunShape(p) /\ IdShape(p) /\ LoopShape(p) /\ Told(p)
  BY RunsBound, NoAnswerType DEF Init, RunShape, IdShape, LoopShape, Told, Idle, Running, Awaits, NoId
<1> QED BY <1>3, <1>4, <1>5 DEF PageInv

(* Another page's step, or one that only ends the operation, leaves what is  *)
(* known of a page.                                                          *)
LEMMA Others ==
  ASSUME PageInv, NEW q \in Pages, page'[q] = page[q], pressed \subseteq pressed',
         op'.id = op.id, op'.page = op.page, op'.run = op.run, op'.kind = op.kind,
         Running' => Running, nextId' = nextId, lost => lost'
  PROVE  RunShape(q)' /\ IdShape(q)' /\ LoopShape(q)' /\ Told(q)'
BY DEF PageInv, RunShape, IdShape, LoopShape, Told, Own, Awaits
LEMMA Gone ==
  ASSUME PageInv, NEW p \in Pages, NEW outcome \in {"none", "done", "failed", "canceled"},
         Return(p, outcome), UNCHANGED <<op, nextId, canceling, image, restarts, cancels, pressed>>,
         lost' \in BOOLEAN, lost => lost',
         lost' \/ page[p].canceled \/ ~Running \/ ~Own(p)
  PROVE  PageInv'
<1>1. /\ page' \in [Pages -> Page]
      /\ \A q \in Pages : q # p => page'[q] = page[q]
      /\ page'[p].awaits = "no" /\ page'[p].answer = NoAnswer /\ page'[p].id = NoId
      /\ page'[p].run = page[p].run /\ page'[p].canceled = FALSE
  BY ReturnPage DEF PageInv, TypeOK
<1>2. TypeOK' /\ OpShape'
  BY <1>1 DEF PageInv, TypeOK, OpShape, Running
<1>3. ASSUME NEW q \in Pages, q # p PROVE (RunShape(q) /\ IdShape(q) /\ LoopShape(q) /\ Told(q))'
  BY <1>1, <1>3, Others DEF Running
<1>4. RunShape(p) /\ IdShape(p)
  BY DEF PageInv
<1>5. RunShape(p)'
  BY <1>1, <1>4 DEF RunShape, Awaits
<1>6. IdShape(p)' /\ LoopShape(p)' /\ Told(p)'
  <2>1. nextId \in Nat \ {0} /\ (op.id = NoId => op.page = Nothing)
    BY DEF PageInv, TypeOK, OpShape, NoId
  <2> QED BY <1>1, <2>1, NoAnswerType DEF IdShape, LoopShape, Told, Awaits, NoId
<1>7. Attended'
  <2> SUFFICES ASSUME Running, ~lost'
               PROVE  \/ page'[op.page].run = op.run /\ page'[op.page].awaits # "no"
                      \/ \E c \in pressed : c.page = op.page /\ c.run = op.run
    BY DEF Attended, Running, Awaits
  <2>1. /\ op.page \in Pages
        /\ \/ page[op.page].run = op.run /\ ~Awaits(op.page, "no")
           \/ \E c \in pressed : c.page = op.page /\ c.run = op.run
    BY DEF PageInv, OpShape, Attended
  <2>2. CASE op.page = p /\ page[p].run = op.run
    BY <1>4, <2>2 DEF RunShape, Own
  <2>3. CASE ~(op.page = p /\ page[p].run = op.run)
    BY <1>1, <2>1, <2>3 DEF Awaits
  <2> QED BY <2>2, <2>3
<1> QED BY <1>2, <1>3, <1>5, <1>6, <1>7 DEF PageInv

(* The run of p goes on.                                                    *)
LEMMA Onward ==
  ASSUME PageInv, NEW p \in Pages, NEW w \in Waits, NEW a \in Answers, NEW i \in Nat,
         Goes(p, w, a, i), ~Awaits(p, "no"), w # "no",
         UNCHANGED <<serviceVars, pressed>>, cancels' \in SUBSET Cancel,
         w = "cancel" => page[p].canceled,
         w = "statusAnswer" =>
           a.state \in {"refused", "idle", "running", "done", "failed", "canceled"},
         ~page[p].stale =>
           /\ i < nextId /\ a.id < nextId
           /\ i = op.id => op.page = Nothing \/ Own(p)
           /\ w = "startAnswer" /\ a.id = op.id => op.page = Nothing \/ Own(p),
         Running /\ Own(p) /\ ~lost =>
           /\ w \notin {"start", "startAnswer", "data", "dataAnswer"}
           /\ w \in {"status", "statusAnswer", "sleep"} => i = op.id /\ op.kind = Kind(page[p].style)
           /\ w = "statusAnswer" => a.state = "running",
         a.page # Nothing => (a.page = p /\ a.run = page[p].run) \/ page[p].stale
  PROVE  PageInv'
<1> USE DEF Goes
<1>1. TypeOK' /\ OpShape'
  BY DEF PageInv, TypeOK, OpShape, Running, serviceVars
<1>2. ASSUME NEW q \in Pages, q # p PROVE (RunShape(q) /\ IdShape(q) /\ LoopShape(q) /\ Told(q))'
  BY <1>2, Others DEF Running, serviceVars
<1>3. RunShape(p)'
  BY DEF PageInv, RunShape, Awaits, serviceVars
<1>4. IdShape(p)' /\ Told(p)'
  BY DEF PageInv, IdShape, Told, Own, Awaits, serviceVars
<1>5. LoopShape(p)'
  BY DEF LoopShape, Own, Awaits, Running, serviceVars
<1>6. Attended'
  BY DEF PageInv, OpShape, Attended, Awaits, Running, serviceVars
<1> QED BY <1>1, <1>2, <1>3, <1>4, <1>5, <1>6 DEF PageInv
(* Presses and starts change more of the record.                            *)
LEMMA StartStep ==
  ASSUME PageInv, NEW p \in Pages, NEW s \in Styles, Start(p, s)
  PROVE  PageInv'
<1> DEFINE r == [page[p] EXCEPT !.awaits = "start", !.style = s, !.run = @ + 1,
                   !.canceled = FALSE, !.outcome = "none", !.stale = FALSE]
<1>1. page \in [Pages -> Page] /\ page[p] \in Page /\ Awaits(p, "no")
      /\ page[p].run < RunsOf[p]
  BY DEF PageInv, TypeOK, Start
<1>2. page[p].run \in Nat /\ page[p].run + 1 \in Runs
  BY <1>1, RunsBound DEF Page, Runs
<1>3. page' = [page EXCEPT ![p] = r]
  BY <1>1 DEF Start, Page
<1>4. /\ r \in Page /\ r.awaits = "start" /\ r.style = s /\ r.run = page[p].run + 1
      /\ r.canceled = FALSE /\ r.stale = FALSE /\ r.id = page[p].id
      /\ r.answer = page[p].answer
  BY <1>1, <1>2 DEF Page, Waits
<1> HIDE DEF r
<1>5. page' \in [Pages -> Page] /\ page'[p] = r /\ \A q \in Pages : q # p => page'[q] = page[q]
  BY <1>1, <1>3, <1>4
<1>6. UNCHANGED <<op, nextId, canceling, image, restarts, lost, cancels, pressed>>
  BY DEF Start, serviceVars
<1>7. TypeOK' /\ OpShape'
  BY <1>5, <1>6 DEF PageInv, TypeOK, OpShape, Running
<1>8. ASSUME NEW q \in Pages, q # p PROVE (RunShape(q) /\ IdShape(q) /\ LoopShape(q) /\ Told(q))'
  BY <1>5, <1>6, <1>8, Others DEF Running
<1>9. /\ page[p].id = NoId /\ page[p].answer = NoAnswer
      /\ op.page = p => op.run <= page[p].run /\ op.run \in Nat
      /\ nextId \in Nat \ {0} /\ (op.id = NoId => op.page = Nothing)
      /\ RunsOf[p] \in Nat
  BY <1>1, RunsBound DEF PageInv, TypeOK, OpShape, RunShape, NoId, Runs
<1>10. RunShape(p)' /\ IdShape(p)' /\ LoopShape(p)' /\ Told(p)'
  BY <1>1, <1>2, <1>4, <1>5, <1>6, <1>9, NoAnswerType
  DEF RunShape, IdShape, LoopShape, Told, Own, Awaits, Running, NoId
<1>11. Attended'
  BY <1>1, <1>5, <1>6 DEF PageInv, OpShape, Attended, Awaits, Running
<1> QED BY <1>7, <1>8, <1>10, <1>11 DEF PageInv

LEMMA PressStep ==
  ASSUME PageInv, NEW p \in Pages, Press(p)
  PROVE  PageInv'
<1> DEFINE r == [page[p] EXCEPT !.canceled = TRUE]
<1>1. page \in [Pages -> Page] /\ page[p] \in Page /\ ~Awaits(p, "no")
  BY DEF PageInv, TypeOK, Press
<1>2. page' = [page EXCEPT ![p] = r]
  BY <1>1 DEF Press, Page
<1>3. /\ r \in Page /\ r.awaits = page[p].awaits /\ r.style = page[p].style
      /\ r.run = page[p].run /\ r.canceled = TRUE /\ r.stale = page[p].stale
      /\ r.id = page[p].id /\ r.answer = page[p].answer
  BY <1>1 DEF Page
<1> HIDE DEF r
<1>4. page' \in [Pages -> Page] /\ page'[p] = r /\ \A q \in Pages : q # p => page'[q] = page[q]
  BY <1>1, <1>2, <1>3
<1>5. UNCHANGED <<op, nextId, canceling, image, restarts, lost>>
  BY DEF Press, serviceVars
<1>6. pressed \subseteq pressed' /\ \E c \in pressed' : c.page = p /\ c.run = page[p].run
  <2> DEFINE c == [page |-> p, run |-> page[p].run, style |-> page[p].style,
                   started |-> page[p].awaits \notin {"start", "startAnswer"}]
  <2>1. c.page = p /\ c.run = page[p].run
    OBVIOUS
  <2>2. pressed' = pressed \cup {c}
    BY DEF Press
  <2> HIDE DEF c
  <2> QED BY <2>1, <2>2
<1>7. cancels' \subseteq Cancel
  <2>1. cancels' = cancels \cup {ThisCancel(p, FALSE)} /\ cancels \subseteq Cancel
    BY DEF Press, PageInv, TypeOK
  <2> QED BY <1>1, <2>1, ThisCancelType
<1>8. TypeOK' /\ OpShape'
  BY <1>4, <1>5, <1>7 DEF PageInv, TypeOK, OpShape, Running
<1>9. ASSUME NEW q \in Pages, q # p PROVE (RunShape(q) /\ IdShape(q) /\ LoopShape(q) /\ Told(q))'
  BY <1>4, <1>5, <1>6, <1>9, Others DEF Running
<1>10. RunShape(p)' /\ IdShape(p)' /\ LoopShape(p)' /\ Told(p)'
  BY <1>1, <1>3, <1>4, <1>5, <1>6 DEF PageInv, RunShape, IdShape, LoopShape, Told, Own, Awaits, Running
<1>11. Attended'
  BY <1>3, <1>4, <1>5, <1>6 DEF PageInv, OpShape, Attended, Awaits, Running
<1> QED BY <1>8, <1>9, <1>10, <1>11 DEF PageInv

(* The answers come in.                                                     *)
LEMMA StartedStep ==
  ASSUME PageInv, NEW p \in Pages, Started(p)
  PROVE  PageInv'
<1> DEFINE a == page[p].answer
<1>1. /\ page \in [Pages -> Page] /\ page[p] \in Page /\ Awaits(p, "startAnswer")
      /\ UNCHANGED <<op, nextId, canceling, image, restarts, lost, pressed>>
      /\ lost \in BOOLEAN /\ a \in Answers /\ a.id \in Nat
      /\ cancels \subseteq Cancel
  BY DEF PageInv, TypeOK, Started, Page, Answers, serviceVars
<1>2. CASE a.state = "refused" /\ Throw(p) /\ UNCHANGED cancels
  <2>1. ~Running \/ ~Own(p) \/ lost
    BY <1>1, <1>2 DEF PageInv, LoopShape
  <2> QED BY <1>1, <1>2, <2>1, Gone DEF Throw
<1>3. CASE a.state # "refused" /\ ~page[p].canceled
  <2>1. page' = [page EXCEPT ![p] = [Set(p, "status", NoAnswer) EXCEPT !.id = a.id]]
        /\ UNCHANGED cancels
    BY <1>1, <1>3 DEF Started
  <2>2. Goes(p, "status", NoAnswer, a.id)
    BY <1>1, <2>1, SetPageId, NoAnswerType DEF Waits
  <2>3. /\ ~page[p].stale => /\ a.id < nextId /\ 0 < nextId
                             /\ a.id = op.id => op.page = Nothing \/ Own(p)
        /\ Running /\ Own(p) /\ ~lost => a.id = op.id /\ op.kind = Kind(page[p].style)
    BY <1>1 DEF PageInv, IdShape, LoopShape, TypeOK, NoId
  <2> QED BY <1>1, <2>1, <2>2, <2>3, Onward, NoAnswerType DEF Waits, Awaits, serviceVars, NoId
<1>4. CASE CancelAgain(p) /\ page[p].canceled
  <2>1. Goes(p, "cancel", NoAnswer, page[p].id)
    BY <1>1, <1>4, SetPage, NoAnswerType DEF Waits, CancelAgain
  <2>2. cancels' \subseteq Cancel
    BY <1>1, <1>4, ThisCancelType DEF CancelAgain
  <2>3. /\ page[p].id \in Nat
        /\ ~page[p].stale => /\ page[p].id < nextId /\ 0 < nextId
                             /\ page[p].id = op.id => op.page = Nothing \/ Own(p)
    BY <1>1 DEF PageInv, IdShape, TypeOK, NoId, Page
  <2> QED BY <1>1, <1>4, <2>1, <2>2, <2>3, Onward, NoAnswerType DEF Waits, Awaits, serviceVars, NoId
<1>5. CASE Return(p, "canceled") /\ page[p].canceled /\ UNCHANGED cancels
  BY <1>1, <1>5, Gone
<1> QED BY <1>2, <1>3, <1>4, <1>5 DEF Started
LEMMA StatusInStep ==
  ASSUME PageInv, NEW p \in Pages, StatusIn(p)
  PROVE  PageInv'
<1> DEFINE a == page[p].answer
<1>1. /\ page \in [Pages -> Page] /\ page[p] \in Page /\ Awaits(p, "statusAnswer")
      /\ UNCHANGED <<op, nextId, canceling, image, restarts, lost, cancels, pressed>>
      /\ lost \in BOOLEAN /\ cancels \subseteq Cancel
      /\ a.state \in {"refused", "idle", "running", "done", "failed", "canceled"}
  BY DEF PageInv, TypeOK, StatusIn, Page, RunShape, serviceVars
<1>2. a.state # "running" => ~Running \/ ~Own(p) \/ lost
  BY <1>1 DEF PageInv, LoopShape
<1>3. /\ page[p].id \in Nat
      /\ ~page[p].stale => /\ page[p].id < nextId /\ 0 < nextId
                           /\ page[p].id = op.id => op.page = Nothing \/ Own(p)
      /\ Running /\ Own(p) /\ ~lost => page[p].id = op.id /\ op.kind = Kind(page[p].style)
  BY <1>1 DEF PageInv, IdShape, LoopShape, TypeOK, NoId, Page, Awaits
<1>4. ASSUME \/ Throw(p) /\ a.state # "running"
             \/ Return(p, "canceled") /\ page[p].canceled
             \/ Return(p, "canceled") /\ a.state # "running"
             \/ Return(p, "done") /\ a.state # "running"
      PROVE  PageInv'
  BY <1>1, <1>2, <1>4, Gone DEF Throw
<1>5. ASSUME NEW w \in {"data", "sleep"}, w = "data" => a.state # "running",
             page' = [page EXCEPT ![p] = Set(p, w, NoAnswer)]
      PROVE  PageInv'
  <2>1. Goes(p, w, NoAnswer, page[p].id)
    BY <1>1, <1>5, SetPage, NoAnswerType DEF Waits
  <2> QED BY <1>1, <1>2, <1>3, <1>5, <2>1, Onward, NoAnswerType DEF Waits, Awaits, serviceVars, NoId
<1>6. \/ Throw(p) /\ a.state # "running"
      \/ Return(p, "canceled") /\ page[p].canceled
      \/ Return(p, "canceled") /\ a.state # "running"
      \/ Return(p, "done") /\ a.state # "running"
      \/ page' = [page EXCEPT ![p] = Set(p, "data", NoAnswer)] /\ a.state # "running"
      \/ page' = [page EXCEPT ![p] = Set(p, "sleep", NoAnswer)]
  BY <1>1 DEF StatusIn
<1> QED BY <1>4, <1>5, <1>6

LEMMA DataInStep ==
  ASSUME PageInv, NEW p \in Pages, DataIn(p)
  PROVE  PageInv'
<1>1. UNCHANGED <<op, nextId, canceling, image, restarts, lost, cancels, pressed>>
      /\ lost \in BOOLEAN
  BY DEF PageInv, TypeOK, DataIn, serviceVars
<1>2. ~Running \/ ~Own(p) \/ lost
  BY DEF PageInv, LoopShape, DataIn, Awaits
<1> QED BY <1>1, <1>2, Gone DEF DataIn, Throw

LEMMA WakeStep ==
  ASSUME PageInv, NEW p \in Pages, Wake(p)
  PROVE  PageInv'
<1>1. /\ page \in [Pages -> Page] /\ page[p] \in Page /\ Awaits(p, "sleep")
      /\ UNCHANGED <<op, nextId, canceling, image, restarts, lost, pressed>>
      /\ cancels \subseteq Cancel
  BY DEF PageInv, TypeOK, Wake, serviceVars
<1>2. /\ page[p].id \in Nat
      /\ ~page[p].stale => /\ page[p].id < nextId /\ 0 < nextId
                           /\ page[p].id = op.id => op.page = Nothing \/ Own(p)
      /\ Running /\ Own(p) /\ ~lost => page[p].id = op.id /\ op.kind = Kind(page[p].style)
  BY <1>1 DEF PageInv, IdShape, LoopShape, TypeOK, NoId, Page, Awaits
<1>3. CASE page[p].canceled /\ CancelAgain(p)
  <2>1. Goes(p, "cancel", NoAnswer, page[p].id)
    BY <1>1, <1>3, SetPage, NoAnswerType DEF Waits, CancelAgain
  <2>2. cancels' \subseteq Cancel
    BY <1>1, <1>3, ThisCancelType DEF CancelAgain
  <2> QED BY <1>1, <1>2, <1>3, <2>1, <2>2, Onward, NoAnswerType DEF Waits, Awaits, serviceVars, NoId
<1>4. CASE ~page[p].canceled /\ AskStatus(p) /\ UNCHANGED cancels
  <2>1. Goes(p, "status", NoAnswer, page[p].id)
    BY <1>1, <1>4, SetPage, NoAnswerType DEF Waits, AskStatus
  <2> QED BY <1>1, <1>2, <1>4, <2>1, Onward, NoAnswerType DEF Waits, Awaits, serviceVars, NoId
<1> QED BY <1>3, <1>4 DEF Wake

LEMMA CancelAnsweredStep ==
  ASSUME PageInv, NEW p \in Pages, CancelAnswered(p) \/ Drop(p)
  PROVE  PageInv'
<1>1. CASE CancelAnswered(p)
  <2>1. page[p].canceled /\ lost \in BOOLEAN
    BY <1>1 DEF PageInv, TypeOK, RunShape, CancelAnswered
  <2> QED BY <1>1, <2>1, Gone DEF CancelAnswered, serviceVars
<1>2. CASE Drop(p)
  BY <1>2, Gone DEF Drop, Throw
<1> QED BY <1>1, <1>2

-----------------------------------------------------------------------------
(* The steps of the server.                                                 *)

LEMMA HandleStatusStep ==
  ASSUME PageInv, NEW p \in Pages, HandleStatus(p)
  PROVE  PageInv'
<1>1. /\ page \in [Pages -> Page] /\ page[p] \in Page /\ Awaits(p, "status")
      /\ UNCHANGED <<op, nextId, canceling, image, restarts, lost, cancels, pressed>>
      /\ cancels \subseteq Cancel
      /\ op \in [id : Nat, kind : {"none", "param", "dump"}, state : OpStates,
                 page : Pages \cup {Nothing}, run : Runs]
      /\ op.id < nextId /\ nextId \in Nat
  BY DEF PageInv, TypeOK, HandleStatus, serviceVars
<1>2. /\ page[p].id \in Nat
      /\ ~page[p].stale => /\ page[p].id < nextId /\ 0 < nextId
                           /\ page[p].id = op.id => op.page = Nothing \/ Own(p)
      /\ Running /\ Own(p) /\ ~lost => page[p].id = op.id /\ op.kind = Kind(page[p].style)
  BY <1>1 DEF PageInv, IdShape, LoopShape, TypeOK, NoId, Page, Awaits
<1>3. CASE /\ ~Knows(p) \/ (BadFile(p) /\ op.state = "done")
           /\ Answer(p, "statusAnswer", Refusal)
  <2>1. Goes(p, "statusAnswer", NoAnswer, page[p].id)
    BY <1>1, <1>3, SetPage, NoAnswerType DEF Waits, Answer, Refusal
  <2>2. ~(Running /\ Own(p) /\ ~lost)
    BY <1>2, <1>3 DEF Knows, Kind, Running
  <2> QED BY <1>1, <1>2, <2>1, <2>2, Onward, NoAnswerType DEF Waits, Awaits, serviceVars, NoId
<1>4. CASE /\ Knows(p)
           /\ Answer(p, "statusAnswer",
                  [id |-> op.id, state |-> IF Running THEN "running" ELSE op.state,
                   page |-> op.page, run |-> op.run])
  <2> DEFINE a == [id |-> op.id, state |-> IF Running THEN "running" ELSE op.state,
                   page |-> op.page, run |-> op.run]
  <2>1. /\ a \in Answers /\ a.id = op.id /\ a.page = op.page /\ a.run = op.run
        /\ a.state \in {"refused", "idle", "running", "done", "failed", "canceled"}
        /\ Running => a.state = "running"
    BY <1>1 DEF Answers, OpStates, Running
  <2>2. page' = [page EXCEPT ![p] = Set(p, "statusAnswer", a)]
    BY <1>4 DEF Answer
  <2> HIDE DEF a
  <2>3. Goes(p, "statusAnswer", a, page[p].id)
    BY <1>1, <2>1, <2>2, SetPage DEF Waits
  <2>4. ~page[p].stale => op.page = Nothing \/ Own(p)
    BY <1>2, <1>4 DEF Knows
  <2> QED BY <1>1, <1>2, <2>1, <2>3, <2>4, Onward DEF Waits, Awaits, serviceVars, Own
<1> QED BY <1>3, <1>4 DEF HandleStatus

LEMMA HandleDataStep ==
  ASSUME PageInv, NEW p \in Pages, HandleData(p)
  PROVE  PageInv'
<1>1. /\ page \in [Pages -> Page] /\ page[p] \in Page /\ Awaits(p, "data")
      /\ UNCHANGED <<op, nextId, canceling, image, restarts, lost, cancels, pressed>>
      /\ cancels \subseteq Cancel
      /\ op.id < nextId /\ nextId \in Nat /\ op.id \in Nat /\ image \in 0 .. op.id
  BY DEF PageInv, TypeOK, HandleData, serviceVars
<1>2. /\ page[p].id \in Nat
      /\ ~page[p].stale => /\ page[p].id < nextId /\ 0 < nextId
                           /\ page[p].id = op.id => op.page = Nothing \/ Own(p)
      /\ ~(Running /\ Own(p) /\ ~lost)
  BY <1>1 DEF PageInv, IdShape, LoopShape, TypeOK, NoId, Page, Awaits
<1>3. \E a \in Answers : /\ a.id \in 0 .. op.id /\ a.page = Nothing
                         /\ page' = [page EXCEPT ![p] = Set(p, "dataAnswer", a)]
  <2> DEFINE a == IF Running \/ image = NoId THEN Refusal
                  ELSE [NoAnswer EXCEPT !.id = image, !.state = "image"]
  <2>1. a \in Answers /\ a.id \in 0 .. op.id /\ a.page = Nothing
    <3>1. CASE Running \/ image = NoId
      BY <1>1, <3>1, NoAnswerType DEF Refusal, NoId
    <3>2. CASE ~(Running \/ image = NoId)
      <4>1. a = [id |-> image, state |-> "image", page |-> Nothing, run |-> 0]
        BY <3>2 DEF NoAnswer, Running
      <4>2. image \in Nat /\ 0 \in Runs
        BY <1>1, RunsBound DEF Runs
      <4>3. [id |-> image, state |-> "image", page |-> Nothing, run |-> 0] \in Answers
        BY <4>2 DEF Answers
      <4> HIDE DEF a
      <4> QED BY <1>1, <4>1, <4>3
    <3> QED BY <3>1, <3>2
  <2>2. page' = [page EXCEPT ![p] = Set(p, "dataAnswer", a)]
    BY DEF HandleData, Answer
  <2> HIDE DEF a
  <2> QED BY <2>1, <2>2
<1>4. PICK a \in Answers : /\ a.id \in 0 .. op.id /\ a.page = Nothing
                           /\ page' = [page EXCEPT ![p] = Set(p, "dataAnswer", a)]
  BY <1>3
<1>5. Goes(p, "dataAnswer", a, page[p].id)
  BY <1>1, <1>4, SetPage DEF Waits
<1>6. a.id < nextId
  BY <1>1, <1>4
<1> QED BY <1>1, <1>2, <1>4, <1>5, <1>6, Onward DEF Waits, Awaits, serviceVars
LEMMA HandleStartStep ==
  ASSUME PageInv, NEW p \in Pages, HandleStart(p)
  PROVE  PageInv'
<1>1. /\ page \in [Pages -> Page] /\ page[p] \in Page /\ Awaits(p, "start")
      /\ UNCHANGED <<restarts, lost, cancels, pressed>>
      /\ cancels \subseteq Cancel /\ nextId \in Nat \ {0} /\ page[p].run \in Runs
      /\ op.id \in Nat /\ op.id < nextId /\ image \in 0 .. op.id
      /\ page[p].style \in Styles /\ page[p].id \in Nat
  BY DEF PageInv, TypeOK, HandleStart, serviceVars, Page, NoId
<1>2. ~page[p].stale => /\ page[p].id < nextId
                        /\ page[p].id = op.id => op.page = Nothing \/ Own(p)
  BY <1>1 DEF PageInv, IdShape
<1>3. CASE /\ Answer(p, "startAnswer", Refusal)
           /\ UNCHANGED <<op, nextId, canceling, image>>
  <2>1. Goes(p, "startAnswer", NoAnswer, page[p].id)
    BY <1>1, <1>3, SetPage, NoAnswerType DEF Waits, Answer, Refusal
  <2>2. ~(Running /\ Own(p) /\ ~lost) /\ (op.id = NoId => op.page = Nothing)
    BY <1>1 DEF PageInv, LoopShape, OpShape, Awaits
  <2> QED BY <1>1, <1>2, <1>3, <2>1, <2>2, Onward, NoAnswerType DEF Waits, Awaits, serviceVars, NoId
<1>4. CASE /\ ~Busy
           /\ op' = [id |-> nextId, kind |-> Kind(page[p].style), state |-> "connecting",
                     page |-> p, run |-> page[p].run]
           /\ nextId' = nextId + 1
           /\ canceling' = FALSE
           /\ image' = IF page[p].style = "dump" THEN NoId ELSE image
           /\ Answer(p, "startAnswer", [id |-> nextId, state |-> "running", page |-> p,
                                        run |-> page[p].run])
  <2> DEFINE a == [id |-> nextId, state |-> "running", page |-> p, run |-> page[p].run]
  <2>1. a \in Answers /\ a.id = nextId /\ a.state = "running" /\ a.page = p /\ a.run = page[p].run
    BY <1>1 DEF Answers
  <2>2. page' = [page EXCEPT ![p] = Set(p, "startAnswer", a)]
    BY <1>4 DEF Answer
  <2> HIDE DEF a
  <2>3. Goes(p, "startAnswer", a, page[p].id)
    BY <1>1, <2>1, <2>2, SetPage DEF Waits
  <2>4. /\ op'.id = nextId /\ op'.kind \in {"param", "dump"} /\ op'.kind = Kind(page[p].style)
        /\ op'.state = "connecting"
        /\ op'.page = p /\ op'.run = page[p].run /\ Running'
    BY <1>4 DEF Kind, Running
  <2>5. op' \in [id : Nat, kind : {"none", "param", "dump"}, state : OpStates,
                 page : Pages \cup {Nothing}, run : Runs]
    BY <1>1, <1>4 DEF OpStates, Kind
  <2>6. TypeOK'
    <3>1. image' \in 0 .. op'.id
      BY <1>1, <1>4, <2>4 DEF NoId
    <3> QED BY <1>1, <1>4, <2>3, <2>4, <2>5, <3>1 DEF PageInv, TypeOK, Goes, NoId
  <2>7. OpShape'
    BY <1>1, <2>4 DEF OpShape, NoId
  <2>8. ASSUME NEW q \in Pages, q # p PROVE (RunShape(q) /\ IdShape(q) /\ LoopShape(q) /\ Told(q))'
    <3>1. page'[q] = page[q] /\ page[q].id \in Nat /\ page[q].answer.id \in Nat
      BY <1>1, <2>3, <2>8 DEF Goes, Page, Answers
    <3>2. RunShape(q) /\ IdShape(q) /\ Told(q)
      BY DEF PageInv
    <3>3. RunShape(q)' /\ Told(q)'
      BY <1>1, <2>4, <2>8, <3>1, <3>2 DEF RunShape, Told, Awaits
    <3>4. IdShape(q)' /\ LoopShape(q)'
      BY <1>1, <1>4, <2>4, <2>8, <3>1, <3>2 DEF IdShape, LoopShape, Own, Awaits
    <3> QED BY <3>3, <3>4
  <2>9. RunShape(p)' /\ IdShape(p)' /\ LoopShape(p)' /\ Told(p)'
    <3>1. RunShape(p) /\ page[p].run \in Nat
      BY <1>1, RunsBound DEF PageInv, Runs
    <3> QED BY <1>1, <1>2, <1>4, <2>1, <2>3, <2>4, <3>1
            DEF RunShape, IdShape, LoopShape, Told, Own, Awaits, Goes
  <2>10. Attended'
    BY <2>3, <2>4 DEF Attended, Awaits, Goes
  <2> QED BY <2>6, <2>7, <2>8, <2>9, <2>10 DEF PageInv
<1> QED BY <1>3, <1>4 DEF HandleStart

(* The worker, and the cancels.                                             *)
LEMMA WorkerSteps ==
  ASSUME PageInv,
         \/ Connect \/ Finish \/ EndCanceled
         \/ \E c \in cancels : HandleCancel(c) \/ LoseCancel(c)
  PROVE  PageInv'
<1>1. /\ UNCHANGED <<nextId, page, pressed, restarts>> /\ cancels' \subseteq cancels
      /\ op'.id = op.id /\ op'.page = op.page /\ op'.run = op.run /\ op'.kind = op.kind
      /\ op' \in [id : Nat, kind : {"none", "param", "dump"}, state : OpStates,
                 page : Pages \cup {Nothing}, run : Runs]
      /\ Running' => Running
      /\ image' \in {image, op.id} /\ (canceling' => Running')
      /\ lost' \in BOOLEAN /\ (lost => lost')
  <2> USE DEF PageInv, TypeOK, Running, OpStates
  <2>1. CASE Connect
    BY <2>1 DEF Connect
  <2>2. CASE Finish
    BY <2>2 DEF Finish, Ends
  <2>3. CASE EndCanceled
    BY <2>3 DEF EndCanceled, Ends
  <2>4. CASE \E c \in cancels : HandleCancel(c) \/ LoseCancel(c)
    <3>1. UNCHANGED <<op, image>> /\ cancels' \subseteq cancels
          /\ UNCHANGED <<nextId, page, pressed, restarts>> /\ lost' \in {lost, TRUE}
      BY <2>4 DEF HandleCancel, LoseCancel
    <3>2. ASSUME NEW c \in cancels, HandleCancel(c) PROVE canceling' => canceling \/ Running
      <4>1. canceling' = (canceling \/ Running)
        BY <3>2 DEF HandleCancel
      <4> HIDE DEF Running
      <4> QED BY <4>1
    <3>3. ASSUME NEW c \in cancels, LoseCancel(c) PROVE canceling' => canceling \/ Running
      BY <3>3 DEF LoseCancel
    <3>4. canceling => Running
      OBVIOUS
    <3>5. canceling' => Running'
      BY <2>4, <3>1, <3>2, <3>3, <3>4
    <3>6. /\ op'.id = op.id /\ op'.page = op.page /\ op'.run = op.run /\ op'.kind = op.kind
          /\ op' \in [id : Nat, kind : {"none", "param", "dump"}, state : OpStates,
                     page : Pages \cup {Nothing}, run : Runs]
          /\ Running' => Running
          /\ image' \in {image, op.id}
      BY <3>1
    <3>7. lost' \in BOOLEAN /\ (lost => lost')
      <4>1. CASE lost' = lost
        BY <4>1
      <4>2. CASE lost' = TRUE
        BY <4>2
      <4> QED BY <3>1, <4>1, <4>2
    <3> QED BY <3>1, <3>5, <3>6, <3>7, Zenon
  <2> QED BY <2>1, <2>2, <2>3, <2>4
<1>2. TypeOK' /\ OpShape'
  BY <1>1 DEF PageInv, TypeOK, OpShape
<1>3. ASSUME NEW q \in Pages PROVE (RunShape(q) /\ IdShape(q) /\ LoopShape(q) /\ Told(q))'
  BY <1>1, <1>3, Others
<1>4. Attended'
  BY <1>1 DEF PageInv, Attended, Awaits
<1> QED BY <1>2, <1>3, <1>4 DEF PageInv

LEMMA RestartStep ==
  ASSUME PageInv, Restart
  PROVE  PageInv'
<1>1. /\ page \in [Pages -> Page] /\ UNCHANGED <<cancels, pressed>> /\ lost' = TRUE
      /\ op' = Idle /\ nextId' = 1 /\ canceling' = FALSE /\ image' = NoId
      /\ restarts' \in 0 .. MaxRestarts
  BY PageAssumption DEF PageInv, TypeOK, Restart
<1>2. \A p \in Pages : page'[p] = [page[p] EXCEPT !.stale = ~Awaits(p, "no")]
  BY DEF Restart
<1>3. ASSUME NEW p \in Pages
      PROVE  /\ page'[p] \in Page /\ page'[p].awaits = page[p].awaits
             /\ page'[p].run = page[p].run /\ page'[p].canceled = page[p].canceled
             /\ page'[p].id = page[p].id /\ page'[p].answer = page[p].answer
             /\ page'[p].stale <=> ~Awaits(p, "no")
  <2> DEFINE b == ~Awaits(p, "no")
  <2>1. b \in BOOLEAN /\ page'[p] = [page[p] EXCEPT !.stale = b] /\ page[p] \in Page
    BY <1>1, <1>2
  <2> HIDE DEF b
  <2>2. page'[p] \in Page /\ page'[p].stale = b
        /\ page'[p].awaits = page[p].awaits
        /\ page'[p].run = page[p].run /\ page'[p].canceled = page[p].canceled
        /\ page'[p].id = page[p].id /\ page'[p].answer = page[p].answer
    BY <2>1 DEF Page
  <2> QED BY <2>2 DEF b
<1>4. page' \in [Pages -> Page]
  BY <1>3 DEF Restart
<1>5. 0 \in Runs
  BY RunsBound DEF Runs
<1>6. TypeOK'
  BY <1>1, <1>4, <1>5 DEF PageInv, TypeOK, Idle, NoId, OpStates, Running
<1>7. OpShape' /\ Attended'
  BY <1>1 DEF OpShape, Attended, Idle, Running
<1>8. ASSUME NEW p \in Pages PROVE (RunShape(p) /\ IdShape(p) /\ LoopShape(p) /\ Told(p))'
  <2>1. RunShape(p) /\ page[p].run \in Nat
    BY <1>1, RunsBound DEF PageInv, Page, Runs
  <2>2. RunShape(p)'
    BY <1>1, <1>3, <2>1 DEF RunShape, Awaits, Idle
  <2>3. page'[p].stale \/ (page'[p].id = 0 /\ page'[p].answer = NoAnswer)
    <3>1. Awaits(p, "no") => page[p].id = 0 /\ page[p].answer = NoAnswer
      BY <2>1 DEF RunShape, NoId
    <3> QED BY <1>3, <3>1
  <2>4. IdShape(p)' /\ LoopShape(p)' /\ Told(p)'
    BY <1>1, <2>3, NoAnswerType DEF IdShape, LoopShape, Told, Idle, NoId, Running
  <2> QED BY <2>2, <2>4
<1> QED BY <1>6, <1>7, <1>8 DEF PageInv

LEMMA NextPage == PageInv /\ [Next]_vars => PageInv'
<1> SUFFICES ASSUME PageInv, [Next]_vars PROVE PageInv'
  OBVIOUS
<1>1. ASSUME NEW p \in Pages,
             \/ \E s \in Styles : Start(p, s)
             \/ Press(p) \/ Step(p) \/ Drop(p)
      PROVE  PageInv'
  BY <1>1, StartStep, PressStep, StartedStep, StatusInStep, DataInStep, WakeStep,
     CancelAnsweredStep, HandleStartStep, HandleStatusStep, HandleDataStep DEF Step
<1>2. CASE UNCHANGED vars
  <2>1. TypeOK' /\ OpShape' /\ Attended'
    BY <1>2 DEF PageInv, TypeOK, OpShape, Attended, Running, Awaits, vars
  <2>2. ASSUME NEW q \in Pages PROVE (RunShape(q) /\ IdShape(q) /\ LoopShape(q) /\ Told(q))'
    BY <1>2, <2>2, Others DEF Running, vars
  <2> QED BY <2>1, <2>2 DEF PageInv
<1> QED BY <1>1, <1>2, WorkerSteps, RestartStep DEF Next

\* Every page's run and the operation of the service stay related as PageInv
\* says, whatever is lost and whenever the ESP32 restarts.
THEOREM PagesInductive == Spec => []PageInv
BY InitPage, NextPage, PTL DEF Spec

\* Every variable keeps its type.
THEOREM PageTypes == Spec => []TypeOK
<1>1. PageInv => TypeOK
  BY DEF PageInv
<1> QED BY <1>1, PagesInductive, PTL

\* A page is told of the operation its own run started, or its run has seen a
\* restart (param_status_handler, flash_dump_status_handler).
THEOREM ToldItsOwn == Spec => []ToldOfItsOwn
<1>1. PageInv => ToldOfItsOwn
  BY DEF PageInv, ToldOfItsOwn, Told
<1> QED BY <1>1, PagesInductive, PTL

\* No operation runs unattended unless something was lost: its run still asks
\* for its status, or its user pressed cancel (runParamBoardOperation).
THEOREM NoneUnattended == Spec => []Attended
<1>1. PageInv => Attended
  BY DEF PageInv
<1> QED BY <1>1, PagesInductive, PTL
-----------------------------------------------------------------------------
(* The operations that the pages see are those of the service.              *)

LEMMA RunsFinite ==
  ASSUME NEW S \in SUBSET (Pages \X (1 .. MaxRuns))
  PROVE  /\ IsFiniteSet(S) /\ Cardinality(S) \in Nat
         /\ Cardinality(S) <= MaxRuns * Cardinality(Pages)
<1>1. IsFiniteSet(1 .. MaxRuns) /\ Cardinality(1 .. MaxRuns) = MaxRuns
  BY RunsBound, FS_Interval
<1>2. IsFiniteSet(Pages \X (1 .. MaxRuns))
      /\ Cardinality(Pages \X (1 .. MaxRuns)) = Cardinality(Pages) * Cardinality(1 .. MaxRuns)
  BY <1>1, PageAssumption, FS_Product
<1>3. Cardinality(Pages) \in Nat /\ MaxRuns \in Nat
  BY PageAssumption, FS_CardinalityType, RunsBound
<1>4. Cardinality(Pages) * MaxRuns = MaxRuns * Cardinality(Pages)
  BY <1>3
<1> QED BY <1>1, <1>2, <1>4, FS_Subset, FS_CardinalityType

(* A run that has asked has asked.                                          *)
LEMMA AskedGrows ==
  ASSUME PageInv, [Next]_vars
  PROVE  Asked \subseteq Asked'
<1>1. ASSUME NEW p \in Pages
      PROVE  \/ page'[p].run = page[p].run /\ (~Awaits(p, "start") => page'[p].awaits # "start")
             \/ page'[p].run = page[p].run + 1
  <2>1. page \in [Pages -> Page] /\ page[p] \in Page
    BY DEF PageInv, TypeOK
  <2>2. CASE page'[p] = page[p]
    BY <2>2 DEF Awaits
  <2>3. ASSUME NEW q \in Pages, NEW outcome \in {"none", "done", "failed", "canceled"},
               Return(q, outcome), page'[p] # page[p]
        PROVE  page'[p].run = page[p].run /\ page'[p].awaits # "start"
    BY <2>1, <2>3, ReturnPage
  <2>4. ASSUME NEW q \in Pages, NEW w, w # "start", NEW a, NEW i,
               \/ page' = [page EXCEPT ![q] = Set(q, w, a)]
               \/ page' = [page EXCEPT ![q] = [Set(q, w, a) EXCEPT !.id = i]]
        PROVE  page'[p] # page[p] => page'[p].run = page[p].run /\ page'[p].awaits # "start"
    <3>1. CASE q = p /\ page' = [page EXCEPT ![q] = Set(q, w, a)]
      BY <2>1, <2>4, <3>1 DEF Set, Page
    <3>2. CASE q = p /\ page' = [page EXCEPT ![q] = [Set(q, w, a) EXCEPT !.id = i]]
      BY <2>1, <2>4, <3>2 DEF Set, Page
    <3>3. CASE q # p
      BY <2>1, <2>4, <3>3
    <3> QED BY <2>4, <3>1, <3>2, <3>3
  <2>5. ASSUME NEW q \in Pages, NEW s \in Styles, Start(q, s), page'[p] # page[p]
        PROVE  page'[p].run = page[p].run + 1
    BY <2>1, <2>5 DEF Start, Page
  <2>6. ASSUME NEW q \in Pages, Press(q)
        PROVE  page'[p].run = page[p].run /\ page'[p].awaits = page[p].awaits
    BY <2>1, <2>6 DEF Press, Page
  <2>7. ASSUME NEW q \in Pages, Step(q) \/ Drop(q), page'[p] # page[p]
        PROVE  page'[p].run = page[p].run /\ page'[p].awaits # "start"
    <3>1. CASE Started(q)
      BY <2>3, <2>4, <2>7, <3>1 DEF Started, Throw, CancelAgain
    <3>2. CASE DataIn(q) \/ CancelAnswered(q) \/ Drop(q)
      BY <2>3, <2>7, <3>2 DEF DataIn, CancelAnswered, Drop, Throw
    <3>3. CASE Wake(q)
      BY <2>4, <2>7, <3>3 DEF Wake, CancelAgain, AskStatus
    <3>4. CASE HandleStart(q)
      BY <2>4, <2>7, <3>4 DEF HandleStart, Answer
    <3>5. CASE HandleStatus(q)
      BY <2>4, <2>7, <3>5 DEF HandleStatus, Answer
    <3>6. CASE HandleData(q)
      BY <2>4, <2>7, <3>6 DEF HandleData, Answer
    <3>7. CASE StatusIn(q)
      <4>1. page[q].answer.state \in {"refused", "idle", "running", "done", "failed", "canceled"}
        BY <3>7 DEF PageInv, RunShape, StatusIn
      <4> QED BY <2>3, <2>4, <2>7, <3>7, <4>1 DEF StatusIn, Throw
    <3> QED BY <2>7, <3>1, <3>2, <3>3, <3>4, <3>5, <3>6, <3>7 DEF Step
  <2>8. CASE Restart
    BY <2>1, <2>8 DEF Restart, Page, Awaits
  <2>9. CASE \/ Connect \/ Finish \/ EndCanceled \/ UNCHANGED vars
             \/ \E c \in cancels : HandleCancel(c) \/ LoseCancel(c)
    BY <2>2, <2>9 DEF Connect, Finish, EndCanceled, Ends, HandleCancel, LoseCancel, vars
  <2> QED BY <2>2, <2>5, <2>6, <2>7, <2>8, <2>9 DEF Next, Awaits
<1>2. \A p \in Pages : page[p].run \in Nat
  BY RunsBound DEF PageInv, TypeOK, Page, Runs
<1>3. ASSUME NEW run \in Asked PROVE run \in Asked'
  <2>1. PICK p \in Pages, n \in 1 .. MaxRuns : run = <<p, n>>
    BY DEF Asked
  <2>2. n < page[p].run \/ (n = page[p].run /\ ~Awaits(p, "start"))
    BY <2>1 DEF Asked
  <2>3. n < page'[p].run \/ (n = page'[p].run /\ page'[p].awaits # "start")
    BY <1>1, <1>2, <2>2
  <2> QED BY <2>1, <2>3 DEF Asked, Awaits
<1> QED BY <1>3

(* The start that is accepted asks for the first time.                      *)
LEMMA AskedNew ==
  ASSUME PageInv, NEW p \in Pages, HandleStart(p)
  PROVE  /\ <<p, page[p].run>> \notin Asked
         /\ <<p, page[p].run>> \in Asked'
<1>1. /\ page \in [Pages -> Page] /\ page[p] \in Page /\ page[p].awaits = "start"
      /\ page[p].run \in Nat /\ page[p].run # 0 /\ page[p].run <= RunsOf[p]
  BY RunsBound DEF PageInv, TypeOK, Page, Runs, RunShape, HandleStart, Awaits
<1>2. page[p].run \in 1 .. MaxRuns
  BY <1>1, RunsBound
<1>3. page'[p].run = page[p].run /\ page'[p].awaits = "startAnswer"
  BY <1>1 DEF HandleStart, Answer, Set, Page
<1> QED BY <1>1, <1>2, <1>3 DEF Asked, Awaits

(* Which steps give out an id, and which restart.                           *)
LEMMA IdWriters ==
  ASSUME [Next]_vars
  PROVE  \/ /\ nextId' = nextId /\ restarts' = restarts
            /\ op' = op \/ Connect \/ Finish \/ EndCanceled
         \/ restarts' = restarts /\ \E p \in Pages :
              /\ HandleStart(p) /\ ~Busy /\ nextId' = nextId + 1
              /\ op' = [id |-> nextId, kind |-> Kind(page[p].style), state |-> "connecting",
                        page |-> p, run |-> page[p].run]
         \/ Restart
<1>1. ASSUME NEW p \in Pages,
             \/ \E s \in Styles : Start(p, s)
             \/ Press(p) \/ Drop(p)
             \/ Started(p) \/ StatusIn(p) \/ DataIn(p) \/ Wake(p) \/ CancelAnswered(p)
             \/ HandleStatus(p) \/ HandleData(p)
      PROVE  UNCHANGED <<op, nextId, restarts>>
  BY <1>1 DEF Start, Press, Drop, Started, StatusIn, DataIn, Wake, CancelAnswered,
     HandleStatus, HandleData, serviceVars
<1>2. ASSUME NEW p \in Pages, HandleStart(p)
      PROVE  /\ restarts' = restarts
             /\ \/ nextId' = nextId /\ op' = op
                \/ /\ ~Busy /\ nextId' = nextId + 1
                   /\ op' = [id |-> nextId, kind |-> Kind(page[p].style), state |-> "connecting",
                             page |-> p, run |-> page[p].run]
  BY <1>2 DEF HandleStart
<1>3. CASE \/ Connect \/ Finish \/ EndCanceled \/ UNCHANGED vars
           \/ \E c \in cancels : HandleCancel(c) \/ LoseCancel(c)
  BY <1>3 DEF Connect, Finish, EndCanceled, Ends, HandleCancel, LoseCancel, vars
<1> QED BY <1>1, <1>2, <1>3 DEF Next, Step

\* Every id is given to a run of its own: no more ids are in use since the last
\* restart than there are runs of the pages (s_next_op_id).
THEOREM IdsBounded == Spec => []IdsGiven
<1>1. Init => IdsGiven
  <2>1. Asked \in SUBSET (Pages \X (1 .. MaxRuns))
    BY DEF Asked
  <2> QED BY <2>1, RunsFinite DEF Init, IdsGiven
<1>2. PageInv /\ IdsGiven /\ [Next]_vars => IdsGiven'
  <2> SUFFICES ASSUME PageInv, IdsGiven, [Next]_vars PROVE IdsGiven'
    OBVIOUS
  <2>1. /\ IsFiniteSet(Asked) /\ Cardinality(Asked) \in Nat
        /\ IsFiniteSet(Asked') /\ Cardinality(Asked') \in Nat
        /\ nextId \in Nat
    <3>1. Asked \in SUBSET (Pages \X (1 .. MaxRuns)) /\ Asked' \in SUBSET (Pages \X (1 .. MaxRuns))
      BY DEF Asked
    <3> QED BY <3>1, RunsFinite DEF PageInv, TypeOK
  <2>2. Cardinality(Asked) <= Cardinality(Asked')
    BY <2>1, AskedGrows, FS_Subset
  <2>3. CASE nextId' = nextId
    BY <2>1, <2>2, <2>3 DEF IdsGiven
  <2>4. CASE Restart
    BY <2>1, <2>4 DEF Restart, IdsGiven
  <2>5. ASSUME NEW p \in Pages, HandleStart(p), nextId' = nextId + 1 PROVE IdsGiven'
    <3> DEFINE run == <<p, page[p].run>>
    <3>1. Asked \cup {run} \in SUBSET Asked' /\ run \notin Asked
      BY <2>5, AskedNew, AskedGrows
    <3>2. IsFiniteSet(Asked \cup {run}) /\ Cardinality(Asked \cup {run}) = Cardinality(Asked) + 1
      BY <2>1, <3>1, FS_AddElement
    <3>3. Cardinality(Asked) + 1 <= Cardinality(Asked')
      BY <2>1, <3>1, <3>2, FS_Subset
    <3> QED BY <2>1, <2>5, <3>3 DEF IdsGiven
  <2> QED BY <2>3, <2>4, <2>5, IdWriters
<1> QED BY <1>1, <1>2, PagesInductive, PTL DEF Spec

\* The operation as the service shows it.
ServiceOp ==
  [id |-> op.id, kind |-> IF op.id = NoId THEN "none" ELSE "read",
   state |-> IF Running THEN "running" ELSE op.state]

LEMMA ServiceStep ==
  ASSUME PageInv, IdsGiven, IdsGiven', [Next]_vars, restarts' = restarts
  PROVE  Service!Next \/ UNCHANGED Service!vars
<1> USE DEF Service!vars, Service!Next, ServiceOp
<1>1. /\ op \in [id : Nat, kind : {"none", "param", "dump"}, state : OpStates,
                 page : Pages \cup {Nothing}, run : Runs]
      /\ nextId \in Nat \ {0} /\ op.id < nextId /\ (Running => op.id # NoId)
  BY DEF PageInv, TypeOK, OpShape, NoId
<1>2. ASSUME NEW p \in Pages, HandleStart(p), ~Busy, nextId' = nextId + 1,
             op' = [id |-> nextId, kind |-> Kind(page[p].style), state |-> "connecting",
                    page |-> p, run |-> page[p].run]
      PROVE  Service!Accept("read")
  <2>1. nextId \in 1 .. MaxRuns * Cardinality(Pages)
    <3>1. Asked' \in SUBSET (Pages \X (1 .. MaxRuns))
      BY DEF Asked
    <3>2. /\ Cardinality(Asked') <= MaxRuns * Cardinality(Pages) /\ Cardinality(Asked') \in Nat
          /\ MaxRuns * Cardinality(Pages) \in Int
      BY <3>1, RunsFinite, RunsBound, PageAssumption, FS_CardinalityType
    <3> QED BY <1>1, <1>2, <3>2 DEF IdsGiven
  <2>2. ServiceOp.state # "running" /\ nextId # op.id
    BY <1>1, <1>2 DEF Busy, Running, OpStates
  <2>3. ServiceOp' = [id |-> nextId, kind |-> "read", state |-> "running"]
    BY <1>1, <1>2 DEF Running, NoId
  <2> QED BY <2>1, <2>2, <2>3 DEF Service!Accept
<1>3. CASE Connect
  BY <1>1, <1>3 DEF Connect, Running
<1>4. ASSUME NEW s \in Service!Results, Running, op' = [op EXCEPT !.state = s]
      PROVE  Service!Finish(s)
  <2>1. ServiceOp.state = "running" /\ ServiceOp.kind = "read"
    BY <1>1, <1>4
  <2>2. ServiceOp' = [ServiceOp EXCEPT !.state = s]
    BY <1>1, <1>4 DEF Running, Service!Results
  <2> QED BY <2>1, <2>2 DEF Service!Finish
<1>5. CASE Finish \/ EndCanceled
  <2>1. \E s \in Service!Results : Running /\ op' = [op EXCEPT !.state = s]
    BY <1>5 DEF Finish, EndCanceled, Ends, SeesCancel, Service!Results, Running
  <2> QED BY <1>4, <2>1
<1>6. CASE op' = op
  BY <1>6 DEF Running
<1>7. ~Restart
  BY DEF Restart, PageInv, TypeOK
<1>8. "read" \in Service!Kinds
  BY DEF Service!Kinds
<1> QED BY <1>2, <1>3, <1>5, <1>6, <1>7, <1>8, IdWriters

\* The operations that the pages see run one at a time, under an id of their
\* own, and keep their results: the service that ParamBoard implements, begun
\* anew by each restart of the ESP32.
THEOREM PagesOnTheService == Spec => OnTheService
<1>1. Init => Service!Init
  BY DEF Init, Service!Init, Idle, Running, NoId
<1>2. PageInv /\ IdsGiven /\ IdsGiven' /\ [Next]_vars =>
        [IF restarts' = restarts THEN Service!Next ELSE Service!Init']_Service!vars
  <2> SUFFICES ASSUME PageInv, IdsGiven, IdsGiven', [Next]_vars
               PROVE  [IF restarts' = restarts THEN Service!Next ELSE Service!Init']_Service!vars
    OBVIOUS
  <2>1. CASE restarts' = restarts
    BY <2>1, ServiceStep
  <2>2. CASE restarts' # restarts
    <3>1. Restart
      BY <2>2, IdWriters
    <3>2. Service!Init'
      BY <3>1 DEF Restart, Service!Init, Idle, Running, NoId
    <3> QED BY <2>2, <3>2
  <2> QED BY <2>1, <2>2
<1> QED BY <1>1, <1>2, PagesInductive, IdsBounded, PTL DEF Spec, OnTheService
=============================================================================
