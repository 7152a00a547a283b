---------------------------- MODULE BoardService ----------------------------
(***************************************************************************)
(* What the parameter-board service promises its callers, without threads, *)
(* locks or a queue: at most one operation at a time, each accepted        *)
(* operation finishes once and keeps its result until the next one is      *)
(* accepted, and a reader of the flash image sees one complete image for   *)
(* as long as it reads.  ParamBoard implements it.                         *)
(***************************************************************************)
EXTENDS Naturals

CONSTANTS Readers, MaxId

VARIABLES
  op,       \* the last accepted operation
  ready,    \* a complete flash image may be read
  image,    \* the operation whose complete image is held (0: none)
  readers   \* who is reading it

vars == <<op, ready, image, readers>>

Kinds == {"read", "write", "dump"}
Results == {"done", "failed", "canceled"}

Init ==
  /\ op = [id |-> 0, kind |-> "none", state |-> "idle"]
  /\ ready = FALSE /\ image = 0 /\ readers = {}

\* A new operation replaces the finished one under another id; a dump takes
\* the old image out of circulation.
Accept(kind) ==
  /\ op.state # "running"
  /\ \E id \in 1 .. MaxId \ {op.id} :
       op' = [id |-> id, kind |-> kind, state |-> "running"]
  /\ ready' = (ready /\ kind # "dump")
  /\ UNCHANGED <<image, readers>>

\* Only a running dump touches the image, and never under a reader.
Refill ==
  /\ op.state = "running" /\ op.kind = "dump" /\ readers = {}
  /\ image' \in {0, op.id}
  /\ UNCHANGED <<op, ready, readers>>

Finish(result) ==
  /\ op.state = "running"
  /\ op' = [op EXCEPT !.state = result]
  /\ IF op.kind = "dump"
     THEN ready' = (result = "done") /\ (result = "done" => image = op.id)
     ELSE UNCHANGED ready
  /\ UNCHANGED <<image, readers>>

Open(r) ==
  /\ ready /\ readers = {}
  /\ readers' = {r}
  /\ UNCHANGED <<op, ready, image>>

Close ==
  /\ readers' = {}
  /\ UNCHANGED <<op, ready, image>>

Next ==
  \/ \E k \in Kinds : Accept(k)
  \/ Refill
  \/ \E s \in Results : Finish(s)
  \/ \E r \in Readers : Open(r)
  \/ Close

Spec == Init /\ [][Next]_vars
=============================================================================
