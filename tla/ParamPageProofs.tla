-------------------------- MODULE ParamPageProofs ---------------------------
(***************************************************************************)
(* The safety properties of the parameter page, for any number of paths,   *)
(* files, addresses and runs.  A download collects its values from a table *)
(* whose addresses are the visible ones of the file it was parsed from     *)
(* (TableInv), carries them unchanged through the readback and the         *)
(* confirmation (FlowInv), and the server merges them with the file it     *)
(* finds (OpInv); the board holds what was read until the write (HeldInv); *)
(* the conversion to ticks loses nothing (RoundTrip).                      *)
(*                                                                         *)
(* The last part is about the dump page, which shares the page's buttons,  *)
(* for an image, pages and rows of any size.                               *)
(***************************************************************************)
EXTENDS ParamPage, TLAPS

-----------------------------------------------------------------------------
(* The conversion (param_ns_to_board_tick, param_board_tick_to_ns). *)

(* A value the server takes comes back from its ticks as it was. *)
LEMMA RoundTrip ==
  ASSUME NEW v \in Nat, Convertible(v)
  PROVE  ToTick(v) \in Nat /\ ToNs(ToTick(v)) = v
<1>1. Base \in Nat /\ Base > 0
  BY ValueAssumption
<1>2. v = Base * (v \div Base) + (v % Base)
  BY <1>1, SMT
<1>3. v % Base = 0 /\ v \div Base \in Nat
  BY <1>1, SMT DEF Convertible
<1> QED
  BY <1>1, <1>2, <1>3, SMT DEF ToTick, ToNs

(* Its ticks fit 16 bits. *)
LEMMA InRange ==
  ASSUME NEW v \in Nat, Convertible(v)
  PROVE  ToTick(v) \in Ticks
<1>1. Base \in Nat /\ Base > 0 /\ MaxTick \in Nat
  BY ValueAssumption
<1>2. ToTick(v) \in Nat /\ ToTick(v) * Base <= MaxTick * Base
  BY <1>1, RoundTrip DEF Convertible, ToNs, MaxNs
<1>3. ToTick(v) <= MaxTick
  BY <1>1, <1>2, SMTT(30)
<1> QED
  BY <1>1, <1>2, <1>3 DEF Ticks

(* A tick is shown as a number of nanoseconds that gives it again. *)
LEMMA ShownIsText ==
  ASSUME NEW t \in Ticks
  PROVE  ToNs(t) \in Nat /\ ToTick(ToNs(t)) = t
<1>1. Base \in Nat /\ Base > 0 /\ t \in Nat
  BY ValueAssumption DEF Ticks
<1> QED
  BY <1>1, SMT DEF ToNs, ToTick

-----------------------------------------------------------------------------
(* Files, texts and boards. *)

LEMMA Files ==
  ASSUME NEW f \in Contents
  PROVE  /\ f # NoFile
         /\ Visible(f) \subseteq Addresses
         /\ \A a \in Addresses : f[a].default \in Nat
BY PageAssumption DEF Parsed, NoFile, Visible

LEMMA TextOfFunction ==
  ASSUME NEW S, S \subseteq Addresses, NEW v, v \in [S -> Nat]
  PROVE  IsText(v) /\ IsFields(v)
BY DEF IsText, IsFields

LEMMA Empty == IsText(NoValues) /\ IsFields(NoValues) /\ NoValues \in [{} -> Nat]
<1>1. NoValues \in [{} -> Nat]
  BY DEF NoValues
<1> QED
  BY <1>1, TextOfFunction

LEMMA TextFacts ==
  ASSUME NEW v, IsText(v)
  PROVE  /\ DOMAIN v \subseteq Addresses /\ \A a \in DOMAIN v : v[a] \in Nat
         /\ v \in [DOMAIN v -> Nat]
         /\ v # NoValues => DOMAIN v # {}
BY DEF IsText, NoValues

LEMMA FieldsFacts ==
  ASSUME NEW v, IsFields(v)
  PROVE  /\ DOMAIN v \subseteq Addresses /\ \A a \in DOMAIN v : v[a] \in Nat \cup {Blank}
         /\ v \in [DOMAIN v -> Nat \cup {Blank}]
         /\ v # NoValues => DOMAIN v # {}
BY DEF IsFields, NoValues

(* What the pages collect is what the server takes. *)
LEMMA CollectedText ==
  ASSUME NEW v, IsFields(v), Collectable(v)
  PROVE  IsText(v) /\ AllConvertible(v)
<1>1. v \in [DOMAIN v -> Nat] /\ DOMAIN v \subseteq Addresses
  BY FieldsFacts DEF Collectable
<1>2. \A a \in DOMAIN v : Convertible(v[a])
  BY DEF Collectable, Convertible
<1> QED
  BY <1>1, <1>2, TextOfFunction DEF AllConvertible

LEMMA MergedType ==
  ASSUME NEW v, IsText(v), NEW f \in Contents
  PROVE  Merged(v, f) \in [Addresses -> Nat]
BY TextFacts, Files DEF Merged

LEMMA TicksType ==
  ASSUME NEW v \in [Addresses -> Nat], AllConvertible(v)
  PROVE  ToTicks(v) \in [Addresses -> Ticks]
<1>1. \A a \in Addresses : ToTick(v[a]) \in Ticks
  BY InRange DEF AllConvertible
<1> QED
  BY <1>1 DEF ToTicks

LEMMA DefaultsType ==
  ASSUME NEW f \in Contents
  PROVE  Defaults(f) \in [Addresses -> Nat]
BY Files DEF Defaults

LEMMA ShownType ==
  ASSUME NEW t \in [Addresses -> Ticks], NEW f \in Contents
  PROVE  IsText(Shown(t, f)) /\ DOMAIN Shown(t, f) = Visible(f)
<1>1. Visible(f) \subseteq Addresses
  BY Files
<1>2. Shown(t, f) \in [Visible(f) -> Nat]
  BY <1>1, ShownIsText DEF Shown
<1> QED
  BY <1>1, <1>2, TextOfFunction

(* A payload that the server parsed and merged, but cannot convert, meets a
   hidden default it cannot convert. *)
LEMMA Unmergeable ==
  ASSUME NEW v, IsText(v), NEW f \in Contents, AllConvertible(v),
         ~AllConvertible(Merged(v, f))
  PROVE  ~AllConvertible(Defaults(f))
BY TextFacts DEF AllConvertible, Merged, Defaults

-----------------------------------------------------------------------------
(* Types. *)

LEMMA Records ==
  /\ NoFlow \in [stage : Stages, kind : {"none", "readback", "download"},
                 path : Paths \cup {None}, gen : Nat, payload : {NoValues},
                 readback : {NoValues}, held : Boards, foreign : BOOLEAN,
                 confirmed : {NoValues}, from : MaybeFile, file : MaybeFile]
  /\ NoFlow.stage = "no" /\ NoFlow.payload = NoValues /\ NoFlow.readback = NoValues
  /\ NoFlow.confirmed = NoValues
  /\ NoOp \in [kind : {"none", "read", "write"}, state : {"done", "running"}, mine : BOOLEAN,
               ticks : Boards, file : MaybeFile]
  /\ NoOp.mine = FALSE /\ NoOp.state = "done"
  /\ NoValues \in Boards /\ NoFile \in MaybeFile
BY DEF NoFlow, NoOp, Stages, Boards, MaybeFile

LEMMA EmptyTable ==
  ASSUME NEW gen \in Nat
  PROVE  /\ TableType(NoTable(gen)) /\ TableInv(NoTable(gen))
         /\ NoTable(gen).origins = {} /\ NoTable(gen).gen = gen
<1>1. NoTable(gen).params = NoValues /\ NoTable(gen).defaults = NoValues
      /\ NoTable(gen).parsed = FALSE /\ NoTable(gen).from = NoFile /\ NoTable(gen).origins = {}
      /\ NoTable(gen).gen = gen
  BY DEF NoTable
<1>2. TableType(NoTable(gen))
  BY <1>1, Empty, Records DEF TableType, NoTable
<1> QED
  BY <1>1, <1>2 DEF TableInv

(* No run is at a stage that carries anything, and none begins without. *)
LEMMA NoFlowType == flow' = NoFlow => FlowType'
BY Records, Empty DEF FlowType

LEMMA InitInv == Init => TypeOK /\ ValuesOfOwnPath /\ PageInv
<1> SUFFICES ASSUME Init PROVE TypeOK /\ ValuesOfOwnPath /\ PageInv
  OBVIOUS
<1>1. ServerType
  BY Records, PageAssumption DEF Init, ServerType, MaybeFile
<1>2. Stored \in SUBSET Paths /\ \A p \in Paths : tables[p] = NoTable(0)
  BY DEF Init, Stored
<1>3. PageType
  BY <1>2, EmptyTable DEF Init, PageType
<1>4. FlowType
  BY Records, Empty DEF Init, FlowType
<1>5. used \in [runs : Nat, edits : Nat, changes : Nat]
  BY DEF Init
<1>6. TypeOK
  BY <1>1, <1>3, <1>4, <1>5 DEF TypeOK
<1>7. ValuesOfOwnPath
  BY <1>2, EmptyTable DEF ValuesOfOwnPath
<1>8. FlowInv /\ OpInv /\ HeldInv
  BY Records DEF Init, FlowInv, OpInv, HeldInv, At, Running
<1> QED
  BY <1>2, <1>6, <1>7, <1>8, EmptyTable DEF PageInv

(* The bounds only count. *)
LEMMA UseType ==
  ASSUME used \in [runs : Nat, edits : Nat, changes : Nat],
         NEW b \in {"runs", "edits", "changes"}, NEW max, Use(b, max)
  PROVE  used' \in [runs : Nat, edits : Nat, changes : Nat]
BY DEF Use

-----------------------------------------------------------------------------
(* The tables: typed, with the parameters of their file, and values of their
   own path. *)

TablesOK ==
  /\ tables = [p \in Paths |-> tables[p]]
  /\ \A p \in Paths : TableType(tables[p]) /\ TableInv(tables[p]) /\ tables[p].origins \subseteq {p}

(* A table is replaced by one that has all that. *)
LEMMA TableReplaced ==
  ASSUME TablesOK, NEW p \in Paths, NEW t, TableType(t), TableInv(t), t.origins \subseteq {p},
         tables' = [tables EXCEPT ![p] = t]
  PROVE  TablesOK'
<1>1. tables' = [q \in Paths |-> IF q = p THEN t ELSE tables[q]]
  BY DEF TablesOK
<1>2. \A q \in Paths : tables'[q] = IF q = p THEN t ELSE tables[q]
  BY <1>1
<1> QED
  BY <1>1, <1>2 DEF TablesOK

LEMMA CarriedType ==
  ASSUME NEW old, IsFields(old), NEW f \in Contents, NEW a \in Visible(f)
  PROVE  Carried(old, a, f) \in Nat \cup {Blank}
<1> DEFINE same == {b \in DOMAIN old : b = a}
           there == {b \in DOMAIN old : Index(b, DOMAIN old) = Index(a, Visible(f))}
           kept == IF same # {} THEN same ELSE there
<1>1. kept \subseteq DOMAIN old
  OBVIOUS
<1>2. (\E b \in kept : old[b] # Blank) => (CHOOSE b \in kept : TRUE) \in kept
  OBVIOUS
<1>3. f[a].default \in Nat
  BY Files
<1>4. Carried(old, a, f) = IF \E b \in kept : old[b] # Blank
                           THEN old[CHOOSE b \in kept : TRUE] ELSE f[a].default
  BY DEF Carried
<1> HIDE DEF kept
<1> QED
  BY <1>1, <1>2, <1>3, <1>4, FieldsFacts

LEMMA ReceiveParseTables ==
  ASSUME TypeOK, TablesOK, NEW r \in parses, ReceiveParse(r)
  PROVE  TablesOK'
<1>1. r.path \in Paths /\ r.file \in MaybeFile
  BY DEF TypeOK, PageType
<1>2. CASE r.file = NoFile
  BY <1>2 DEF ReceiveParse, TablesOK
<1>3. CASE r.file # NoFile
  <2> DEFINE old == tables[r.path]
             t == [gen |-> old.gen, parsed |-> TRUE, from |-> r.file,
                   origins |-> old.origins \cup {r.path},
                   params |-> [a \in Visible(r.file) |-> Carried(old.params, a, r.file)],
                   defaults |-> [a \in Visible(r.file) |-> r.file[a].default]]
  <2>1. r.file \in Contents
    BY <1>1, <1>3 DEF MaybeFile
  <2>2. tables' = [tables EXCEPT ![r.path] = t]
    BY <1>1, <1>3 DEF ReceiveParse, TablesOK
  <2>3. TableType(old) /\ old.origins \subseteq {r.path}
    BY <1>1 DEF TablesOK
  <2>4. Visible(r.file) \subseteq Addresses
    BY <2>1, Files
  <2>5. IsFields(t.params)
    <3>1. \A a \in Visible(r.file) : Carried(old.params, a, r.file) \in Nat \cup {Blank}
      BY <2>1, <2>3, CarriedType DEF TableType
    <3>2. t.params \in [Visible(r.file) -> Nat \cup {Blank}]
      BY <3>1
    <3> QED
      BY <2>4, <3>2 DEF IsFields
  <2>6. IsText(t.defaults)
    <3>1. t.defaults \in [Visible(r.file) -> Nat]
      BY <2>1, <2>4, Files
    <3> QED
      BY <2>4, <3>1, TextOfFunction
  <2>7. TableType(t)
    <3>1. old.gen \in Nat /\ old.origins \subseteq Paths
      BY <2>3 DEF TableType
    <3>2. t.gen = old.gen /\ t.origins = old.origins \cup {r.path}
      OBVIOUS
    <3> QED
      BY <1>1, <2>5, <2>6, <3>1, <3>2 DEF TableType
  <2>8. TableInv(t) /\ t.origins \subseteq {r.path}
    BY <2>1, <2>3 DEF TableInv
  <2> HIDE DEF t, old
  <2> QED
    BY <1>1, <2>2, <2>7, <2>8, TableReplaced
<1> QED
  BY <1>2, <1>3

(* The values of a table change, for the addresses it has. *)
LEMMA ValuesReplaced ==
  ASSUME TablesOK, NEW p \in Paths, NEW v \in [DOMAIN tables[p].params -> Nat \cup {Blank}],
         tables' = [tables EXCEPT ![p].params = v, ![p].origins = @ \cup {p}]
  PROVE  TablesOK'
<1> DEFINE t == [tables[p] EXCEPT !.params = v, !.origins = @ \cup {p}]
<1>1. TableType(tables[p]) /\ TableInv(tables[p]) /\ tables[p].origins \subseteq {p}
  BY DEF TablesOK
<1>2. /\ t.gen = tables[p].gen /\ t.parsed = tables[p].parsed /\ t.params = v
      /\ t.defaults = tables[p].defaults /\ t.from = tables[p].from
      /\ t.origins = tables[p].origins \cup {p}
  BY <1>1 DEF TableType
<1>3. IsFields(v) /\ (DOMAIN v = {} => v = NoValues) /\ DOMAIN v = DOMAIN tables[p].params
  <2>1. DOMAIN tables[p].params \subseteq Addresses
    BY <1>1, FieldsFacts DEF TableType
  <2> QED
    BY <2>1 DEF IsFields, NoValues
<1>4. TableType(t)
  <2>1. t \in [gen : Nat, parsed : BOOLEAN, params : {v}, defaults : {tables[p].defaults},
               from : MaybeFile, origins : SUBSET Paths]
    BY <1>1 DEF TableType
  <2> QED
    BY <1>1, <1>2, <1>3, <2>1 DEF TableType
<1>5. TableInv(t)
  BY <1>1, <1>2, <1>3 DEF TableInv, NoValues
<1>6. tables' = [tables EXCEPT ![p] = t]
  BY DEF TablesOK
<1> HIDE DEF t
<1> QED
  BY <1>1, <1>2, <1>4, <1>5, <1>6, TableReplaced

LEMMA FillTables ==
  ASSUME TypeOK, TablesOK, NEW v \in [DOMAIN tables[selected].params -> Nat \cup {Blank}], Fill(v)
  PROVE  TablesOK'
<1>1. selected \in Paths
  BY DEF TypeOK, PageType, Fill
<1> QED
  BY <1>1, ValuesReplaced DEF Fill

LEMMA InputTables ==
  ASSUME TypeOK, TablesOK, NEW a \in Addresses, Input(a)
  PROVE  TablesOK'
<1>1. PICK v \in {Clamp(n) : n \in Inputs} \cup {Blank} : Type(a, v)
  BY DEF Input
<1>2. MaxNs \in Nat
  BY ValueAssumption, SMT DEF MaxNs
<1>3. v \in Nat \cup {Blank}
  BY <1>1, <1>2, PageAssumption DEF Clamp
<1>4. selected \in Paths
  BY <1>1 DEF Type, TypeOK, PageType
<1>5. tables[selected].params \in [DOMAIN tables[selected].params -> Nat \cup {Blank}]
  BY <1>4, FieldsFacts DEF TablesOK, TableType
<1>6. [tables[selected].params EXCEPT ![a] = v]
        \in [DOMAIN tables[selected].params -> Nat \cup {Blank}]
  BY <1>3, <1>5
<1> QED
  BY <1>1, <1>6, FillTables DEF Type

LEMMA DefaultTables ==
  ASSUME TypeOK, TablesOK, ActDefault
  PROVE  TablesOK'
<1>1. selected \in Paths
  BY DEF ActDefault, TypeOK, PageType
<1>2. tables[selected].defaults \in [DOMAIN tables[selected].params -> Nat \cup {Blank}]
  BY <1>1, TextFacts DEF TablesOK, TableType, TableInv
<1> QED
  BY <1>2, FillTables DEF ActDefault

LEMMA DeleteTables ==
  ASSUME TypeOK, TablesOK, NEW p \in Paths, Deleted(p)
  PROVE  TablesOK'
<1>1. tables[p].gen + 1 \in Nat
  BY DEF TablesOK, TableType
<1>2. tables' = [tables EXCEPT ![p] = NoTable(tables[p].gen + 1)]
  BY DEF Deleted, TablesOK
<1> QED
  BY <1>1, <1>2, EmptyTable, TableReplaced

LEMMA ReceiveReadTables ==
  ASSUME TypeOK, TablesOK, ReceiveRead
  PROVE  TablesOK'
<1> DEFINE p == flow.path
           old == tables[p].params
           v == [a \in DOMAIN old |-> IF a \in DOMAIN flow.readback THEN flow.readback[a] ELSE old[a]]
<1>1. CASE UNCHANGED tables
  BY <1>1 DEF TablesOK
<1>2. CASE /\ selected = flow.path /\ tables[p].gen = flow.gen
           /\ tables' = [tables EXCEPT ![p].params = v, ![p].origins = @ \cup {p}]
  <2>1. CASE p \in Paths
    <3>1. old \in [DOMAIN old -> Nat \cup {Blank}]
      BY <2>1, FieldsFacts DEF TablesOK, TableType
    <3>2. \A a \in DOMAIN flow.readback : flow.readback[a] \in Nat
      BY TextFacts DEF TypeOK, FlowType
    <3>3. v \in [DOMAIN old -> Nat \cup {Blank}]
      BY <3>1, <3>2
    <3> HIDE DEF v
    <3> QED
      BY <1>2, <2>1, <3>3, ValuesReplaced
  <2>2. CASE p \notin Paths
    <3>1. tables' = tables
      BY <1>2, <2>2 DEF TablesOK
    <3> QED
      BY <3>1 DEF TablesOK
  <2> QED
    BY <2>1, <2>2
<1>3. UNCHANGED tables \/ (/\ selected = flow.path /\ tables[p].gen = flow.gen
           /\ tables' = [tables EXCEPT ![p].params = v, ![p].origins = @ \cup {p}])
  BY DEF ReceiveRead, Takes, TakeOver, TablesOK
<1> QED
  BY <1>1, <1>2, <1>3


LEMMA NextTables ==
  ASSUME TypeOK, TablesOK, [Next]_vars
  PROVE  TablesOK'
<1>1. CASE UNCHANGED tables
  BY <1>1 DEF TablesOK
<1>2. ASSUME NEW p \in Paths, Deleted(p) PROVE TablesOK'
  BY <1>2, DeleteTables
<1>3. ASSUME NEW r \in parses, ReceiveParse(r) PROVE TablesOK'
  BY <1>3, ReceiveParseTables
<1>4. ASSUME NEW a \in Addresses, Input(a) PROVE TablesOK'
  BY <1>4, InputTables
<1>5. CASE ActDefault
  BY <1>5, DefaultTables
<1>6. CASE ReceiveRead
  BY <1>6, ReceiveReadTables
<1>7. ASSUME NEW p \in Paths, Choose(p) \/ Delete(p) PROVE UNCHANGED tables
  BY <1>7 DEF Choose, Delete
<1>8. ASSUME NEW p \in Paths, NEW f \in Contents \cup {NoFile}, Change(p, f) PROVE UNCHANGED tables
  BY <1>8 DEF Change, page
<1>9. ASSUME NEW l \in lists, ReceiveFiles(l) PROVE UNCHANGED tables
  BY <1>9 DEF ReceiveFiles
<1>10. ASSUME NEW t \in OtherTicks, OtherWrite(t) PROVE UNCHANGED tables
  BY <1>10 DEF OtherWrite, page
<1>11. CASE \/ AskFiles \/ ActReadback \/ ActDownload \/ Fail \/ HandleRead \/ WorkerRead
            \/ HandleStatus \/ Confirm \/ HandleWrite \/ WorkerWrite \/ WorkerFails \/ Finish
  <2>1. UNCHANGED tables
    BY <1>11 DEF AskFiles, ActReadback, ActDownload, Run, Fail, HandleRead, WorkerRead,
         HandleStatus, Confirm, HandleWrite, WorkerWrite, WorkerFails, Finish, page
  <2> QED
    BY <1>1, <2>1
<1>12. CASE UNCHANGED vars
  BY <1>1, <1>12 DEF vars
<1> QED
  BY <1>1, <1>2, <1>3, <1>4, <1>5, <1>6, <1>7, <1>8, <1>9, <1>10, <1>11, <1>12 DEF Next

-----------------------------------------------------------------------------
(* What the page keeps besides: the list, the selection, answers on their way. *)

LEMMA StoredPaths == Stored \in SUBSET Paths
BY DEF Stored

LEMMA SelectType ==
  ASSUME TypeOK, NEW p \in Paths, Select(p, tables)
  PROVE  /\ selected' \in Paths \cup {None}
         /\ parses' \subseteq [path : Paths, file : MaybeFile]
<1>1. files[p] \in MaybeFile
  BY DEF TypeOK, ServerType
<1> QED
  BY <1>1 DEF Select, TypeOK, PageType

PageLists ==
  /\ list \subseteq Paths /\ selected \in Paths \cup {None}
  /\ parses \subseteq [path : Paths, file : MaybeFile] /\ lists \subseteq SUBSET Paths
  /\ deletes \subseteq Paths

LEMMA NextLists ==
  ASSUME TypeOK, [Next]_vars
  PROVE  PageLists'
<1>1. PageLists
  BY DEF TypeOK, PageType, PageLists
<1>2. CASE UNCHANGED <<list, selected, parses, lists, deletes>>
  BY <1>1, <1>2 DEF PageLists
<1>3. ASSUME NEW p \in Paths, Choose(p) PROVE PageLists'
  BY <1>1, <1>3, SelectType DEF Choose, PageLists
<1>4. ASSUME NEW p \in Paths, Delete(p) \/ Deleted(p) PROVE PageLists'
  <2>1. CASE Delete(p)
    BY <1>1, <2>1 DEF Delete, PageLists
  <2>2. CASE Deleted(p)
    BY <1>1, <2>2, StoredPaths DEF Deleted, PageLists
  <2> QED
    BY <1>4, <2>1, <2>2
<1>5. ASSUME NEW r \in parses, ReceiveParse(r) PROVE PageLists'
  BY <1>1, <1>5 DEF ReceiveParse, PageLists
<1>6. ASSUME NEW l \in lists, ReceiveFiles(l) PROVE PageLists'
  <2>1. l \subseteq Paths
    BY <1>1 DEF PageLists
  <2>2. CASE selected \in l \/ l = {}
    BY <1>1, <1>6, <2>1, <2>2 DEF ReceiveFiles, PageLists
  <2>3. CASE ~(selected \in l \/ l = {})
    <3>1. ASSUME NEW p \in l, Select(p, tables) PROVE PageLists'
      BY <1>1, <1>6, <2>1, <3>1, SelectType DEF ReceiveFiles, PageLists
    <3>2. CASE selected' = None /\ UNCHANGED parses
      BY <1>1, <1>6, <2>1, <3>2 DEF ReceiveFiles, PageLists
    <3> QED
      BY <1>6, <2>3, <3>1, <3>2 DEF ReceiveFiles
  <2> QED
    BY <2>2, <2>3
<1>7. CASE AskFiles
  BY <1>1, <1>7, StoredPaths DEF AskFiles, PageLists
<1>8. ASSUME NEW a \in Addresses, Input(a) PROVE UNCHANGED <<list, selected, parses, lists, deletes>>
  BY <1>8 DEF Input, Type, Fill
<1>9. ASSUME NEW p \in Paths, NEW f \in Contents \cup {NoFile}, Change(p, f)
      PROVE  UNCHANGED <<list, selected, parses, lists, deletes>>
  BY <1>9 DEF Change, page
<1>10. ASSUME NEW t \in OtherTicks, OtherWrite(t) PROVE UNCHANGED <<list, selected, parses, lists, deletes>>
  BY <1>10 DEF OtherWrite, page
<1>11. CASE \/ ActDefault \/ ActReadback \/ ActDownload \/ Fail \/ HandleRead \/ WorkerRead
            \/ HandleStatus \/ ReceiveRead \/ Confirm \/ HandleWrite \/ WorkerWrite
            \/ WorkerFails \/ Finish
  <2>1. UNCHANGED <<list, selected, parses, lists, deletes>>
    BY <1>11 DEF ActDefault, Fill, ActReadback, ActDownload, Run, Fail, HandleRead, WorkerRead,
         HandleStatus, ReceiveRead, Confirm, HandleWrite, WorkerWrite, WorkerFails, Finish, page
  <2> QED
    BY <1>2, <2>1
<1>12. CASE UNCHANGED vars
  BY <1>2, <1>12 DEF vars
<1> QED
  BY <1>2, <1>3, <1>4, <1>5, <1>6, <1>7, <1>8, <1>9, <1>10, <1>11, <1>12 DEF Next

-----------------------------------------------------------------------------
(* The server: what it starts an operation with fits the board. *)

LEMMA LaunchedRead ==
  ASSUME NEW f \in Contents, AllConvertible(Defaults(f))
  PROVE  ToTicks(Defaults(f)) \in [Addresses -> Ticks]
BY DefaultsType, TicksType

LEMMA LaunchedWrite ==
  ASSUME NEW v, IsText(v), NEW f \in Contents, AllConvertible(Merged(v, f))
  PROVE  ToTicks(Merged(v, f)) \in [Addresses -> Ticks]
BY MergedType, TicksType

OpType ==
  op \in [kind : {"none", "read", "write"}, state : {"done", "running"}, mine : BOOLEAN,
          ticks : Boards, file : MaybeFile]

LEMMA LaunchType ==
  ASSUME NEW kind \in {"read", "write"}, NEW v, ToTicks(v) \in [Addresses -> Ticks],
         NEW f \in Contents, Launch(kind, v, f)
  PROVE  OpType'
BY DEF Launch, OpType, Boards, MaybeFile

LEMMA FileOfRun ==
  ASSUME TypeOK, FlowInv, ~At("no")
  PROVE  flow.path \in Paths /\ files[flow.path] \in Contents \cup {NoFile}
BY DEF TypeOK, ServerType, FlowInv, MaybeFile

LEMMA NextServer ==
  ASSUME TypeOK, FlowInv, [Next]_vars
  PROVE  ServerType'
<1>1. files \in [Paths -> MaybeFile] /\ board \in Boards /\ OpType
  BY DEF TypeOK, ServerType, OpType
<1>2. CASE UNCHANGED server
  BY <1>1, <1>2 DEF server, ServerType, OpType
<1> SUFFICES files' \in [Paths -> MaybeFile] /\ board' \in Boards /\ OpType'
  BY DEF ServerType, OpType
<1>3. ASSUME NEW p \in Paths, Delete(p) \/ Deleted(p)
      PROVE  files' \in [Paths -> MaybeFile] /\ UNCHANGED <<board, op>>
  <2>1. CASE Delete(p)
    BY <1>1, <2>1, Records DEF Delete
  <2>2. CASE Deleted(p)
    BY <1>1, <2>2 DEF Deleted, server
  <2> QED
    BY <1>3, <2>1, <2>2
<1>4. ASSUME NEW p \in Paths, NEW f \in Contents \cup {NoFile}, Change(p, f)
      PROVE  files' \in [Paths -> MaybeFile] /\ UNCHANGED <<board, op>>
  BY <1>1, <1>4 DEF Change, MaybeFile
<1>5. ASSUME NEW t \in OtherTicks, OtherWrite(t)
      PROVE  files' \in [Paths -> MaybeFile] /\ board' \in Boards /\ OpType'
  <2>1. t \in Boards
    BY PageAssumption DEF Boards
  <2>2. op' \in [kind : {"none", "read", "write"}, state : {"done", "running"}, mine : BOOLEAN,
                 ticks : Boards, file : MaybeFile]
    BY <1>5, Records DEF OtherWrite
  <2> QED
    BY <1>1, <1>5, <2>1, <2>2 DEF OtherWrite, OpType
<1>6. CASE HandleRead
  <2> DEFINE f == files[flow.path]
  <2>1. f \in Contents \cup {NoFile}
    BY <1>6, FileOfRun DEF HandleRead, At
  <2>2. CASE f = NoFile \/ ~AllConvertible(Defaults(f))
    BY <1>1, <1>6, <2>2 DEF HandleRead, OpType
  <2>3. CASE ~(f = NoFile \/ ~AllConvertible(Defaults(f)))
    <3>1. f \in Contents /\ Launch("read", Defaults(f), f)
      BY <1>6, <2>1, <2>3 DEF HandleRead
    <3>2. OpType'
      BY <2>3, <3>1, LaunchedRead, LaunchType
    <3> QED
      BY <1>1, <1>6, <3>2 DEF HandleRead
  <2> QED
    BY <2>2, <2>3
<1>7. CASE HandleWrite
  <2> DEFINE f == files[flow.path]
  <2>1. f \in Contents \cup {NoFile} /\ IsText(flow.payload)
    BY <1>7, FileOfRun DEF HandleWrite, At, TypeOK, FlowType
  <2>2. CASE f = NoFile \/ ~Parses(Sent, f) \/ ~AllConvertible(Merged(Sent, f))
    BY <1>1, <1>7, <2>2 DEF HandleWrite, OpType
  <2>3. CASE ~(f = NoFile \/ ~Parses(Sent, f) \/ ~AllConvertible(Merged(Sent, f)))
    <3>1. f \in Contents /\ Launch("write", Merged(flow.payload, f), f)
      BY <1>7, <2>1, <2>3 DEF HandleWrite, Sent
    <3>2. OpType'
      BY <2>1, <2>3, <3>1, LaunchedWrite, LaunchType DEF Sent
    <3> QED
      BY <1>1, <1>7, <3>2 DEF HandleWrite
  <2> QED
    BY <2>2, <2>3
<1>8. CASE WorkerRead
  <2>1. board' \in Boards
    BY <1>1, <1>8 DEF WorkerRead, Initialised, OpType
  <2> QED
    BY <1>1, <1>8, <2>1 DEF WorkerRead, OpType
<1>9. CASE WorkerWrite
  BY <1>1, <1>9 DEF WorkerWrite, OpType
<1>10. CASE WorkerFails
  <2>1. board' \in Boards
    BY <1>1, <1>10 DEF WorkerFails, OpType
  <2> QED
    BY <1>1, <1>10, <2>1, Records DEF WorkerFails, OpType
<1>11. ASSUME NEW p \in Paths, Choose(p) PROVE UNCHANGED server
  BY <1>11 DEF Choose
<1>12. ASSUME NEW r \in parses, ReceiveParse(r) PROVE UNCHANGED server
  BY <1>12 DEF ReceiveParse
<1>13. ASSUME NEW l \in lists, ReceiveFiles(l) PROVE UNCHANGED server
  BY <1>13 DEF ReceiveFiles
<1>14. ASSUME NEW a \in Addresses, Input(a) PROVE UNCHANGED server
  BY <1>14 DEF Input, Type, Fill
<1>15. CASE \/ AskFiles \/ ActDefault \/ ActReadback \/ ActDownload \/ Fail \/ HandleStatus
            \/ ReceiveRead \/ Confirm \/ Finish
  <2>1. UNCHANGED server
    BY <1>15 DEF AskFiles, ActDefault, Fill, ActReadback, ActDownload, Run, Fail, HandleStatus,
         ReceiveRead, Confirm, Finish
  <2> QED
    BY <1>1, <2>1 DEF server, OpType
<1>16. CASE UNCHANGED vars
  BY <1>1, <1>16 DEF vars, OpType
<1>17. UNCHANGED server => files' \in [Paths -> MaybeFile] /\ board' \in Boards /\ OpType'
  BY <1>1 DEF server, OpType
<1>18. UNCHANGED <<board, op>> => board' \in Boards /\ OpType'
  BY <1>1 DEF OpType
<1> QED
  BY <1>3, <1>4, <1>5, <1>6, <1>7, <1>8, <1>9, <1>10, <1>11, <1>12, <1>13, <1>14, <1>15,
     <1>16, <1>17, <1>18 DEF Next

-----------------------------------------------------------------------------
(* A run: what it carries is typed, and belongs to the file it came from. *)

FlowOK == FlowType /\ FlowInv

LEMMA NoFlowOK == flow' = NoFlow => FlowOK'
<1> SUFFICES ASSUME flow' = NoFlow PROVE FlowOK'
  OBVIOUS
<1>1. flow'.stage = "no" /\ flow'.payload = NoValues
  BY Records
<1>2. FlowInv'
  BY <1>1 DEF FlowInv, At
<1> QED
  BY <1>2, NoFlowType DEF FlowOK

(* A step that changes only the stage and what others did. *)
LEMMA StageStep ==
  ASSUME FlowOK, NEW s \in Stages, NEW h \in Boards, NEW b \in BOOLEAN, NEW f \in MaybeFile,
         flow' = [flow EXCEPT !.stage = s, !.held = h, !.foreign = b, !.file = f],
         s # "no" => flow.stage # "no",
         s \in {"read", "reading", "readAnswer", "confirm"} =>
           flow.stage \in {"read", "reading", "readAnswer", "confirm"},
         s \in {"write", "writing"} => flow.stage \in {"write", "writing"}
  PROVE  FlowOK'
<1>1. FlowType'
  BY DEF FlowOK, FlowType
<1>2. /\ flow'.stage = s /\ flow'.path = flow.path /\ flow'.payload = flow.payload
      /\ flow'.confirmed = flow.confirmed /\ flow'.from = flow.from
  BY DEF FlowOK, FlowType
<1>3. FlowInv'
  BY <1>2 DEF FlowOK, FlowInv, At
<1> QED
  BY <1>1, <1>3 DEF FlowOK

LEMMA RunFlow ==
  ASSUME TypeOK, TablesOK, NEW kind \in {"readback", "download"}, NEW v, IsText(v),
         Run(kind, v),
         v # NoValues => AllConvertible(v) /\ v = tables[selected].params
  PROVE  FlowOK'
<1> DEFINE t == tables[selected]
<1>1. selected \in Paths
  BY DEF TypeOK, PageType, Run
<1>2. TableType(t) /\ TableInv(t)
  BY <1>1 DEF TablesOK
<1>3. t.gen \in Nat /\ t.from \in MaybeFile
  BY <1>2 DEF TableType
<1>4. flow' = [stage |-> "read", kind |-> kind, path |-> selected, gen |-> t.gen, payload |-> v,
               readback |-> NoValues, held |-> NoValues, foreign |-> FALSE,
               confirmed |-> NoValues, from |-> t.from, file |-> NoFile]
  BY DEF Run, NoFlow
<1>5. FlowType'
  BY <1>1, <1>3, <1>4, Records, Empty DEF FlowType, Stages
<1>6. v # NoValues => t.from \in Contents /\ DOMAIN v = Visible(t.from)
  <2>1. CASE t.parsed
    BY <1>2, <2>1 DEF TableInv
  <2>2. CASE ~t.parsed
    BY <1>2, <2>2 DEF TableInv
  <2> QED
    BY <2>1, <2>2
<1>7. FlowInv'
  BY <1>1, <1>4, <1>6 DEF FlowInv, At
<1> QED
  BY <1>5, <1>7 DEF FlowOK

LEMMA ActDownloadFlow ==
  ASSUME TypeOK, TablesOK, ActDownload
  PROVE  FlowOK'
<1>1. selected \in Paths
  BY DEF TypeOK, PageType, ActDownload
<1>2. IsFields(tables[selected].params)
  BY <1>1 DEF TablesOK, TableType
<1>3. IsText(tables[selected].params) /\ AllConvertible(tables[selected].params)
  BY <1>2, CollectedText DEF ActDownload
<1> QED
  BY <1>3, RunFlow DEF ActDownload

LEMMA StatusFlow ==
  ASSUME TypeOK, FlowInv, HandleStatus, op.ticks \in [Addresses -> Ticks]
  PROVE  FlowOK'
<1> DEFINE f == files[flow.path]
           v == Shown(op.ticks, f)
<1>1. f \in Contents
  BY FileOfRun DEF HandleStatus, At
<1>2. IsText(v)
  BY <1>1, ShownType
<1>3. flow' = [flow EXCEPT !.stage = "readAnswer", !.file = f, !.readback = v]
  BY DEF HandleStatus
<1> HIDE DEF f, v
<1>4. FlowType'
  BY <1>1, <1>2, <1>3 DEF TypeOK, FlowType, Stages, MaybeFile
<1>5. /\ flow'.stage = "readAnswer" /\ flow'.path = flow.path /\ flow'.payload = flow.payload
      /\ flow'.confirmed = flow.confirmed /\ flow'.from = flow.from
  BY <1>3 DEF TypeOK, FlowType
<1>6. FlowInv'
  BY <1>5 DEF FlowInv, At, HandleStatus
<1> QED
  BY <1>4, <1>6 DEF FlowOK

LEMMA ConfirmFlow ==
  ASSUME FlowOK, Confirm
  PROVE  FlowOK'
<1>1. FlowType'
  BY DEF FlowOK, FlowType, Confirm, Stages
<1>2. /\ flow'.stage = "write" /\ flow'.path = flow.path /\ flow'.payload = flow.payload
      /\ flow'.confirmed = flow.payload /\ flow'.from = flow.from
  BY DEF FlowOK, FlowType, Confirm
<1>3. FlowInv'
  BY <1>2 DEF FlowOK, FlowInv, At, Confirm
<1> QED
  BY <1>1, <1>3 DEF FlowOK

LEMMA Ticked ==
  ASSUME TypeOK, OpInv, op.mine
  PROVE  op.ticks \in [Addresses -> Ticks]
BY DEF TypeOK, ServerType, Boards, OpInv

LEMMA NextFlow ==
  ASSUME TypeOK, TablesOK, FlowInv, OpInv, [Next]_vars
  PROVE  FlowOK'
<1>1. FlowOK /\ flow.held \in Boards /\ flow.foreign \in BOOLEAN /\ flow.file \in MaybeFile
      /\ flow.stage \in Stages
  BY DEF FlowOK, TypeOK, FlowType
<1>2. CASE UNCHANGED flow
  BY <1>1, <1>2 DEF FlowOK, FlowType, FlowInv, At
<1>3. CASE flow' = NoFlow
  BY <1>3, NoFlowOK
<1>4. CASE ActReadback
  BY <1>4, RunFlow, Empty DEF ActReadback
<1>5. CASE ActDownload
  BY <1>5, ActDownloadFlow
<1>6. CASE HandleStatus
  BY <1>6, StatusFlow, Ticked DEF HandleStatus
<1>7. CASE Confirm
  BY <1>1, <1>7, ConfirmFlow
<1>8. ASSUME NEW t \in OtherTicks, OtherWrite(t) PROVE FlowOK'
  <2>1. flow' = [flow EXCEPT !.stage = flow.stage, !.held = flow.held, !.foreign = TRUE,
                             !.file = flow.file]
    BY <1>8 DEF OtherWrite, TypeOK, FlowType
  <2> QED
    BY <1>1, <2>1, StageStep
<1>9. CASE HandleRead
  <2>1. /\ flow.stage = "read"
        /\ \/ flow' = [flow EXCEPT !.stage = "refused", !.file = files[flow.path]]
           \/ flow' = [flow EXCEPT !.stage = "reading"]
    BY <1>9 DEF HandleRead, At
  <2>2. files[flow.path] \in MaybeFile
    BY <2>1, FileOfRun DEF At, MaybeFile
  <2>3. CASE flow' = [flow EXCEPT !.stage = "refused", !.file = files[flow.path]]
    <3>1. flow' = [flow EXCEPT !.stage = "refused", !.held = flow.held, !.foreign = flow.foreign,
                               !.file = files[flow.path]]
      BY <2>3 DEF TypeOK, FlowType
    <3>2. "refused" \in Stages
      BY DEF Stages
    <3> HIDE <1>9
    <3> QED
      BY <1>1, <2>1, <2>2, <3>1, <3>2, StageStep
  <2>4. CASE flow' = [flow EXCEPT !.stage = "reading"]
    <3>1. flow' = [flow EXCEPT !.stage = "reading", !.held = flow.held, !.foreign = flow.foreign,
                               !.file = flow.file]
      BY <2>4 DEF TypeOK, FlowType
    <3>2. "reading" \in Stages
      BY DEF Stages
    <3> QED
      BY <1>1, <2>1, <3>1, <3>2, StageStep
  <2> QED
    BY <2>1, <2>3, <2>4
<1>10. CASE HandleWrite
  <2>1. /\ flow.stage = "write"
        /\ \E s \in {"refused", "writing"} :
             flow' = [flow EXCEPT !.stage = s, !.file = files[flow.path]]
    BY <1>10 DEF HandleWrite, At
  <2>2. files[flow.path] \in MaybeFile
    BY <2>1, FileOfRun DEF At, MaybeFile
  <2>3. PICK s \in {"refused", "writing"} :
          flow' = [flow EXCEPT !.stage = s, !.file = files[flow.path]]
    BY <2>1
  <2>4. flow' = [flow EXCEPT !.stage = s, !.held = flow.held, !.foreign = flow.foreign,
                             !.file = files[flow.path]]
    BY <2>3 DEF TypeOK, FlowType
  <2>5. s \in Stages
    BY DEF Stages
  <2> QED
    BY <1>1, <2>1, <2>2, <2>4, <2>5, StageStep
<1>11. CASE WorkerRead
  <2>1. board' \in Boards
    BY <1>11 DEF WorkerRead, Initialised, TypeOK, ServerType
  <2>2. flow' = [flow EXCEPT !.stage = flow.stage, !.held = board', !.foreign = FALSE,
                             !.file = flow.file]
    BY <1>11 DEF WorkerRead, TypeOK, FlowType
  <2> QED
    BY <1>1, <2>1, <2>2, StageStep
<1>12. CASE ReceiveRead
  <2>1. flow' = NoFlow \/ flow' = [flow EXCEPT !.stage = "confirm"]
    BY <1>12 DEF ReceiveRead, Takes
  <2>2. CASE flow' = [flow EXCEPT !.stage = "confirm"]
    <3>1. flow' = [flow EXCEPT !.stage = "confirm", !.held = flow.held, !.foreign = flow.foreign,
                               !.file = flow.file]
      BY <2>2 DEF TypeOK, FlowType
    <3>2. "confirm" \in Stages /\ flow.stage = "readAnswer"
      BY <1>12 DEF Stages, ReceiveRead, At
    <3> QED
      BY <1>1, <3>1, <3>2, StageStep
  <2> QED
    BY <1>3, <2>1, <2>2
<1>13. ASSUME NEW p \in Paths, Choose(p) \/ Delete(p) \/ Deleted(p) PROVE UNCHANGED flow
  BY <1>13 DEF Choose, Delete, Deleted
<1>14. ASSUME NEW p \in Paths, NEW f \in Contents \cup {NoFile}, Change(p, f)
       PROVE  UNCHANGED flow
  BY <1>14 DEF Change
<1>15. ASSUME NEW r \in parses, ReceiveParse(r) PROVE UNCHANGED flow
  BY <1>15 DEF ReceiveParse
<1>16. ASSUME NEW l \in lists, ReceiveFiles(l) PROVE UNCHANGED flow
  BY <1>16 DEF ReceiveFiles
<1>17. ASSUME NEW a \in Addresses, Input(a) PROVE UNCHANGED flow
  BY <1>17 DEF Input, Type, Fill
<1>18. CASE AskFiles \/ ActDefault \/ WorkerWrite \/ WorkerFails
  <2>1. UNCHANGED flow
    BY <1>18 DEF AskFiles, ActDefault, Fill, WorkerWrite, WorkerFails
  <2> QED
    BY <1>2, <2>1
<1>19. CASE Fail \/ Finish
  BY <1>3, <1>19 DEF Fail, Finish
<1>20. CASE UNCHANGED vars
  BY <1>2, <1>20 DEF vars
<1> QED
  BY <1>2, <1>4, <1>5, <1>6, <1>7, <1>8, <1>9, <1>10, <1>11, <1>12, <1>13, <1>14, <1>15,
     <1>16, <1>17, <1>18, <1>19, <1>20 DEF Next

(* The bounds only count. *)
LEMMA NextUsed ==
  ASSUME TypeOK, [Next]_vars
  PROVE  used' \in [runs : Nat, edits : Nat, changes : Nat]
<1>1. used \in [runs : Nat, edits : Nat, changes : Nat]
  BY DEF TypeOK
<1>2. UNCHANGED used \/ \E b \in {"runs", "edits", "changes"}, max \in Nat : Use(b, max)
  <2>1. CASE ActReadback \/ ActDownload
    BY <2>1, PageAssumption DEF ActReadback, ActDownload, Run
  <2>2. ASSUME NEW p \in Paths, NEW f \in Contents \cup {NoFile}, Delete(p) \/ Change(p, f)
        PROVE  Use("changes", MaxChanges)
    BY <2>2 DEF Delete, Change
  <2>3. ASSUME NEW t \in OtherTicks, OtherWrite(t) PROVE Use("changes", MaxChanges)
    BY <2>3 DEF OtherWrite
  <2>4. ASSUME NEW a \in Addresses, Input(a) PROVE Use("edits", MaxEdits)
    BY <2>4 DEF Input, Type, Fill
  <2>5. CASE ActDefault
    BY <2>5, PageAssumption DEF ActDefault, Fill
  <2>6. ASSUME NEW p \in Paths, Choose(p) \/ Deleted(p) PROVE UNCHANGED used
    BY <2>6 DEF Choose, Deleted
  <2>7. ASSUME NEW r \in parses, ReceiveParse(r) PROVE UNCHANGED used
    BY <2>7 DEF ReceiveParse
  <2>8. ASSUME NEW l \in lists, ReceiveFiles(l) PROVE UNCHANGED used
    BY <2>8 DEF ReceiveFiles
  <2>9. CASE \/ AskFiles \/ Fail \/ HandleRead \/ WorkerRead \/ HandleStatus \/ ReceiveRead
             \/ Confirm \/ HandleWrite \/ WorkerWrite \/ WorkerFails \/ Finish
    BY <2>9 DEF AskFiles, Fail, HandleRead, WorkerRead, HandleStatus, ReceiveRead, Confirm,
         HandleWrite, WorkerWrite, WorkerFails, Finish
  <2>10. CASE UNCHANGED vars
    BY <2>10 DEF vars
  <2>11. ASSUME NEW p \in Paths, Delete(p) PROVE Use("changes", MaxChanges)
    BY <2>11 DEF Delete
  <2> QED
    BY <2>1, <2>2, <2>3, <2>4, <2>5, <2>6, <2>7, <2>8, <2>9, <2>10, <2>11, PageAssumption DEF Next
<1> QED
  BY <1>1, <1>2, UseType

-----------------------------------------------------------------------------
(* The operation of a run. *)

LEMMA HandleWriteOp ==
  ASSUME TypeOK, FlowInv, OpInv, HandleWrite
  PROVE  OpInv'
<1> DEFINE f == files[flow.path]
<1>1. f \in Contents \cup {NoFile} /\ IsText(flow.payload)
  BY FileOfRun DEF HandleWrite, At, TypeOK, FlowType
<1>2. CASE f = NoFile \/ ~Parses(Sent, f) \/ ~AllConvertible(Merged(Sent, f))
  <2>1. flow'.stage = "refused" /\ UNCHANGED op
    BY <1>2 DEF HandleWrite, TypeOK, FlowType
  <2> QED
    BY <2>1 DEF Running, OpInv, At
<1>3. CASE ~(f = NoFile \/ ~Parses(Sent, f) \/ ~AllConvertible(Merged(Sent, f)))
  <2>1. f \in Contents /\ Launch("write", Merged(flow.payload, f), f)
        /\ flow'.payload = flow.payload
    BY <1>1, <1>3 DEF HandleWrite, Sent, TypeOK, FlowType
  <2>2. Parses(flow.payload, f) /\ AllConvertible(Merged(flow.payload, f))
    BY <1>3 DEF Sent
  <2>3. /\ op'.kind = "write" /\ op'.file = f /\ op'.mine
        /\ op'.ticks = ToTicks(Merged(flow.payload, f))
    BY <2>1 DEF Launch
  <2>4. op'.ticks # NoValues
    <3>1. op'.ticks \in [Addresses -> Ticks]
      BY <1>1, <2>1, <2>2, <2>3, LaunchedWrite
    <3> QED
      BY <3>1, PageAssumption DEF NoValues
  <2> QED
    BY <2>1, <2>2, <2>3, <2>4 DEF Running, OpInv
<1> QED
  BY <1>2, <1>3

LEMMA HandleReadOp ==
  ASSUME TypeOK, FlowInv, OpInv, HandleRead
  PROVE  OpInv'
<1> DEFINE f == files[flow.path]
<1>1. flow'.stage # "writing"
  BY DEF HandleRead, TypeOK, FlowType
<1>2. CASE f = NoFile \/ ~AllConvertible(Defaults(f))
  BY <1>1, <1>2 DEF HandleRead, OpInv, At, Running
<1>3. CASE ~(f = NoFile \/ ~AllConvertible(Defaults(f)))
  <2>1. f \in Contents /\ Launch("read", Defaults(f), f)
    BY <1>3, FileOfRun DEF HandleRead, At
  <2>2. ToTicks(Defaults(f)) # NoValues
    BY <1>3, <2>1, LaunchedRead, PageAssumption DEF NoValues
  <2> QED
    BY <1>1, <2>1, <2>2 DEF Running, OpInv, At, Launch
<1> QED
  BY <1>2, <1>3

LEMMA NextOp ==
  ASSUME TypeOK, FlowInv, OpInv, [Next]_vars
  PROVE  OpInv'
<1>1. CASE UNCHANGED <<op, flow>>
  BY <1>1 DEF Running, OpInv, At
<1>2. CASE op' = op /\ flow'.stage # "writing"
  BY <1>2 DEF Running, OpInv, At
<1>3. CASE op'.mine = FALSE /\ op'.state = "done"
  BY <1>3 DEF Running, OpInv
<1>4. CASE HandleRead
  BY <1>4, HandleReadOp
<1>5. CASE HandleWrite
  BY <1>5, HandleWriteOp
<1>6. CASE WorkerRead
  <2>1. /\ op'.mine = op.mine /\ flow'.stage = flow.stage /\ op.kind = "read"
        /\ op'.state = "done"
        /\ op'.ticks \in {op.ticks} \cup ({board} \ {NoValues})
    BY <1>6 DEF WorkerRead, Initialised, TypeOK, ServerType, FlowType
  <2> QED
    BY <2>1 DEF Running, OpInv, At
<1>7. CASE WorkerWrite
  <2>1. /\ op'.mine = op.mine /\ op'.kind = op.kind /\ op'.ticks = op.ticks
        /\ op'.file = op.file /\ op'.state = "done" /\ UNCHANGED flow
    BY <1>7 DEF WorkerWrite, TypeOK, ServerType
  <2> QED
    BY <2>1 DEF Running, OpInv, At
<1>8. CASE WorkerFails
  BY <1>3, <1>8, Records DEF WorkerFails
<1>9. ASSUME NEW t \in OtherTicks, OtherWrite(t) PROVE op'.mine = FALSE /\ op'.state = "done"
  BY <1>9, Records DEF OtherWrite
<1>10. CASE ActReadback \/ ActDownload
  BY <1>2, <1>10 DEF ActReadback, ActDownload, Run, NoFlow, server
<1>11. CASE Fail \/ Finish
  BY <1>2, <1>11, Records DEF Fail, Finish, server
<1>12. CASE HandleStatus \/ Confirm
  BY <1>2, <1>12 DEF HandleStatus, Confirm, server, TypeOK, FlowType
<1>13. CASE ReceiveRead
  <2>1. flow' = NoFlow \/ flow' = [flow EXCEPT !.stage = "confirm"]
    BY <1>13 DEF ReceiveRead, Takes
  <2>2. op' = op /\ flow'.stage # "writing"
    BY <1>13, <2>1, Records DEF ReceiveRead, server, TypeOK, FlowType
  <2> QED
    BY <1>2, <2>2
<1>14. ASSUME NEW p \in Paths, Choose(p) PROVE UNCHANGED <<op, flow>>
  BY <1>14 DEF Choose, server
<1>15. ASSUME NEW p \in Paths, Delete(p) \/ Deleted(p) PROVE UNCHANGED <<op, flow>>
  BY <1>15 DEF Delete, Deleted, server
<1>16. ASSUME NEW p \in Paths, NEW f \in Contents \cup {NoFile}, Change(p, f)
       PROVE  UNCHANGED <<op, flow>>
  BY <1>16 DEF Change
<1>17. ASSUME NEW r \in parses, ReceiveParse(r) PROVE UNCHANGED <<op, flow>>
  BY <1>17 DEF ReceiveParse, server
<1>18. ASSUME NEW l \in lists, ReceiveFiles(l) PROVE UNCHANGED <<op, flow>>
  BY <1>18 DEF ReceiveFiles, server
<1>19. ASSUME NEW a \in Addresses, Input(a) PROVE UNCHANGED <<op, flow>>
  BY <1>19 DEF Input, Type, Fill, server
<1>20. CASE AskFiles \/ ActDefault
  BY <1>1, <1>20 DEF AskFiles, ActDefault, Fill, server
<1>21. CASE UNCHANGED vars
  BY <1>1, <1>21 DEF vars
<1> QED
  BY <1>1, <1>3, <1>4, <1>5, <1>6, <1>7, <1>8, <1>9, <1>10, <1>11, <1>12, <1>13, <1>14, <1>15,
     <1>16, <1>17, <1>18, <1>19, <1>20, <1>21 DEF Next

-----------------------------------------------------------------------------
(* The board between a run's readback and its write. *)

(* The stages at which the answer of the readback counts. *)
Before(stage) == stage \in {"readAnswer", "confirm", "write"}

LEMMA OtherStages ==
  ASSUME NEW s, flow'.stage = s, s \notin {"reading", "readAnswer", "confirm", "write", "writing"}
  PROVE  HeldInv'
BY DEF HeldInv, At

(* A step on the page that leaves the server alone and goes on to a stage of
   the same kind, or one that only the stage reading leads to. *)
LEMMA StatusHeld ==
  ASSUME TypeOK, FlowInv, OpInv, HeldInv, HandleStatus
  PROVE  HeldInv'
<1> DEFINE f == files[flow.path]
           v == Shown(op.ticks, f)
<1>1. f \in Contents
  BY FileOfRun DEF HandleStatus, At
<1>2. op.ticks = flow.held /\ op.ticks \in [Addresses -> Ticks] /\ flow.held # NoValues
  BY Ticked DEF HandleStatus, HeldInv, OpInv
<1>3. DOMAIN v = Visible(f) /\ \A a \in DOMAIN v : v[a] = ToNs(flow.held[a])
  BY <1>2 DEF Shown
<1>4. /\ flow'.stage = "readAnswer" /\ flow'.file = f /\ flow'.readback = v
      /\ flow'.held = flow.held /\ flow'.foreign = flow.foreign /\ UNCHANGED <<board, op>>
  BY DEF HandleStatus, TypeOK, FlowType, server
<1>5. ~Running /\ (flow.foreign \/ board = flow.held)
  BY DEF HandleStatus, HeldInv
<1> HIDE DEF f, v
<1> QED
  BY <1>1, <1>2, <1>3, <1>4, <1>5 DEF HeldInv, At, Running

LEMMA HandleWriteHeld ==
  ASSUME TypeOK, HeldInv, HandleWrite
  PROVE  HeldInv'
<1>1. /\ flow.stage = "write" /\ flow'.stage \in {"refused", "writing"}
      /\ flow'.held = flow.held /\ flow'.foreign = flow.foreign
      /\ flow'.readback = flow.readback /\ UNCHANGED board
  BY DEF HandleWrite, At, TypeOK, FlowType
<1> QED
  BY <1>1 DEF HeldInv, At

LEMMA HandleReadHeld ==
  ASSUME TypeOK, HeldInv, HandleRead
  PROVE  HeldInv'
<1> DEFINE f == files[flow.path]
<1>1. CASE f = NoFile \/ ~AllConvertible(Defaults(f))
  <2>1. flow' = [flow EXCEPT !.stage = "refused", !.file = f]
    BY <1>1 DEF HandleRead
  <2>2. flow'.stage = "refused"
    BY <2>1 DEF TypeOK, FlowType
  <2> QED
    BY <2>2, OtherStages
<1>2. CASE ~(f = NoFile \/ ~AllConvertible(Defaults(f)))
  <2>1. flow' = [flow EXCEPT !.stage = "reading"] /\ Launch("read", Defaults(f), f)
    BY <1>2 DEF HandleRead
  <2>2. flow'.stage = "reading"
    BY <2>1 DEF TypeOK, FlowType
  <2>3. op'.kind = "read" /\ op'.state = "running"
    BY <2>1 DEF Launch
  <2> QED
    BY <2>2, <2>3 DEF HeldInv, At, Running
<1> QED
  BY <1>1, <1>2

LEMMA WorkerReadHeld ==
  ASSUME TypeOK, OpInv, HeldInv, WorkerRead
  PROVE  HeldInv'
<1>1. /\ flow'.stage = flow.stage /\ flow'.held = board' /\ op'.ticks = board'
      /\ op'.state = "done" /\ op'.mine = op.mine
  BY DEF WorkerRead, TypeOK, ServerType, FlowType
<1>2. ~Before(flow.stage) /\ flow.stage # "writing"
  BY DEF WorkerRead, HeldInv, OpInv, At, Before
<1> QED
  BY <1>1, <1>2 DEF HeldInv, At, Running, Before

LEMMA OtherWriteHeld ==
  ASSUME TypeOK, HeldInv, NEW t \in OtherTicks, OtherWrite(t)
  PROVE  HeldInv'
<1>1. /\ flow'.stage = flow.stage /\ flow'.held = flow.held /\ flow'.foreign = TRUE
      /\ flow'.readback = flow.readback /\ flow'.file = flow.file
  BY DEF OtherWrite, TypeOK, FlowType
<1>2. op'.mine = FALSE /\ op'.state = "done"
  BY Records DEF OtherWrite, NoOp
<1> QED
  BY <1>1, <1>2 DEF HeldInv, At, Running

LEMMA ReceiveReadHeld ==
  ASSUME TypeOK, HeldInv, ReceiveRead
  PROVE  HeldInv'
<1>1. CASE flow' = NoFlow
  BY <1>1, Records, OtherStages
<1>2. CASE flow' = [flow EXCEPT !.stage = "confirm"]
  <2>1. /\ flow'.stage = "confirm" /\ flow'.held = flow.held /\ flow'.foreign = flow.foreign
        /\ flow'.readback = flow.readback /\ UNCHANGED <<board, op>>
    BY <1>2 DEF ReceiveRead, server, TypeOK, FlowType
  <2> QED
    BY <2>1 DEF HeldInv, ReceiveRead, At, Running
<1> QED
  BY <1>1, <1>2 DEF ReceiveRead, Takes

LEMMA NextHeld ==
  ASSUME TypeOK, FlowInv, OpInv, HeldInv, [Next]_vars
  PROVE  HeldInv'
<1>1. CASE UNCHANGED <<board, op, flow>>
  BY <1>1 DEF HeldInv, At, Running
<1>2. CASE HandleStatus
  BY <1>2, StatusHeld
<1>3. CASE HandleWrite
  BY <1>3, HandleWriteHeld
<1>4. CASE HandleRead
  BY <1>4, HandleReadHeld
<1>5. CASE WorkerRead
  BY <1>5, WorkerReadHeld
<1>6. ASSUME NEW t \in OtherTicks, OtherWrite(t) PROVE HeldInv'
  BY <1>6, OtherWriteHeld
<1>7. CASE ReceiveRead
  BY <1>7, ReceiveReadHeld
<1>8. CASE Confirm
  <2>1. /\ flow.stage = "confirm" /\ flow'.stage = "write" /\ flow'.held = flow.held
        /\ flow'.foreign = flow.foreign /\ flow'.readback = flow.readback
        /\ UNCHANGED <<board, op>>
    BY <1>8 DEF Confirm, At, server, TypeOK, FlowType
  <2> QED
    BY <2>1 DEF HeldInv, At, Running
<1>9. CASE WorkerWrite
  <2>1. op'.state = "done" /\ op.kind = "write" /\ UNCHANGED flow /\ Running
    BY <1>9 DEF WorkerWrite, TypeOK, ServerType
  <2> QED
    BY <2>1 DEF HeldInv, At, Running
<1>10. CASE WorkerFails
  <2>1. op'.state = "done" /\ op'.mine = FALSE /\ UNCHANGED flow /\ Running
    BY <1>10, Records DEF WorkerFails, NoOp
  <2> QED
    BY <2>1 DEF HeldInv, At, Running
<1>11. CASE ActReadback \/ ActDownload
  <2>1. flow'.stage = "read"
    BY <1>11 DEF ActReadback, ActDownload, Run, NoFlow
  <2> QED
    BY <2>1, OtherStages
<1>12. CASE Fail \/ Finish
  BY <1>12, Records, OtherStages DEF Fail, Finish
<1>13. ASSUME NEW p \in Paths, Choose(p) PROVE UNCHANGED <<board, op, flow>>
  BY <1>13 DEF Choose, server
<1>14. ASSUME NEW p \in Paths, Delete(p) \/ Deleted(p) PROVE UNCHANGED <<board, op, flow>>
  BY <1>14 DEF Delete, Deleted, server
<1>15. ASSUME NEW p \in Paths, NEW f \in Contents \cup {NoFile}, Change(p, f)
       PROVE  UNCHANGED <<board, op, flow>>
  BY <1>15 DEF Change
<1>16. ASSUME NEW r \in parses, ReceiveParse(r) PROVE UNCHANGED <<board, op, flow>>
  BY <1>16 DEF ReceiveParse, server
<1>17. ASSUME NEW l \in lists, ReceiveFiles(l) PROVE UNCHANGED <<board, op, flow>>
  BY <1>17 DEF ReceiveFiles, server
<1>18. ASSUME NEW a \in Addresses, Input(a) PROVE UNCHANGED <<board, op, flow>>
  BY <1>18 DEF Input, Type, Fill, server
<1>19. CASE AskFiles \/ ActDefault
  BY <1>1, <1>19 DEF AskFiles, ActDefault, Fill, server
<1>20. CASE UNCHANGED vars
  BY <1>1, <1>20 DEF vars
<1> QED
  BY <1>1, <1>2, <1>3, <1>4, <1>5, <1>6, <1>7, <1>8, <1>9, <1>10, <1>11, <1>12, <1>13, <1>14,
     <1>15, <1>16, <1>17, <1>18, <1>19, <1>20 DEF Next

-----------------------------------------------------------------------------
(* The download. *)

LEMMA Written ==
  ASSUME TypeOK, FlowInv, OpInv
  PROVE  WrittenAsConfirmed
<1> SUFFICES ASSUME At("writing"), op.mine, NEW a \in Addresses
             PROVE  IF op.file[a].visible
                    THEN a \in DOMAIN flow.confirmed /\ ToNs(op.ticks[a]) = flow.confirmed[a]
                    ELSE ToNs(op.ticks[a]) = op.file[a].default
  BY DEF WrittenAsConfirmed
<1> DEFINE f == op.file
           v == flow.payload
<1>1. /\ f \in Contents /\ Parses(v, f) /\ AllConvertible(Merged(v, f))
      /\ op.ticks = ToTicks(Merged(v, f)) /\ IsText(v) /\ flow.confirmed = v
  BY DEF OpInv, FlowInv, At, TypeOK, FlowType
<1>2. Merged(v, f) \in [Addresses -> Nat]
  BY <1>1, MergedType
<1>3. Convertible(Merged(v, f)[a])
  BY <1>1, <1>2 DEF AllConvertible
<1>4. op.ticks[a] = ToTick(Merged(v, f)[a])
  BY <1>1, <1>2 DEF ToTicks
<1>5. ToNs(op.ticks[a]) = Merged(v, f)[a]
  BY <1>2, <1>3, <1>4, RoundTrip
<1>6. Merged(v, f)[a] = IF a \in DOMAIN v THEN v[a] ELSE f[a].default
  BY DEF Merged
<1>7. a \in DOMAIN v <=> f[a].visible
  BY <1>1 DEF Parses, Visible
<1> QED
  BY <1>1, <1>5, <1>6, <1>7

LEMMA NextRefused ==
  ASSUME TypeOK, FlowInv, RefusedOnlyIfChanged, [Next]_vars
  PROVE  RefusedOnlyIfChanged'
<1>1. CASE /\ flow'.stage = flow.stage /\ flow'.confirmed = flow.confirmed
           /\ flow'.file = flow.file /\ flow'.from = flow.from
  BY <1>1 DEF RefusedOnlyIfChanged, At
<1>2. CASE flow'.stage # "refused"
  BY <1>2 DEF RefusedOnlyIfChanged, At
<1>3. CASE HandleRead
  <2>1. flow'.confirmed = NoValues
    BY <1>3 DEF HandleRead, At, FlowInv, TypeOK, FlowType
  <2> QED
    BY <2>1 DEF RefusedOnlyIfChanged
<1>4. CASE HandleWrite
  <2> DEFINE f == files[flow.path]
             v == flow.payload
  <2>1. CASE f = NoFile \/ ~Parses(v, f) \/ ~AllConvertible(Merged(v, f))
    <3>1. /\ flow'.confirmed = v /\ flow'.file = f /\ flow'.from = flow.from
      BY <1>4, <2>1 DEF HandleWrite, Sent, At, FlowInv, TypeOK, FlowType
    <3>2. SUFFICES ASSUME v # NoValues, f = flow.from PROVE ~AllConvertible(Defaults(f))
      BY <3>1 DEF RefusedOnlyIfChanged
    <3>3. IsText(v) /\ f \in Contents /\ DOMAIN v = Visible(f) /\ AllConvertible(v)
      BY <3>2 DEF FlowInv, TypeOK, FlowType
    <3>4. Parses(v, f) /\ f # NoFile
      BY <3>2, <3>3, TextFacts, Files DEF Parses
    <3> QED
      BY <2>1, <3>3, <3>4, Unmergeable
  <2>2. CASE ~(f = NoFile \/ ~Parses(v, f) \/ ~AllConvertible(Merged(v, f)))
    <3>1. flow'.stage = "writing"
      BY <1>4, <2>2 DEF HandleWrite, Sent, TypeOK, FlowType
    <3> QED
      BY <1>2, <3>1
  <2> QED
    BY <2>1, <2>2
<1>5. CASE WorkerRead
  BY <1>1, <1>5 DEF WorkerRead, TypeOK, FlowType
<1>6. ASSUME NEW t \in OtherTicks, OtherWrite(t) PROVE RefusedOnlyIfChanged'
  BY <1>1, <1>6 DEF OtherWrite, TypeOK, FlowType
<1>7. CASE ActReadback \/ ActDownload
  BY <1>2, <1>7 DEF ActReadback, ActDownload, Run, NoFlow
<1>8. CASE Fail \/ Finish
  BY <1>2, <1>8, Records DEF Fail, Finish
<1>9. CASE HandleStatus \/ Confirm
  BY <1>2, <1>9 DEF HandleStatus, Confirm, TypeOK, FlowType
<1>10. CASE ReceiveRead
  <2>1. flow' = NoFlow \/ flow' = [flow EXCEPT !.stage = "confirm"]
    BY <1>10 DEF ReceiveRead, Takes
  <2>2. flow'.stage # "refused"
    BY <2>1, Records DEF TypeOK, FlowType
  <2> QED
    BY <1>2, <2>2
<1>11. ASSUME NEW p \in Paths, Choose(p) \/ Delete(p) \/ Deleted(p) PROVE UNCHANGED flow
  BY <1>11 DEF Choose, Delete, Deleted
<1>12. ASSUME NEW p \in Paths, NEW f \in Contents \cup {NoFile}, Change(p, f)
       PROVE  UNCHANGED flow
  BY <1>12 DEF Change
<1>13. ASSUME NEW r \in parses, ReceiveParse(r) PROVE UNCHANGED flow
  BY <1>13 DEF ReceiveParse
<1>14. ASSUME NEW l \in lists, ReceiveFiles(l) PROVE UNCHANGED flow
  BY <1>14 DEF ReceiveFiles
<1>15. ASSUME NEW a \in Addresses, Input(a) PROVE UNCHANGED flow
  BY <1>15 DEF Input, Type, Fill
<1>16. CASE AskFiles \/ ActDefault \/ WorkerWrite \/ WorkerFails
  BY <1>1, <1>16 DEF AskFiles, ActDefault, Fill, WorkerWrite, WorkerFails
<1>17. CASE UNCHANGED vars
  BY <1>1, <1>17 DEF vars
<1> QED
  BY <1>1, <1>3, <1>4, <1>5, <1>6, <1>7, <1>8, <1>9, <1>10, <1>11, <1>12, <1>13, <1>14, <1>15,
     <1>16, <1>17 DEF Next

-----------------------------------------------------------------------------
(* The invariant, and what follows from it. *)

PageSafe == TypeOK /\ ValuesOfOwnPath /\ PageInv /\ RefusedOnlyIfChanged

LEMMA TablesFacts == TypeOK /\ ValuesOfOwnPath /\ PageInv => TablesOK
BY DEF TypeOK, PageType, ValuesOfOwnPath, PageInv, TablesOK

LEMMA InitSafe == Init => PageSafe
<1>1. Init => RefusedOnlyIfChanged
  BY Records DEF Init, RefusedOnlyIfChanged, At
<1> QED
  BY <1>1, InitInv DEF PageSafe

LEMMA NextSafe == PageSafe /\ [Next]_vars => PageSafe'
<1> SUFFICES ASSUME PageSafe, [Next]_vars PROVE PageSafe'
  OBVIOUS
<1>1. TypeOK /\ TablesOK /\ FlowInv /\ OpInv /\ HeldInv /\ RefusedOnlyIfChanged
  BY TablesFacts DEF PageSafe, PageInv
<1>2. TablesOK' /\ PageLists'
  BY <1>1, NextTables, NextLists
<1>3. ServerType' /\ FlowOK' /\ OpInv' /\ HeldInv' /\ RefusedOnlyIfChanged'
  BY <1>1, NextServer, NextFlow, NextOp, NextHeld, NextRefused
<1>4. used' \in [runs : Nat, edits : Nat, changes : Nat]
  BY <1>1, NextUsed
<1>5. TypeOK'
  BY <1>2, <1>3, <1>4 DEF TypeOK, PageType, TablesOK, PageLists, FlowOK
<1>6. ValuesOfOwnPath' /\ PageInv'
  BY <1>2, <1>3 DEF ValuesOfOwnPath, PageInv, TablesOK, FlowOK
<1> QED
  BY <1>3, <1>5, <1>6 DEF PageSafe

(* The write of a run changes the board only where the dialog says so. *)
LEMMA WriteIsListed ==
  ASSUME PageSafe, WorkerWrite, At("writing"), ~flow.foreign,
         NEW a \in DOMAIN flow.confirmed \ Diffs(flow.readback, flow.confirmed)
  PROVE  board'[a] = board[a]
<1> DEFINE v == flow.payload
           f == op.file
<1>1. FlowInv /\ OpInv /\ HeldInv /\ TypeOK /\ op.mine /\ flow.confirmed = v
  BY DEF PageSafe, PageInv, WorkerWrite, FlowInv, OpInv, At
<1>2. board = flow.held /\ flow.held \in [Addresses -> Ticks]
  <2>1. Running
    BY DEF WorkerWrite
  <2>2. board = flow.held /\ flow.held # NoValues
    BY <1>1, <2>1 DEF HeldInv
  <2> QED
    BY <1>1, <2>2 DEF TypeOK, FlowType, Boards
<1>3. /\ f \in Contents /\ IsText(v) /\ Merged(v, f) \in [Addresses -> Nat]
      /\ op.ticks = ToTicks(Merged(v, f))
  BY <1>1, MergedType DEF OpInv, TypeOK, FlowType
<1>4. a \in DOMAIN v /\ a \in Addresses /\ a \in DOMAIN flow.readback /\ flow.readback[a] = v[a]
  BY <1>1, <1>3, TextFacts DEF Diffs
<1>5. v[a] = ToNs(board[a]) /\ board[a] \in Ticks
  BY <1>1, <1>2, <1>4 DEF HeldInv
<1>6. board'[a] = ToTick(v[a])
  <2>1. Merged(v, f)[a] = v[a]
    BY <1>4 DEF Merged
  <2> QED
    BY <1>3, <1>4, <2>1 DEF WorkerWrite, ToTicks
<1> QED
  BY <1>5, <1>6, ShownIsText

(* What a readback puts into a table is what the board held. *)
LEMMA ReadIsShown ==
  ASSUME PageSafe, PageSafe', ReceiveRead, flow.kind = "readback", selected = flow.path,
         tables'[flow.path].gen = flow.gen, tables'[flow.path].from = flow.file,
         NEW a \in DOMAIN tables'[flow.path].params
  PROVE  tables'[flow.path].params[a] = ToNs(flow.held[a])
<1> DEFINE p == flow.path
           t == tables[p]
           v == [b \in DOMAIN t.params |-> IF b \in DOMAIN flow.readback THEN flow.readback[b]
                                          ELSE t.params[b]]
<1>1. TypeOK /\ TablesOK /\ FlowInv /\ HeldInv
  BY TablesFacts DEF PageSafe, PageInv
<1>2. p \in Paths
  BY <1>1 DEF FlowInv, ReceiveRead, At
<1>3. TableInv(t) /\ TableType(t)
  BY <1>1, <1>2 DEF TablesOK
<1>4. /\ flow.file \in Contents /\ DOMAIN flow.readback = Visible(flow.file)
      /\ \A b \in DOMAIN flow.readback : flow.readback[b] = ToNs(flow.held[b])
  BY <1>1 DEF HeldInv, ReceiveRead, At
<1>5. TakeOver(p)
  BY DEF ReceiveRead, Takes
<1>6. t.gen = flow.gen
  BY <1>1, <1>2, <1>5 DEF TakeOver, TablesOK
<1>7. tables'[p].params = v /\ tables'[p].from = t.from
  <2>1. tables' = [tables EXCEPT ![p].params = v, ![p].origins = @ \cup {p}]
    BY <1>5, <1>6 DEF TakeOver
  <2>2. tables'[p] = [t EXCEPT !.params = v, !.origins = @ \cup {p}]
    BY <1>1, <1>2, <2>1 DEF TablesOK
  <2> HIDE DEF v
  <2> QED
    BY <1>3, <2>2 DEF TableType
<1>8. DOMAIN t.params = Visible(flow.file)
  BY <1>3, <1>4, <1>7, Files DEF TableInv
<1> QED
  BY <1>4, <1>7, <1>8

LEMMA Safe == Spec => []PageSafe
BY InitSafe, NextSafe, PTL DEF Spec

(* Every variable of the page and of the server keeps its type, whatever
   files, values and runs there are. *)
THEOREM TypeCorrect == Spec => []TypeOK
<1>1. PageSafe => TypeOK
  BY DEF PageSafe
<1> QED
  BY <1>1, Safe, PTL

(* The table of a path never holds a value of another path, whatever is
   selected when a parse or a readback is answered (takeOver by the state
   object, parseSelected by the path). *)
THEOREM TablesKeepApart == Spec => []ValuesOfOwnPath
<1>1. PageSafe => ValuesOfOwnPath
  BY DEF PageSafe
<1> QED
  BY <1>1, Safe, PTL

(* What a run of a page carries belongs to the file it came from, and the
   operation of the board service is the run's that waits for it: the
   strengthening the other theorems rest on, and an invariant of the runs. *)
THEOREM PageInvariant == Spec => []PageInv
<1>1. PageSafe => PageInv
  BY DEF PageSafe
<1> QED
  BY <1>1, Safe, PTL

(* What param_download_handler hands to the board is the confirmed values and
   the file's defaults for the hidden addresses, for any unit and any range of
   ticks: nothing is lost in the conversion and nothing is collected again. *)
THEOREM DownloadWritesConfirmed == Spec => []WrittenAsConfirmed
<1>1. PageSafe => WrittenAsConfirmed
  BY Written DEF PageSafe, PageInv
<1> QED
  BY <1>1, Safe, PTL

(* A confirmed download is refused only for a file that was replaced, or for a
   default the board cannot hold: collectDownloadPayload and
   parse_param_values agree. *)
THEOREM ConfirmedIsTaken == Spec => []RefusedOnlyIfChanged
<1>1. PageSafe => RefusedOnlyIfChanged
  BY DEF PageSafe
<1> QED
  BY <1>1, Safe, PTL

(* The confirmation dialog (buildDownloadDiffs) lists every parameter that the
   write changes on the board, if nobody else wrote since the readback. *)
THEOREM DialogIsComplete == Spec => ChangesListed
<1>1. PageSafe /\ [Next]_vars =>
        [WorkerWrite /\ At("writing") /\ ~flow.foreign =>
           \A a \in DOMAIN flow.confirmed \ Diffs(flow.readback, flow.confirmed) :
              board'[a] = board[a]]_vars
  BY WriteIsListed
<1> QED
  BY <1>1, Safe, PTL DEF Spec, ChangesListed

(* A readback that is taken over shows what the board held, in every field of
   a table parsed from the file the server answered with. *)
THEOREM TableShowsBoard == Spec => ReadbackShown
<1>1. PageSafe /\ PageSafe' /\ [Next]_vars =>
        [ReceiveRead /\ flow.kind = "readback" /\ selected = flow.path =>
           LET t == tables'[flow.path] IN
             t.gen = flow.gen /\ t.from = flow.file =>
               \A a \in DOMAIN t.params : t.params[a] = ToNs(flow.held[a])]_vars
  BY ReadIsShown
<1> QED
  BY <1>1, Safe, PTL DEF Spec, ReadbackShown

-----------------------------------------------------------------------------
(* The dump page.                                                          *)
CONSTANTS TotalBytes, PageBytes, RowBytes, DumpInputs, MaxDumps
VARIABLES chosen, paramBusy, dumpBusy, image, index, field, drawn, enabled, dumps
Dump == INSTANCE DumpPage WITH Inputs <- DumpInputs, MaxRuns <- MaxDumps,
                               selected <- chosen, runs <- dumps

\* The smaller of two numbers is one of them and exceeds neither.
LEMMA MinOfTwo == ASSUME NEW a \in Int, NEW b \in Int
                  PROVE  Dump!Min({a, b}) = IF a <= b THEN a ELSE b
<1> DEFINE m == IF a <= b THEN a ELSE b
<1>1. m \in {a, b} /\ \A y \in {a, b} : m <= y
  OBVIOUS
<1>2. \A x \in {a, b} : (\A y \in {a, b} : x <= y) => x = m
  OBVIOUS
<1> QED BY <1>1, <1>2 DEF Dump!Min

\* There is at least one page.
LEMMA SomePages == ASSUME Dump!DumpAssumption PROVE Dump!PageCount \in Nat \ {0}
<1>1. /\ TotalBytes \in Nat \ {0} /\ PageBytes \in Nat \ {0} /\ TotalBytes % PageBytes = 0
  BY DEF Dump!DumpAssumption
<1>2. TotalBytes = (PageBytes * (TotalBytes \div PageBytes)) + (TotalBytes % PageBytes)
  BY <1>1
<1>3. TotalBytes \div PageBytes \in Nat
  BY <1>1
<1>4. TotalBytes \div PageBytes # 0
  BY <1>1, <1>2, <1>3
<1> QED BY <1>3, <1>4 DEF Dump!PageCount

\* clampFlashDumpPage gives a page there is, and leaves such a page alone.
LEMMA Clamped == ASSUME Dump!DumpAssumption, NEW p \in Int
                 PROVE  /\ Dump!Clamp(p) \in 0 .. Dump!PageCount - 1
                        /\ p \in 0 .. Dump!PageCount - 1 => Dump!Clamp(p) = p
<1>1. Dump!PageCount \in Nat \ {0}
  BY SomePages
<1>2. Dump!Min({p, Dump!PageCount - 1}) = IF p <= Dump!PageCount - 1 THEN p ELSE Dump!PageCount - 1
  BY <1>1, MinOfTwo
<1> QED BY <1>1, <1>2 DEF Dump!Clamp

\* A column that lies before the end of the image is in the row.
LEMMA InRow == ASSUME NEW w \in Nat, NEW left \in Int, NEW c \in 0 .. w - 1, c < left
               PROVE  c \in 0 .. Dump!Min({w, left}) - 1
<1>1. Dump!Min({w, left}) = IF w <= left THEN w ELSE left
  BY MinOfTwo
<1> QED BY <1>1

\* The rows of a page cover its range and are cut at the end of the image.
LEMMA RowsCover ==
  ASSUME Dump!DumpAssumption, NEW i \in 0 .. Dump!PageCount - 1
  PROVE  Dump!Announced(i) \subseteq Dump!Shown(i) /\ Dump!Shown(i) \subseteq 0 .. TotalBytes - 1
<1> DEFINE P == PageBytes  R == RowBytes  T == TotalBytes  q == Dump!RowsPerPage
<1>1. P \in Nat \ {0} /\ R \in Nat \ {0} /\ T \in Nat \ {0} /\ T % P = 0
  BY DEF Dump!DumpAssumption
<1>2. Dump!PageCount \in Nat \ {0} /\ i \in Nat /\ i + 1 <= Dump!PageCount
  BY SomePages
<1>3. T = P * Dump!PageCount
  <2>1. T = (P * (T \div P)) + (T % P)
    BY <1>1
  <2> QED BY <1>1, <1>2, <2>1 DEF Dump!PageCount
<1>4. i * P + P <= T /\ i * P \in Nat
  <2>1. P * (i + 1) <= P * Dump!PageCount
    BY <1>1, <1>2
  <2>2. P * (i + 1) = i * P + P
    BY <1>1, <1>2
  <2> QED BY <1>1, <1>2, <1>3, <2>1, <2>2
<1>5. q \in Nat /\ P - 1 < R * q
  <2> DEFINE n == P + R - 1
  <2>1. n \in Nat /\ n \div R \in Nat /\ n = (R * (n \div R)) + (n % R) /\ n % R < R
    BY <1>1
  <2> QED BY <1>1, <2>1 DEF Dump!RowsPerPage
<1> DEFINE Offset(row) == i * P + row * R
           Row(row) == {Offset(row) + col : col \in 0 .. Dump!Min({R, T - Offset(row)}) - 1}
<1>6. Dump!Shown(i) = UNION {Row(row) : row \in 0 .. q - 1}
  BY DEF Dump!Shown
<1>7. ASSUME NEW row \in 0 .. q - 1
      PROVE  /\ Offset(row) \in Nat
             /\ Dump!Min({R, T - Offset(row)}) = IF R <= T - Offset(row) THEN R ELSE T - Offset(row)
  <2>1. row * R \in Nat
    BY <1>1, <1>5
  <2>2. Offset(row) \in Nat
    BY <1>4, <2>1
  <2> QED BY <1>1, <2>2, MinOfTwo
<1>8. ASSUME NEW b \in Dump!Announced(i) PROVE b \in Dump!Shown(i)
  <2> DEFINE k == b - i * P  r == k \div R  c == k % R
  <2>1. b \in i * P .. i * P + P - 1
    BY <1>1, <1>4 DEF Dump!Announced
  <2>2. k \in Nat /\ k <= P - 1 /\ b = i * P + k
    BY <1>1, <1>4, <2>1
  <2> HIDE DEF k
  <2>3. r \in Nat /\ c \in 0 .. R - 1 /\ k = (R * r) + c
    BY <1>1, <2>2
  <2> HIDE DEF r, c
  <2>4. r < q
    <3>1. R * r < R * q
      <4>1. R * r \in Nat /\ R * q \in Nat
        BY <1>1, <1>5, <2>3
      <4> QED BY <1>1, <1>5, <2>2, <2>3, <4>1
    <3>2. CASE r >= q
      <4>1. R * r >= R * q
        BY <1>1, <1>5, <2>3, <3>2
      <4> QED BY <1>1, <1>5, <2>3, <3>1, <4>1
    <3> QED BY <1>5, <2>3, <3>2
  <2>5. b = Offset(r) + c
    <3>1. r * R = R * r
      BY <1>1, <2>3
    <3> QED BY <1>1, <1>4, <2>2, <2>3, <3>1
  <2>6. r \in 0 .. q - 1
    BY <1>5, <2>3, <2>4
  <2>7. Offset(r) \in Nat /\ b < T
    BY <1>4, <1>7, <2>1, <2>6, <1>1
  <2>8. c \in 0 .. Dump!Min({R, T - Offset(r)}) - 1
    <3>1. T - Offset(r) \in Int /\ c < T - Offset(r)
      BY <1>1, <2>3, <2>5, <2>7
    <3> QED BY <1>1, <2>3, <3>1, InRow
  <2>9. b \in Row(r)
    BY <2>5, <2>8
  <2> HIDE DEF Row
  <2> QED BY <1>6, <2>6, <2>9
<1>9. ASSUME NEW row \in 0 .. q - 1, NEW b \in Row(row) PROVE b \in 0 .. T - 1
  <2>1. PICK col \in 0 .. Dump!Min({R, T - Offset(row)}) - 1 : b = Offset(row) + col
    BY <1>9
  <2> DEFINE o == Offset(row)
  <2>2. o \in Nat /\ Dump!Min({R, T - o}) = IF R <= T - o THEN R ELSE T - o
    BY <1>7
  <2>3. b = o + col /\ col \in 0 .. Dump!Min({R, T - o}) - 1
    BY <2>1
  <2> HIDE DEF o
  <2> QED BY <1>1, <2>2, <2>3
<1> QED BY <1>6, <1>8, <1>9

\* What the enabled buttons say of the rest of the state.
ButtonsInv ==
  /\ enabled \subseteq Dump!Buttons
  /\ enabled \ {"param"} = Dump!DumpButtons
  /\ "param" \in enabled => ~paramBusy /\ ~dumpBusy
  /\ chosen /\ ~paramBusy /\ ~dumpBusy => "param" \in enabled

DumpInv == Dump!TypeOK /\ Dump!OneRun /\ Dump!ViewOfImage /\ ButtonsInv

\* Both updates leave the buttons of the dump page as they are to be.
LEMMA UpdatedBoth == ASSUME Dump!UpdateBoth PROVE ButtonsInv'
BY DEF Dump!UpdateBoth, ButtonsInv, Dump!ParamButtons, Dump!DumpButtons, Dump!Buttons
LEMMA UpdatedDump ==
  ASSUME ButtonsInv, Dump!UpdateDump, UNCHANGED <<chosen, paramBusy, dumpBusy>>
  PROVE  ButtonsInv'
BY DEF Dump!UpdateDump, ButtonsInv, Dump!DumpButtons, Dump!Buttons

\* What an enabled button stands for.
LEMMA EnabledButton ==
  ASSUME ButtonsInv
  PROVE  /\ "start" \in enabled => ~dumpBusy /\ ~paramBusy
         /\ \A b \in {"query", "prev", "next"} : b \in enabled => image # 0 /\ ~dumpBusy
         /\ "prev" \in enabled => index > 0
         /\ "next" \in enabled => index < Dump!PageCount - 1
BY DEF ButtonsInv, Dump!DumpButtons

LEMMA InitDump == ASSUME Dump!DumpAssumption, Dump!Init PROVE DumpInv
<1>1. Dump!PageCount \in Nat \ {0}
  BY SomePages
<1>2. ButtonsInv
  BY DEF Dump!Init, ButtonsInv, Dump!DumpButtons, Dump!Buttons
<1>3. Dump!TypeOK
  <2>1. 0 \in 0 .. Dump!PageCount - 1 /\ 0 \in 0 .. 0 /\ 0 \in 0 .. MaxDumps
    BY <1>1 DEF Dump!DumpAssumption
  <2>2. drawn \in [image : 0 .. dumps, page : 0 .. Dump!PageCount - 1]
    BY <2>1 DEF Dump!Init, Dump!Nothing
  <2>3. enabled \subseteq Dump!Buttons
    BY <1>2 DEF ButtonsInv
  <2> QED BY <2>1, <2>2, <2>3 DEF Dump!Init, Dump!TypeOK
<1> QED BY <1>2, <1>3 DEF DumpInv, Dump!Init, Dump!OneRun, Dump!ViewOfImage

\* renderFlashDumpPage draws a page of the image.
LEMMA Turned ==
  ASSUME Dump!DumpAssumption, DumpInv, NEW button \in {"query", "prev", "next"}, NEW p \in Int,
         Dump!Turn(button, p)
  PROVE  DumpInv'
<1> USE DEF DumpInv
<1>1. index' \in 0 .. Dump!PageCount - 1 /\ field' = index' /\ drawn' = [image |-> image, page |-> index']
  BY Clamped DEF Dump!Turn, Dump!Render
<1>2. UNCHANGED <<chosen, paramBusy, dumpBusy, image, dumps>> /\ Dump!UpdateDump /\ image # 0
  BY DEF Dump!Turn
<1>3. ButtonsInv'
  BY <1>2, UpdatedDump
<1>4. enabled' \subseteq Dump!Buttons
  BY <1>3 DEF ButtonsInv
<1>5. Dump!TypeOK'
  BY <1>1, <1>2, <1>4 DEF Dump!TypeOK
<1>6. Dump!OneRun' /\ Dump!ViewOfImage'
  BY <1>1, <1>2 DEF Dump!OneRun, Dump!ViewOfImage
<1> QED BY <1>3, <1>5, <1>6

LEMMA StepDump == ASSUME Dump!DumpAssumption, DumpInv, [Dump!Next]_Dump!vars PROVE DumpInv'
<1> USE DEF DumpInv
<1> Dump!PageCount \in Nat \ {0}
  BY SomePages
<1>1. CASE Dump!Select
  <2>1. ButtonsInv'
    <3>1. CASE paramBusy
      BY <1>1, <3>1 DEF Dump!Select, Dump!dumpVars, ButtonsInv, Dump!DumpButtons
    <3>2. CASE ~paramBusy
      BY <1>1, <3>2, UpdatedBoth DEF Dump!Select
    <3> QED BY <3>1, <3>2
  <2> QED BY <1>1, <2>1 DEF Dump!Select, Dump!dumpVars, ButtonsInv, Dump!TypeOK, Dump!OneRun, Dump!ViewOfImage
<1>2. CASE Dump!Deselect
  BY <1>2 DEF Dump!Deselect, Dump!dumpVars, ButtonsInv, Dump!DumpButtons, Dump!TypeOK, Dump!OneRun, Dump!ViewOfImage
<1>3. CASE Dump!ActParam
  <2>1. ButtonsInv' /\ ~dumpBusy
    BY <1>3, UpdatedBoth DEF Dump!ActParam, ButtonsInv
  <2> QED BY <1>3, <2>1 DEF Dump!ActParam, Dump!dumpVars, ButtonsInv, Dump!TypeOK, Dump!OneRun, Dump!ViewOfImage
<1>4. CASE Dump!ParamEnds
  <2>1. ButtonsInv'
    BY <1>4, UpdatedBoth DEF Dump!ParamEnds
  <2> QED BY <1>4, <2>1 DEF Dump!ParamEnds, Dump!dumpVars, ButtonsInv, Dump!TypeOK, Dump!OneRun, Dump!ViewOfImage
<1>5. CASE Dump!Start
  <2>1. ButtonsInv' /\ ~paramBusy
    BY <1>5, UpdatedBoth, EnabledButton DEF Dump!Start
  <2>2. Dump!TypeOK'
    BY <1>5, <2>1 DEF Dump!Start, ButtonsInv, Dump!TypeOK, Dump!Nothing, Dump!DumpAssumption
  <2> QED BY <1>5, <2>1, <2>2 DEF Dump!Start, Dump!OneRun, Dump!ViewOfImage
<1>6. CASE Dump!Fails
  <2>1. ButtonsInv'
    BY <1>6, UpdatedBoth DEF Dump!Fails
  <2> QED BY <1>6, <2>1 DEF Dump!Fails, ButtonsInv, Dump!TypeOK, Dump!OneRun, Dump!ViewOfImage
<1>7. CASE Dump!Fetched
  <2>1. ButtonsInv'
    BY <1>7, UpdatedBoth DEF Dump!Fetched
  <2>2. index' = 0 /\ field' = 0 /\ drawn' = [image |-> dumps, page |-> 0]
    BY <1>7, Clamped DEF Dump!Fetched, Dump!Render
  <2>3. Dump!TypeOK'
    <3>1. dumps \in 0 .. dumps /\ dumps \in 0 .. MaxDumps /\ 0 \in 0 .. Dump!PageCount - 1
      BY DEF Dump!TypeOK, Dump!DumpAssumption
    <3>2. drawn' \in [image : 0 .. dumps', page : 0 .. Dump!PageCount - 1]
      BY <1>7, <2>2, <3>1 DEF Dump!Fetched
    <3>3. enabled' \subseteq Dump!Buttons
      BY <2>1 DEF ButtonsInv
    <3> QED BY <1>7, <2>2, <3>1, <3>2, <3>3 DEF Dump!Fetched, Dump!TypeOK
  <2> QED BY <1>7, <2>1, <2>2, <2>3 DEF Dump!Fetched, Dump!OneRun, Dump!ViewOfImage, Dump!Nothing, Dump!TypeOK
<1>8. ASSUME NEW v \in DumpInputs, Dump!TypePage(v) PROVE DumpInv'
  <2>1. UNCHANGED <<chosen, paramBusy, dumpBusy, image, index, drawn, enabled, dumps>> /\ field' = v
    BY <1>8 DEF Dump!TypePage
  <2> QED BY <2>1 DEF ButtonsInv, Dump!DumpButtons, Dump!TypeOK, Dump!OneRun, Dump!ViewOfImage
<1>9. index \in Int /\ field \in Int
  BY DEF Dump!TypeOK, Dump!DumpAssumption
<1>10. CASE Dump!Query
  BY <1>9, <1>10, Turned DEF Dump!Query
<1>11. CASE Dump!Next1
  BY <1>9, <1>11, Turned DEF Dump!Next1
<1>12. CASE Dump!Prev1
  BY <1>9, <1>12, Turned DEF Dump!Prev1
<1>13. CASE UNCHANGED Dump!vars
  BY <1>13 DEF Dump!vars, ButtonsInv, Dump!DumpButtons, Dump!TypeOK, Dump!OneRun, Dump!ViewOfImage
<1> QED BY <1>1, <1>2, <1>3, <1>4, <1>5, <1>6, <1>7, <1>8, <1>10, <1>11, <1>12, <1>13 DEF Dump!Next

-----------------------------------------------------------------------------
\* The buttons, the image and the view always belong together.
THEOREM DumpInductive == ASSUME Dump!DumpAssumption PROVE Dump!Spec => []DumpInv
BY InitDump, StepDump, PTL DEF Dump!Spec

\* A readback or download and a dump never run at once on the page, though
\* actFlashDump, actReadback and actDownload do not look at each other's flags.
THEOREM RunsApart == ASSUME Dump!DumpAssumption PROVE Dump!Spec => []Dump!OneRun
<1>1. DumpInv => Dump!OneRun
  BY DEF DumpInv
<1> QED BY <1>1, DumpInductive, PTL

\* When nothing runs, every button that may be pressed is enabled: each path
\* out of a run passes an update.
THEOREM ButtonsGivenBack == ASSUME Dump!DumpAssumption PROVE Dump!Spec => []Dump!NothingLeftDisabled
<1>1. DumpInv => Dump!NothingLeftDisabled
  BY DEF DumpInv, ButtonsInv, Dump!NothingLeftDisabled, Dump!ParamButtons
<1> QED BY <1>1, DumpInductive, PTL

\* The view is the page at the index of the image an export saves, and no
\* older image is left during a run or after one that failed.
THEOREM ViewIsImage == ASSUME Dump!DumpAssumption PROVE Dump!Spec => []Dump!ViewOfImage
<1>1. DumpInv => Dump!ViewOfImage
  BY DEF DumpInv
<1> QED BY <1>1, DumpInductive, PTL

\* Every byte of the range announced for a page is drawn, and no cell lies
\* beyond the end of the image, for rows of any length.
THEOREM RangeIsShown == ASSUME Dump!DumpAssumption PROVE Dump!Spec => []Dump!RangeShown
<1>1. Dump!DumpAssumption /\ DumpInv => Dump!RangeShown
  BY RowsCover DEF DumpInv, Dump!TypeOK, Dump!RangeShown
<1> QED BY <1>1, DumpInductive, PTL

\* The buttons for the next and the previous page go exactly one page on,
\* whatever has been typed into the page field.
THEOREM OnePageOn == ASSUME Dump!DumpAssumption PROVE Dump!Spec => Dump!TurnsOnePage
<1>1. ASSUME Dump!DumpAssumption, DumpInv, Dump!Next1 PROVE index' = index + 1
  BY <1>1, EnabledButton, Clamped, SomePages DEF DumpInv, Dump!TypeOK, Dump!Next1, Dump!Turn, Dump!Render
<1>2. ASSUME Dump!DumpAssumption, DumpInv, Dump!Prev1 PROVE index' = index - 1
  BY <1>2, EnabledButton, Clamped, SomePages DEF DumpInv, Dump!TypeOK, Dump!Prev1, Dump!Turn, Dump!Render
<1>3. Dump!DumpAssumption /\ DumpInv /\ [Dump!Next]_Dump!vars =>
        [(Dump!Next1 => index' = index + 1) /\ (Dump!Prev1 => index' = index - 1)]_Dump!vars
  BY <1>1, <1>2
<1> QED BY <1>3, DumpInductive, PTL DEF Dump!Spec, Dump!TurnsOnePage
=============================================================================
