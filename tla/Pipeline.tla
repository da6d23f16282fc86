------------------------------ MODULE Pipeline ------------------------------
(***************************************************************************)
(* The plugin processor pipelines run while rendering: the table-column   *)
(* processors of Table (ResourceTable.tsx) and the app-bar-action         *)
(* processors of processAppBarActions (TopBar.tsx).                       *)
(*                                                                         *)
(* Plugins register processors over time (appended in registration       *)
(* order); every render runs the current list.  A processor is arbitrary  *)
(* plugin code, so it is abstracted to what it does to its input list:    *)
(* return it, drop its first element, append an element, return nothing  *)
(* (undefined), or throw.                                                 *)
(***************************************************************************)
EXTENDS Naturals, Sequences, SequencesExt

CONSTANTS
  MaxProcessors,   \* bound on processors registered per pipeline
  AppendCol,       \* the columns a table processor may append
  Throw,           \* the outcome of a throw that escapes the render
  Undefined        \* a processor's `undefined` result

\* ColumnType: the names Table's column map knows.
ColumnType == {"age", "name", "namespace", "type", "kind"}

\* What a processor does with the list it gets.
Kinds == {[op |-> o, col |-> "-"] : o \in {"identity", "dropFirst", "nothing", "throw"}}
         \cup {[op |-> "append", col |-> c] : c \in AppendCol}

\* The columns a table is declared with: named columns and a column object.
TableColumns == <<"name", "namespace", "age">>
DefaultAppBarActions == <<"CLUSTER", "NOTIFICATION", "SETTINGS", "USER">>

\* A processor run on `undefined` passes it through, or throws a TypeError
\* as soon as it touches the list.
RunProcessor(k, xs) ==
  CASE k.op = "identity"  -> xs
    [] k.op = "nothing"   -> Undefined
    [] k.op = "throw"     -> Throw
    [] xs = Undefined     -> Throw
    [] k.op = "dropFirst" -> IF xs = <<>> THEN xs ELSE Tail(xs)
    [] k.op = "append"    -> Append(xs, k.col)

\* tableProcessors.forEach: processedColumns = processor(...) || [].
RECURSIVE ProcessColumns(_, _)
ProcessColumns(procs, cols) ==
  IF procs = <<>> THEN cols
  ELSE LET r == RunProcessor(Head(procs), cols)
       IN IF r = Throw THEN Throw
          ELSE ProcessColumns(Tail(procs), IF r = Undefined THEN <<>> ELSE r)

\* The column map's `case 'age'`: the first 'age' column becomes the
\* default sorting column (1-based) unless one was given (0 = undefined).
SortingColumn(cols, defaultSort) ==
  LET i == SelectInSeq(cols, LAMBDA c : c = "age")
  IN IF defaultSort # 0 \/ i = 0 THEN defaultSort ELSE i

\* Mutant: the column map without its `default: throw`.
RenderTableNoThrow(procs, noProcessing, defaultSort) ==
  LET processed == IF noProcessing THEN TableColumns ELSE ProcessColumns(procs, TableColumns)
  IN IF processed = Throw THEN Throw
     ELSE [columns |-> Append(processed, "chooser"),
           sortingColumn |-> SortingColumn(processed, defaultSort)]

\* Table's render: the processors (unless noProcessing), the column map,
\* which throws on a name outside ColumnType, and the chooser column.
RenderTable(procs, noProcessing, defaultSort) ==
  LET processed == IF noProcessing THEN TableColumns ELSE ProcessColumns(procs, TableColumns)
  IN IF processed = Throw THEN Throw
     ELSE IF \E i \in 1..Len(processed) : processed[i] \notin ColumnType \cup {"obj"} THEN Throw
     ELSE [columns |-> Append(processed, "chooser"),
           sortingColumn |-> SortingColumn(processed, defaultSort)]

\* processAppBarActions: no `|| []`, so `undefined` reaches the next
\* processor; AppBarActions then calls appBarActions.map.
RECURSIVE ProcessAppBarActions(_, _)
ProcessAppBarActions(procs, actions) ==
  IF procs = <<>> THEN actions
  ELSE LET r == RunProcessor(Head(procs), actions)
       IN IF r = Throw THEN Throw ELSE ProcessAppBarActions(Tail(procs), r)

RenderTopBar(procs) ==
  LET r == ProcessAppBarActions(procs, DefaultAppBarActions)
  IN IF r = Undefined THEN Throw ELSE r

VARIABLES
  tableProcessors,   \* state.ui.views.tableColumnsProcessors
  appBarProcessors,  \* state.actionButtons.appBarActionsProcessors
  tableView,         \* the last render of a table, or Throw
  topBarView,        \* the last render of the top bar, or Throw
  chooserOpen        \* Table's anchorEl # null: the column chooser is open

vars == <<tableProcessors, appBarProcessors, tableView, topBarView, chooserOpen>>

TypeOK ==
  /\ tableProcessors \in Seq(Kinds) /\ appBarProcessors \in Seq(Kinds)
  /\ Len(tableProcessors) <= MaxProcessors /\ Len(appBarProcessors) <= MaxProcessors
  /\ tableView = Throw \/
       /\ tableView.columns \in Seq(ColumnType \cup {"obj", "chooser"})
       /\ tableView.sortingColumn \in 0..Len(tableView.columns)
  /\ chooserOpen \in BOOLEAN

Init ==
  /\ tableProcessors = <<>> /\ appBarProcessors = <<>>
  /\ tableView = RenderTable(<<>>, FALSE, 0)
  /\ topBarView = RenderTopBar(<<>>)
  /\ chooserOpen = FALSE

\* A plugin registers a table-columns processor (appended).
RegisterTableProcessor(k) ==
  /\ Len(tableProcessors) < MaxProcessors
  /\ tableProcessors' = Append(tableProcessors, k)
  /\ UNCHANGED <<appBarProcessors, tableView, topBarView, chooserOpen>>

\* A plugin registers an app-bar-actions processor (appended).
RegisterAppBarProcessor(k) ==
  /\ Len(appBarProcessors) < MaxProcessors
  /\ appBarProcessors' = Append(appBarProcessors, k)
  /\ UNCHANGED <<tableProcessors, tableView, topBarView, chooserOpen>>

\* A table renders, with or without noProcessing and a defaultSortingColumn.
\* A render that throws unmounts the Table, and its anchorEl with it.
RenderTableAction(noProcessing, defaultSort) ==
  /\ tableView' = RenderTable(tableProcessors, noProcessing, defaultSort)
  /\ chooserOpen' = (chooserOpen /\ tableView' # Throw)
  /\ UNCHANGED <<tableProcessors, appBarProcessors, topBarView>>

RenderTopBarAction ==
  /\ topBarView' = RenderTopBar(appBarProcessors)
  /\ UNCHANGED <<tableProcessors, appBarProcessors, tableView, chooserOpen>>

\* The chooser column's "Filter columns" button: setAnchorEl(currentTarget).
OpenChooser ==
  /\ tableView # Throw /\ ~chooserOpen
  /\ chooserOpen' = TRUE
  /\ UNCHANGED <<tableProcessors, appBarProcessors, tableView, topBarView>>

\* TableColumnChooserPopup's onClose: setAnchorEl(null).  Its
\* onToggleColumn only logs.
CloseChooser ==
  /\ chooserOpen
  /\ chooserOpen' = FALSE
  /\ UNCHANGED <<tableProcessors, appBarProcessors, tableView, topBarView>>

Next ==
  \/ \E k \in Kinds : RegisterTableProcessor(k) \/ RegisterAppBarProcessor(k)
  \/ \E np \in BOOLEAN, ds \in {0, 1} : RenderTableAction(np, ds)
  \/ RenderTopBarAction
  \/ OpenChooser \/ CloseChooser

Spec == Init /\ [][Next]_vars

(***************************************************************************)
(* Properties.                                                             *)
(***************************************************************************)

\* Spec 4.5 and 8: the pipelines fail open: a processor that throws is
\* skipped and the table and the top bar still render.
FailOpen == tableView # Throw /\ topBarView # Throw
=============================================================================
