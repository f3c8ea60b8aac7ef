---------------------------- MODULE AssistantContext ----------------------------
(***************************************************************************)
(* What of a notebook the assistant is sent: build_context of             *)
(* services/assistant/context.py. A cell is its size and the one statement *)
(* it holds; sizes count units of text. The redaction of the text is left  *)
(* out, as is the limit of 60 names. The request is chosen by Init.        *)
(***************************************************************************)
EXTENDS Naturals, Sequences, SequencesExt, FiniteSetsExt

CONSTANTS CellSizes,             \* bound: the lengths of cells; the least is an offset
          CellTrim, TailTrim,    \* _CELL_TRIM; the 1000 of what follows the cursor
          NearCells,             \* values of max_cells
          CharBudgets,           \* values of budget_chars
          MinImports, MinNames,  \* what the cut leaves of them: 5 and 20
          MaxNamed,              \* workspace files: at most _MAX_WS_FILES
          MaxNotebook            \* bound: cells of the notebook

ASSUME ContextAssumption ==
    /\ CellSizes \cup CharBudgets \subseteq Nat \ {0}
    /\ NearCells \cup {CellTrim, TailTrim, MinImports, MinNames, MaxNamed} \subseteq Nat
    /\ MaxNotebook \in Nat \ {0}
    /\ {} \notin {CellSizes, CharBudgets, NearCells}

VARIABLE request

contextVars == <<request>>

NoCursor == Max(CellSizes) + 1   \* the task is not INLINE: no offset in the active cell

\* A cell that imports or assigns is relevant, any other is not.
Cells ==
    {[says |-> "text", what |-> "a", size |-> Min(CellSizes)]}
        \cup [says : {"import", "assign"}, what : {"a", "b"}, size : CellSizes]

\* workspace_files: nothing, or more than are read
Requests(notebooks) ==
    [cells : notebooks, active : 0..MaxNotebook - 1, cursor : {Min(CellSizes), NoCursor},
     error : 0..1, files : {0, MaxNamed + 1}, budget : CharBudgets, near : NearCells]

ContextTypeOK == request \in Requests(Seq(Cells))

ContextInit == request \in Requests(BoundedSeq(Cells, MaxNotebook))

Clip(n) == Min({n, CellTrim})

\* active_index, clamped to the notebook; a notebook without cells has no current one.
ActiveIndex == Min({request.active + 1, Len(request.cells)})

CellSize(i) == IF i = 0 THEN 0 ELSE request.cells[i].size

\* current, and the two halves of an inline completion
CurrentSize == Clip(CellSize(ActiveIndex))

CursorSize ==
    IF request.cursor = NoCursor THEN 0
    ELSE LET off == Min({request.cursor, CellSize(ActiveIndex)})
         IN  Clip(off) + Min({CellSize(ActiveIndex) - off, TailTrim})

Relevant(i) == request.cells[i].says # "text"

\* One step of the walk back from the active cell: a relevant cell is taken, until there are
\* max_cells of them or they fill the budget.
Walk(acc, i) ==
    IF Len(acc.taken) >= request.near \/ acc.used >= request.budget \/ ~Relevant(i)
    THEN acc
    ELSE [taken |-> <<i>> \o acc.taken, used |-> acc.used + Clip(CellSize(i))]

Earlier == Max({1, ActiveIndex}) - 1   \* how many cells come before the active one

Preceding ==
    LET walked[k \in 0..Earlier] ==
          IF k = 0 THEN [taken |-> <<>>, used |-> CurrentSize + CursorSize]
          ELSE Walk(walked[k - 1], ActiveIndex - k)
    IN  walked[Earlier].taken

\* What the cells of a kind are about, each once and in order
AddNew(names, i, kinds) ==
    IF request.cells[i].says \in kinds /\ ~Contains(names, request.cells[i].what)
    THEN Append(names, request.cells[i].what) ELSE names

Distinct(kinds) ==
    LET names[k \in 0..Len(request.cells)] ==
          IF k = 0 THEN <<>> ELSE AddNew(names[k - 1], k, kinds)
    IN  names[Len(request.cells)]

Imports == Distinct({"import"})

DefinedNames == Distinct({"import", "assign"})

\* The files named, of which the first few are read. A file is its number.
WorkspaceFiles == [k \in 1..Min({request.files, MaxNamed}) |-> k]

Collected ==
    [imports |-> Imports, names |-> DefinedNames, preceding |-> Preceding,
     files |-> WorkspaceFiles]

CellsSize(s) ==
    LET sum[k \in 0..Len(s)] == IF k = 0 THEN 0 ELSE sum[k - 1] + Clip(CellSize(s[k]))
    IN  sum[Len(s)]

\* total: an import, a name and a file are of one unit. The halves of an inline cell and
\* the selection are sent, and are not in it.
Total(s) ==
    CurrentSize + request.error + Len(s.imports) + Len(s.names) + CellsSize(s.preceding)
        + Len(s.files)

\* Bug: the nearest of the preceding cells goes first.
DropOneNearest(s) ==
    CASE s.files # <<>> -> [s EXCEPT !.files = Front(@)]
      [] s.files = <<>> /\ s.preceding # <<>> -> [s EXCEPT !.preceding = Front(@)]
      [] s.files = <<>> /\ s.preceding = <<>> /\ Len(s.names) > MinNames ->
            [s EXCEPT !.names = Front(@)]
      [] OTHER -> [s EXCEPT !.imports = Front(@)]

\* One round of the cut: the last file, the farthest cell, the last name, the last import
DropOne(s) ==
    CASE s.files # <<>> -> [s EXCEPT !.files = Front(@)]
      [] s.files = <<>> /\ s.preceding # <<>> -> [s EXCEPT !.preceding = Tail(@)]
      [] s.files = <<>> /\ s.preceding = <<>> /\ Len(s.names) > MinNames ->
            [s EXCEPT !.names = Front(@)]
      [] OTHER -> [s EXCEPT !.imports = Front(@)]

Droppable(s) ==
    s.files # <<>> \/ s.preceding # <<>> \/ Len(s.names) > MinNames
        \/ Len(s.imports) > MinImports

Round(s) == IF Total(s) > request.budget /\ Droppable(s) THEN DropOne(s) ELSE s

\* The rounds end at the latest when every item has been dropped.
Items(s) == Len(s.imports) + Len(s.names) + Len(s.preceding) + Len(s.files)

Cut(s) ==
    LET cut[k \in 0..Items(s)] == IF k = 0 THEN s ELSE Round(cut[k - 1])
    IN  cut[Items(s)]

---------------------------------------------------------------------------------

\* What may be cut, the dearest first: imports, names, cells from the nearest on, files
Expendable(s) ==
    [k \in 1..Len(s.imports) - Min({MinImports, Len(s.imports)}) |->
        <<"import", s.imports[MinImports + k]>>]
    \o [k \in 1..Len(s.names) - Min({MinNames, Len(s.names)}) |->
            <<"name", s.names[MinNames + k]>>]
    \o [k \in 1..Len(s.preceding) |-> <<"cell", s.preceding[Len(s.preceding) + 1 - k]>>]
    \o [k \in 1..Len(s.files) |-> <<"file", k>>]

\* What an item of Expendable takes
Weight(item) == IF item[1] = "cell" THEN Clip(CellSize(item[2])) ELSE 1

\* What was taken is, in order, the relevant cells from one of them up to the active one.
NearestRelevant(taken) ==
    /\ \A k, m \in DOMAIN taken : k < m => taken[k] < taken[m]
    /\ \E from \in 1..Earlier + 1 : Range(taken) = {i \in from..Earlier : Relevant(i)}

\* The context is the most important part of what was collected that fits the budget, as
\* the comment on the cut ranks it, and no less than fits; and of the cells before the
\* active one it has the nearest relevant ones, without a gap.
ContextFits ==
    LET sent == Cut(Collected)
        all == Expendable(Collected)
        kept == Expendable(sent)
    IN  /\ IsPrefix(kept, all)
        /\ kept = <<>> \/ Total(sent) <= request.budget
        /\ kept = all \/ Total(sent) + Weight(all[Len(kept) + 1]) > request.budget
        /\ NearestRelevant(sent.preceding)
==================================================================================
