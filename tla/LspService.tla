------------------------------- MODULE LspService -------------------------------
(***************************************************************************)
(* The editor's language service (services/lsp): its requests share a      *)
(* pool of threads that cannot be interrupted, one signal of health and    *)
(* the generation that makes a completion give way to a newer one.         *)
(* Positions go through the virtual module of services/lsp/virtual_module. *)
(***************************************************************************)
EXTENDS Naturals, Sequences, SequencesExt, FiniteSets

CONSTANTS Query,       \* bound: requests of the editor
          Threads,     \* lsp_pool_workers
          MaxCells, MaxLines   \* bounds of the notebook

ASSUME LspAssumption ==
    /\ {Threads, MaxCells, MaxLines} \subseteq Nat /\ Threads > 0
    /\ IsFiniteSet(Query)

VARIABLES completeGen, healthy,
          query,       \* the coroutine of each request
          pool,        \* functions that wait for a thread
          busy,        \* functions that have one, wanted or not
          shown,       \* the generation of the last list the editor was sent
          notebook,    \* the line counts of the cells the editor sends
          late         \* history: a list waited for the kernel

lspVars == <<completeGen, healthy, query, pool, busy, shown, notebook, late>>

Notebooks == UNION {[1..n -> 1..MaxLines] : n \in 1..MaxCells}

LspTypeOK ==
    /\ completeGen \in 0..Cardinality(Query) /\ healthy \in BOOLEAN
    /\ query \in [Query -> [pc : {"idle", "waiting", "kernel", "answered"},
                            kind : {"complete", "other"}, gen : 0..completeGen]]
    /\ IsInjective(pool) /\ \A q \in Range(pool) : query[q].pc = "waiting" /\ q \notin busy
    /\ busy \subseteq Query /\ Cardinality(busy) <= Threads
    /\ shown \in 0..completeGen /\ notebook \in Notebooks /\ late \in BOOLEAN

LspInit ==
    /\ completeGen = 0 /\ healthy = TRUE
    /\ query = [q \in Query |-> [pc |-> "idle", kind |-> "other", gen |-> 0]]
    /\ pool = <<>> /\ busy = {}
    /\ shown = 0 /\ notebook \in Notebooks /\ late = FALSE

(***************************************************************************)
(* The requests.                                                           *)
(***************************************************************************)
NextGen(kind) == IF kind = "complete" THEN completeGen + 1 ELSE completeGen

\* complete, resolve, hover, signature, _locate, diagnostics and auto_import
AskLsp(q, kind) ==
    /\ query[q].pc = "idle"
    /\ completeGen' = NextGen(kind)
    /\ query' = [query EXCEPT ![q] = [pc |-> "waiting", kind |-> kind, gen |-> completeGen']]
    /\ pool' = Append(pool, q)
    /\ UNCHANGED <<healthy, busy, shown, late, notebook>>

\* The service is off, the notebook too long or the cell unknown: a completion has
\* replaced the one before it all the same.
RefuseLsp(q, kind) ==
    /\ query[q].pc = "idle"
    /\ completeGen' = NextGen(kind)
    /\ query' = [query EXCEPT ![q] = [pc |-> "answered", kind |-> kind, gen |-> completeGen']]
    /\ UNCHANGED <<healthy, pool, busy, shown, late, notebook>>

TakeThread ==
    /\ pool # <<>> /\ Cardinality(busy) < Threads
    /\ busy' = busy \cup {Head(pool)} /\ pool' = Tail(pool)
    /\ UNCHANGED <<completeGen, healthy, query, shown, late, notebook>>

\* Bug: an older list is sent all the same.
NeverSuperseded(q) == FALSE

Superseded(q) == query[q].kind = "complete" /\ query[q].gen # completeGen

Answered(q) == query' = [query EXCEPT ![q].pc = "answered"]

Send(q) == shown' = IF query[q].kind = "complete" THEN query[q].gen ELSE shown

\* The function of a request that no longer waits ends.
EndUnwanted(q) ==
    /\ q \in busy /\ query[q].pc # "waiting"
    /\ busy' = busy \ {q}
    /\ UNCHANGED <<completeGen, healthy, query, pool, shown, late, notebook>>

Ends(q) == q \in busy /\ query[q].pc = "waiting" /\ busy' = busy \ {q}

\* It raises; what is superseded counts as well.
EndFails(q) ==
    /\ Ends(q) /\ Answered(q)
    /\ healthy' = FALSE
    /\ UNCHANGED <<completeGen, pool, shown, late, notebook>>

\* What is not a completion has its answer, if only an empty list.
EndOther(q) ==
    /\ Ends(q) /\ query[q].kind = "other" /\ Answered(q)
    /\ healthy' = TRUE
    /\ UNCHANGED <<completeGen, pool, shown, late, notebook>>

\* resolve, hover and signature: Jedi knows nothing there, which is not a sign of health.
EndNothing(q) ==
    /\ Ends(q) /\ query[q].kind = "other" /\ Answered(q)
    /\ UNCHANGED <<completeGen, healthy, pool, shown, late, notebook>>

\* A completion that has been superseded leaves the signal of health alone.
EndSuperseded(q) ==
    /\ Ends(q) /\ Superseded(q) /\ Answered(q)
    /\ UNCHANGED <<completeGen, healthy, pool, shown, late, notebook>>

EndFound(q) ==
    /\ Ends(q) /\ query[q].kind = "complete" /\ ~Superseded(q)
    /\ healthy' = TRUE
    /\ Answered(q) /\ Send(q)
    /\ UNCHANGED <<completeGen, pool, late, notebook>>

\* The route adds what an idle kernel knows, and waits for it.
EndAsksKernel(q) ==
    /\ Ends(q) /\ query[q].kind = "complete" /\ ~Superseded(q)
    /\ healthy' = TRUE
    /\ query' = [query EXCEPT ![q].pc = "kernel"]
    /\ UNCHANGED <<completeGen, pool, shown, late, notebook>>

\* The kernel's answer, or its timeout
KernelAnswers(q) ==
    /\ query[q].pc = "kernel"
    /\ Answered(q) /\ Send(q)
    /\ late' = TRUE
    /\ UNCHANGED <<completeGen, healthy, pool, busy, notebook>>

\* A function waits for a thread once.
Cancelled(q) == RemoveFirst(pool, q)

\* wait_for gives up: a function without a thread is cancelled, one with a thread goes on.
LspTimeout(q) ==
    /\ query[q].pc = "waiting"
    /\ pool' = Cancelled(q)
    /\ healthy' = FALSE
    /\ Answered(q)
    /\ UNCHANGED <<completeGen, busy, shown, late, notebook>>

LspNext ==
    \/ \E q \in Query, kind \in {"complete", "other"} : AskLsp(q, kind) \/ RefuseLsp(q, kind)
    \/ TakeThread
    \/ \E q \in Query :
          \/ EndUnwanted(q)
          \/ EndFails(q)
          \/ EndOther(q)
          \/ EndNothing(q)
          \/ EndSuperseded(q)
          \/ EndFound(q)
          \/ EndAsksKernel(q)
          \/ KernelAnswers(q)
          \/ LspTimeout(q)

LspSpec == LspInit /\ [][LspNext]_lspVars

(***************************************************************************)
(* The virtual module: the cells' lines, a blank line between two cells.   *)
(***************************************************************************)

\* Bug: the blank line is forgotten.
CellStartTight(cells, c) ==
    LET start[d \in 1..Len(cells) + 1] == IF d = 1 THEN 0 ELSE start[d - 1] + cells[d - 1]
    IN  start[c]

CellStart(cells, c) ==
    LET start[d \in 1..Len(cells) + 1] == IF d = 1 THEN 0 ELSE start[d - 1] + cells[d - 1] + 1
    IN  start[c]

ToAbsolute(cells, c, line) == CellStart(cells, c) + line + 1

\* The last cell that starts at or before the line; a blank line counts as its last line.
ToCell(cells, absolute) ==
    LET c == Max({1} \cup {d \in DOMAIN cells : CellStart(cells, d) <= absolute - 1})
    IN <<c, Min({absolute - 1 - CellStart(cells, c), cells[c] - 1})>>

\* _clamp: a line past the end is the last one.
Clamp(cells, absolute) == Max({1, Min({absolute, CellStart(cells, Len(cells) + 1) - 1})})

\* goto and references: Jedi names the buffer of the notebook with the Home's path, or not
\* at all; any other path is another file.
External(place) == place.path \notin {"none", "buffer"}

\* A place in the notebook becomes a line of a cell; one in another file keeps its own line
\* and belongs to no cell.
Located(cells, place) ==
    IF External(place) THEN <<0, Max({0, place.line - 1})>> ELSE ToCell(cells, place.line)

(***************************************************************************)
(* Properties.                                                             *)
(***************************************************************************)
\* Completions answered out of order, on a pool that runs several at once: the editor is
\* never sent a list after a newer one, unless a list waited for a kernel
\* (services/lsp/service.py, 71).
ListsInOrder == [][shown' >= shown \/ late']_lspVars

\* Reference: the module line by line, with the cell and the line that each one shows.
CellLines(cells, c) == [i \in 1..cells[c] + 1 |-> <<c, Min({i, cells[c]}) - 1>>]
ModuleLines(cells) == FlattenSeq([c \in DOMAIN cells |-> CellLines(cells, c)])

\* A position of a cell and the line of the module it stands for name each other; what is
\* located there is found in its cell again, and never in one when it is elsewhere; and
\* whatever line the editor asks for, past the end of its cell too, is one of the module.
PositionsAgree ==
    \E lines \in {ModuleLines(notebook)} :
        /\ \A i \in 1..Len(lines) :
              /\ \A path \in {"none", "buffer"} :
                    Located(notebook, [path |-> path, line |-> i]) = lines[i]
              /\ Located(notebook, [path |-> "file", line |-> i])[1] \notin DOMAIN notebook
        /\ \A c \in DOMAIN notebook : \A line \in 0..MaxLines + 1 :
              \E i \in {Clamp(notebook, ToAbsolute(notebook, c, line))} :
                  /\ i \in 1..Len(lines)
                  /\ line < notebook[c] => lines[i] = <<c, line>>
===============================================================================
