------------------------------ MODULE DataPreview ------------------------------
(***************************************************************************)
(* The rows of a .csv or .parquet file, page by page: read_data of          *)
(* services/workspace_fs_service.py and the tab that asks for more. The     *)
(* file is read in batches of the reader's choosing; a page is cut out of  *)
(* the batches that overlap it. A row is its number; its values are left   *)
(* out. The file may grow between two pages.                               *)
(***************************************************************************)
EXTENDS Naturals, Sequences, FiniteSets, FiniteSetsExt

CONSTANTS MaxTable,   \* bound: rows of the file
          PageRows,   \* what the tab asks for
          MaxPage     \* settings.workspace_data_max_rows

ASSUME PreviewAssumption == MaxTable \in Nat /\ {PageRows, MaxPage} \subseteq Nat \ {0}

VARIABLES rowCount,    \* how many the file has
          format,  \* "parquet" or "csv"
          view      \* what the tab shows, and the answer on its way

previewVars == <<rowCount, format, view>>

Unknown == MaxTable + 1   \* total is None

NoPage == [first |-> 1, count |-> 0, total |-> Unknown, truncated |-> FALSE]

Pages == [first : 1..MaxTable + 1, count : 0..MaxTable,
          total : 0..Unknown, truncated : BOOLEAN]

PreviewTypeOK ==
    /\ rowCount \in 0..MaxTable /\ format \in {"parquet", "csv"}
    /\ view \in [shown : Seq(1..MaxTable), total : 0..Unknown, truncated : BOOLEAN,
                pc : {"asking", "answered", "idle"}, page : Pages, known : 0..MaxTable]

PreviewInit ==
    /\ rowCount \in 0..MaxTable /\ format \in {"parquet", "csv"}
    /\ view = [shown |-> <<>>, total |-> Unknown, truncated |-> FALSE, pc |-> "asking",
              page |-> NoPage, known |-> 0]

Lesser(a, b) == IF a < b THEN a ELSE b

Greater(a, b) == IF a < b THEN b ELSE a

\* min(limit or 100, max_rows)
Capped == Lesser(PageRows, MaxPage)

\* Where the batches end. Those of a parquet file are as long as the page at most, those
\* of a CSV are blocks of text.
Batches ==
    {ends \in SUBSET (1..rowCount) :
        /\ rowCount > 0 => rowCount \in ends
        /\ format = "parquet" =>
              \A k \in 1..rowCount : \E b \in ends : b >= k /\ b < k + Lesser(Capped, 1024)}

\* Bug: a batch is dropped although its last row is on the page.
SkippedBeyond(ends, offset) == Max({e \in ends : e <= offset + 1} \cup {0})

\* Rows read and dropped: the batches that end at or before offset.
Skipped(ends, offset) == Max({e \in ends : e <= offset} \cup {0})

\* Rows read in all: no batch is asked for once the page is full.
Seen(ends, offset, limit) == Min({e \in ends : e >= offset + limit} \cup {rowCount})

\* What is cut out of the batches that were kept, local_offset rows from their start
Slice(ends, offset, limit) ==
    LET first == Greater(Skipped(ends, offset), offset) + 1
        last == Lesser(Seen(ends, offset, limit), first + limit - 1)
    IN  [first |-> first, count |-> IF Skipped(ends, offset) = rowCount THEN 0
                                    ELSE last + 1 - first]

PageOf(ends, offset, limit, total) ==
    LET slice == Slice(ends, offset, limit)
    IN  [first |-> slice.first, count |-> slice.count, total |-> total,
         truncated |-> slice.count > 0 /\ (total = Unknown \/ offset + slice.count < total)]

\* _preview_parquet: the metadata has the number of rows.
ParquetPage(ends, offset, limit) == PageOf(ends, offset, limit, rowCount)

\* _preview_csv: the number is known if the stream ended before the page was full. Where
\* it ends with the page there seems to be more.
CsvPage(ends, offset, limit) ==
    PageOf(ends, offset, limit, IF rowCount < offset + limit THEN rowCount ELSE Unknown)

\* _read_data_sync, for the rows the tab does not have
ReadData ==
    /\ view.pc = "asking"
    /\ \E ends \in Batches :
          view' = [view EXCEPT !.pc = "answered", !.known = rowCount,
                    !.page = IF format = "parquet"
                             THEN ParquetPage(ends, Len(view.shown), Capped)
                             ELSE CsvPage(ends, Len(view.shown), Capped)]
    /\ UNCHANGED <<rowCount, format>>

RowsOf(page) == [k \in 1..page.count |-> page.first + k - 1]

\* The rows are added to those that are there; a total once known stays.
ShowPage ==
    /\ view.pc = "answered"
    /\ view' = [view EXCEPT !.pc = "idle", !.page = NoPage,
                 !.shown = @ \o RowsOf(view.page),
                 !.truncated = view.page.truncated,
                 !.total = IF view.page.total = Unknown THEN @ ELSE view.page.total]
    /\ UNCHANGED <<rowCount, format>>

HasMore == view.truncated \/ (view.total # Unknown /\ Len(view.shown) < view.total)

LoadMore ==
    /\ view.pc = "idle" /\ HasMore
    /\ view' = [view EXCEPT !.pc = "asking"]
    /\ UNCHANGED <<rowCount, format>>

\* A kernel writes more rows to the file.
Grow == rowCount < MaxTable /\ rowCount' = rowCount + 1 /\ UNCHANGED <<format, view>>

PreviewNext == ReadData \/ ShowPage \/ LoadMore \/ Grow

PreviewSpec == PreviewInit /\ [][PreviewNext]_previewVars

\* The pages put together are the file from its first row on, none missing, none twice,
\* however the reader cuts the file into batches and though it grows in between; and when
\* the view no longer offers more, it has all the rows the last answer knew of.
PagesTile ==
    /\ \A k \in 1..Len(view.shown) : view.shown[k] = k
    /\ view.pc = "idle" /\ ~HasMore => Len(view.shown) >= view.known
=============================================================================
