------------------------------ MODULE FileEditing ------------------------------
(***************************************************************************)
(* One file of a Home and the tabs that edit it: If-Match of write_file in *)
(* services/workspace_fs_service.py, which checks, replaces and reads back *)
(* in a thread of its own for every request; the watcher, which tells the  *)
(* tabs of changes; and the two editors of the frontend, FilePreview for   *)
(* text and WorkspaceNotebookEditor for notebooks. A content is the number *)
(* of the text that wrote it, and is its own etag.                         *)
(***************************************************************************)
EXTENDS Naturals, FiniteSets

CONSTANTS Tab,        \* tabs, of one user or of several
          MaxTexts,   \* bound: texts typed or written by others
          MaxEvents   \* bound: batches the watcher publishes

NoText == 0      \* no such file, no draft, nothing fetched

ASSUME EditingAssumption == MaxTexts \in Nat \ {0} /\ MaxEvents \in Nat /\ NoText \notin Tab

Text == 1..MaxTexts

VARIABLES disk,     \* the content of the file
          texts,    \* how many there have been
          unpublished,  \* kinds of changes the watcher has not published
          events,
          editorKind,     \* which editor opens the file
          tab       \* what each tab holds

editVars == <<disk, texts, unpublished, events, editorKind, tab>>

\* data: what the tab shows below the draft; etag: what its next save sends; fetched: a
\* read on its way; sent, match: the save in progress. History: seen, what its user has
\* had on the screen; raced, another wrote after its save was checked; adopted, the etag came with a
\* read while there was a draft.
Tabs == [data : Text, draft : Text \cup {NoText}, etag : Text, stale : BOOLEAN,
         fetched : Text \cup {NoText}, pc : {"idle", "sent", "checked", "replaced", "answered"},
         sent : Text \cup {NoText}, match : Text, seen : SUBSET Text,
         raced : BOOLEAN, adopted : BOOLEAN]

EditTypeOK ==
    /\ disk \in Text \cup {NoText} /\ texts \in Text /\ events \in 0..MaxEvents
    /\ unpublished \subseteq {"created", "updated", "deleted"}
    /\ editorKind \in {"text", "notebook"}
    /\ tab \in [Tab -> Tabs]

EditInit ==
    /\ disk = 1 /\ texts = 1 /\ unpublished = {} /\ events = 0
    /\ editorKind \in {"text", "notebook"}
    /\ tab = [e \in Tab |-> [data |-> 1, draft |-> NoText, etag |-> 1, stale |-> FALSE,
                             fetched |-> NoText, pc |-> "idle", sent |-> NoText, match |-> 1,
                             seen |-> {1}, raced |-> FALSE, adopted |-> FALSE]]

FreshText == texts < MaxTexts /\ texts' = texts + 1

Checked(e) == tab[e].pc = "checked"

(***************************************************************************)
(* The user and the editor.                                                *)
(***************************************************************************)
TypeText(e) ==
    /\ FreshText
    /\ tab' = [tab EXCEPT ![e].draft = texts', ![e].seen = @ \cup {texts'}]
    /\ UNCHANGED <<disk, unpublished, events, editorKind>>

\* The notebook is sent changed or not. Bound: a tab has one save on its way.
SaveText(e) ==
    /\ tab[e].pc = "idle" /\ (tab[e].draft # NoText \/ editorKind = "notebook")
    /\ tab' = [tab EXCEPT ![e].pc = "sent",
                          ![e].sent = IF tab[e].draft # NoText THEN tab[e].draft
                                      ELSE tab[e].data,
                          ![e].match = tab[e].etag]
    /\ UNCHANGED <<disk, texts, unpublished, events, editorKind>>

\* The tab is opened anew: "recarregue antes de salvar".
ReloadTab(e) ==
    /\ disk # NoText /\ tab[e].pc = "idle"
    /\ tab' = [tab EXCEPT ![e].data = disk, ![e].etag = disk, ![e].draft = NoText,
                          ![e].stale = FALSE, ![e].fetched = NoText,
                          ![e].seen = @ \cup {disk}, ![e].adopted = FALSE]
    /\ UNCHANGED <<disk, texts, unpublished, events, editorKind>>

\* Every later read of the query sets the etag of FilePreview, whether there is a draft
\* or not. The notebook editor loads once.
Fetch(e) ==
    /\ editorKind = "text" /\ tab[e].stale /\ tab[e].fetched = NoText
    /\ tab' = [tab EXCEPT ![e].stale = FALSE, ![e].fetched = disk]
    /\ UNCHANGED <<disk, texts, unpublished, events, editorKind>>

FetchArrives(e) ==
    /\ tab[e].fetched # NoText
    /\ tab' = [tab EXCEPT ![e].fetched = NoText, ![e].data = tab[e].fetched,
                          ![e].etag = tab[e].fetched,
                          ![e].seen = IF tab[e].draft = NoText THEN @ \cup {tab[e].fetched}
                                      ELSE @,
                          ![e].adopted = @ \/ (tab[e].draft # NoText
                                               /\ tab[e].fetched \notin tab[e].seen)]
    /\ UNCHANGED <<disk, texts, unpublished, events, editorKind>>

(***************************************************************************)
(* PUT /workspaces/file.                                                   *)
(***************************************************************************)
\* A save that is over leaves nothing behind but the etag.
Over(row) == [row EXCEPT !.pc = "idle", !.sent = NoText, !.match = row.etag]

\* Bug: the header is left out.
MatchesAnything(e) == TRUE

\* A file that is gone is written again.
Matches(e) == disk = NoText \/ disk = tab[e].match

\* 409: the draft is kept.
CheckMatch(e) ==
    /\ tab[e].pc = "sent"
    /\ tab' = [tab EXCEPT ![e] = IF Matches(e) THEN [@ EXCEPT !.pc = "checked"] ELSE Over(@)]
    /\ UNCHANGED <<disk, texts, unpublished, events, editorKind>>

\* A write comes in between the check of the others' saves and their own.
Raced(new, but) == [e \in Tab |-> IF e # but /\ Checked(e) THEN [new[e] EXCEPT !.raced = TRUE]
                                  ELSE new[e]]

\* _atomic_write_bytes: watchfiles reports a file renamed into place as created.
ReplaceContent(e) ==
    /\ tab[e].pc = "checked"
    /\ disk' = tab[e].sent
    /\ unpublished' = unpublished \cup {"created"}
    /\ tab' = Raced([tab EXCEPT ![e].pc = "replaced", ![e].raced = FALSE], e)
    /\ UNCHANGED <<texts, events, editorKind>>

\* The answer's etag is of what is on disk by then; 404 if nothing is.
ReadBack(e) ==
    /\ tab[e].pc = "replaced"
    /\ tab' = [tab EXCEPT ![e] = IF disk = NoText THEN Over(@)
                                 ELSE [@ EXCEPT !.pc = "answered", !.match = disk]]
    /\ UNCHANGED <<disk, texts, unpublished, events, editorKind>>

\* FilePreview drops the draft, with what was typed since, and shows what it had read
\* before until it reads again; the notebook editor keeps it.
SaveAnswered(e) ==
    /\ tab[e].pc = "answered"
    /\ tab' = [tab EXCEPT
                 ![e].pc = "idle", ![e].etag = tab[e].match, ![e].sent = NoText,
                 ![e].stale = (editorKind = "text"),
                 ![e].draft = IF editorKind = "text" \/ @ = tab[e].sent THEN NoText ELSE @,
                 ![e].data = IF editorKind = "notebook" THEN tab[e].sent ELSE @,
                 ![e].adopted = @ \/ tab[e].match \notin tab[e].seen]
    /\ UNCHANGED <<disk, texts, unpublished, events, editorKind>>

(***************************************************************************)
(* The others and the watcher.                                             *)
(***************************************************************************)
\* A kernel, an execution or git writes the file or removes it.
WriteOutside ==
    /\ FreshText
    /\ disk' = texts'
    /\ unpublished' = unpublished \cup {IF disk = NoText THEN "created" ELSE "updated"}
    /\ tab' = Raced(tab, NoText)
    /\ UNCHANGED <<events, editorKind>>

RemoveOutside ==
    /\ disk # NoText /\ FreshText
    /\ disk' = NoText
    /\ unpublished' = unpublished \cup {"deleted"}
    /\ tab' = Raced(tab, NoText)
    /\ UNCHANGED <<events, editorKind>>

\* map_changes: of the changes of a path in one batch a deletion is reported, or the one
\* that came last out of the set.
Reported(raw) == IF "deleted" \in raw THEN {"deleted"} ELSE raw

\* The tabs read again after any change but a creation. The batch may be lost.
PublishBatch ==
    /\ unpublished # {} /\ events < MaxEvents /\ events' = events + 1
    /\ unpublished' = {}
    /\ \E op \in Reported(unpublished), heard \in SUBSET Tab :
          tab' = [e \in Tab |-> IF e \in heard /\ op # "created" /\ editorKind = "text"
                                THEN [tab[e] EXCEPT !.stale = TRUE] ELSE tab[e]]
    /\ UNCHANGED <<disk, texts, editorKind>>

EditNext ==
    \/ \E e \in Tab :
          \/ TypeText(e)
          \/ SaveText(e)
          \/ ReloadTab(e)
          \/ Fetch(e)
          \/ FetchArrives(e)
          \/ CheckMatch(e)
          \/ ReplaceContent(e)
          \/ ReadBack(e)
          \/ SaveAnswered(e)
    \/ WriteOutside
    \/ RemoveOutside
    \/ PublishBatch

EditSpec == EditInit /\ [][EditNext]_editVars

Replaced(e) == tab[e].pc = "checked" /\ tab'[e].pc = "replaced"

\* A save never replaces a text its user has not seen: another tab's, a kernel's, git's.
\* Two cases are left out, and both happen: another wrote between the check of the
\* save and its own replace (workspace_fs_service.py, 201 and 223); and the etag was
\* adopted unseen, by FilePreview from a read below a draft (FilePreview.tsx, 61), or
\* from the answer of a save that another save overtook (line 224).
NothingUnseenReplaced ==
    [][\A e \in Tab : Replaced(e) /\ ~tab[e].raced /\ ~tab[e].adopted
                          => disk \in tab[e].seen \cup {NoText}]_editVars

\* What the 409 is for, without the first exception: one save at a time.
StaleTextRefused ==
    [][\A e \in Tab : Replaced(e) /\ ~tab[e].raced => disk \in tab[e].seen \cup {NoText}]_editVars
===============================================================================
