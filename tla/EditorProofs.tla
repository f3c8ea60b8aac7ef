------------------------------ MODULE EditorProofs ------------------------------
(***************************************************************************)
(* Theorems about what a user edits with: the tabs of a file, the pages of *)
(* a table, the language service, and what the assistant is sent.          *)
(***************************************************************************)
EXTENDS FileEditing, LspService, DataPreview, AssistantContext, SequenceTheorems,
        FiniteSetTheorems, WellFoundedInduction, TLAPS

-----------------------------------------------------------------------------
(* Sets of numbers *)

LEMMA MinExists ==
    ASSUME NEW T \in SUBSET Nat, T # {}
    PROVE  \E m \in T : \A n \in T : m <= n
<1> DEFINE R == {ss \in Nat \X Nat : ss[1] < ss[2]}
<1>1. IsWellFoundedOn(R, Nat)
  BY NatLessThanWellFounded DEF OpToRel
<1>2. \A x, y \in Nat : x < y => <<x, y>> \in R
  OBVIOUS
<1> HIDE DEF R
<1>3. \E x \in T : \A y \in T : ~ (<<y, x>> \in R)
  BY <1>1, WFMin
<1>4. PICK x \in T : \A y \in T : ~ (<<y, x>> \in R)
  BY <1>3
<1>5. ASSUME NEW y \in T PROVE x <= y
  <2>1. x \in Nat /\ y \in Nat
    OBVIOUS
  <2>2. ~ (<<y, x>> \in R)
    BY <1>4
  <2>3. ~ (y < x)
    BY <1>2, <2>1, <2>2
  <2> QED
    BY <2>1, <2>3
<1> QED
  BY <1>5

LEMMA MaxExists ==
    ASSUME NEW k \in Nat, NEW T \in SUBSET (0..k), T # {}
    PROVE  \E m \in T : \A n \in T : m >= n
<1> DEFINE U == {n \in 0..k : k - n \in T}
<1>1. \A t \in T : k - t \in 0..k /\ k - (k - t) = t
  OBVIOUS
<1>2. \A t \in T : k - t \in U
  BY <1>1
<1>3. U # {} /\ U \in SUBSET Nat
  <2>1. PICK t \in T : TRUE
    OBVIOUS
  <2>2. k - t \in U
    BY <1>2
  <2>3. U \subseteq Nat
    OBVIOUS
  <2> HIDE DEF U
  <2> QED
    BY <2>2, <2>3
<1>4. PICK x \in U : \A y \in U : x <= y
  BY <1>3, MinExists
<1>5. k - x \in T /\ x \in 0..k
  BY <1>4
<1>6. ASSUME NEW t \in T PROVE k - x >= t
  <2>1. x <= k - t
    BY <1>2, <1>4
  <2>2. t \in 0..k
    OBVIOUS
  <2> HIDE DEF U
  <2> QED
    BY <1>5, <2>1, <2>2
<1> QED
  BY <1>5, <1>6

-----------------------------------------------------------------------------
(* The tabs of a file. *)

LEMMA TextFacts == NoText \notin Text /\ Text \subseteq Nat /\ 1 \in Text
  BY EditingAssumption DEF NoText, Text

\* A tab whose etag was not adopted unseen sends one of a text its user has seen; and the
\* save that was checked, with no other write since, finds the text it was checked against.
RowSeen(row, d) ==
    /\ row \in Tabs
    /\ ~ row.adopted => row.etag \in row.seen
    /\ ~ row.adopted /\ row.pc \in {"sent", "checked"} => row.match \in row.seen
    /\ row.pc = "checked" /\ ~ row.raced => d \in {NoText, row.match}
    /\ row.pc # "idle" => row.sent \in Text

EditShared ==
    /\ disk \in Text \cup {NoText} /\ texts \in Text /\ events \in 0..MaxEvents
    /\ unpublished \subseteq {"created", "updated", "deleted"}
    /\ editorKind \in {"text", "notebook"}

SeenInv ==
    /\ EditShared
    /\ tab \in [Tab -> Tabs]
    /\ \A e \in Tab : RowSeen(tab[e], disk)

LEMMA SeenInit == EditInit => SeenInv
  BY TextFacts, EditingAssumption DEF EditInit, SeenInv, EditShared, RowSeen, Tabs

LEMMA FreshIsText ==
    ASSUME FreshText, texts \in Text
    PROVE  texts' \in Text
  BY EditingAssumption DEF FreshText, Text

\* A step of one tab that leaves the file alone.
LEMMA TabStep ==
    ASSUME SeenInv, NEW e \in Tab, NEW row, tab' = [tab EXCEPT ![e] = row], RowSeen(row, disk),
           texts' \in Text, UNCHANGED <<disk, unpublished, events, editorKind>>
    PROVE  SeenInv'
<1>1. tab' \in [Tab -> Tabs] /\ \A x \in Tab : RowSeen(tab'[x], disk)
  BY DEF SeenInv, RowSeen
<1> QED
  BY <1>1 DEF SeenInv, EditShared

LEMMA SeenType ==
    ASSUME SeenInv, NEW e \in Tab
    PROVE  /\ RowSeen(tab[e], disk) /\ tab[e] \in Tabs /\ tab \in [Tab -> Tabs]
           /\ disk \in Text \cup {NoText} /\ texts \in Text
           /\ editorKind \in {"text", "notebook"}
  BY DEF SeenInv, EditShared, RowSeen

LEMMA TypeTextStep ==
    ASSUME SeenInv, NEW e \in Tab, TypeText(e)
    PROVE  SeenInv'
<1> DEFINE row == [tab[e] EXCEPT !.draft = texts', !.seen = @ \cup {texts'}]
<1>1. texts' \in Text
  BY SeenType, FreshIsText DEF TypeText
<1>2. tab' = [tab EXCEPT ![e] = row]
  BY SeenType DEF TypeText
<1>3. RowSeen(row, disk)
  BY <1>1, SeenType DEF RowSeen, Tabs
<1>4. UNCHANGED <<disk, unpublished, events, editorKind>>
  BY DEF TypeText
<1> HIDE DEF row
<1> QED
  BY <1>1, <1>2, <1>3, <1>4, TabStep

LEMMA SaveTextStep ==
    ASSUME SeenInv, NEW e \in Tab, SaveText(e)
    PROVE  SeenInv'
<1> DEFINE row == [tab[e] EXCEPT !.pc = "sent",
                                 !.sent = IF tab[e].draft # NoText THEN tab[e].draft ELSE tab[e].data,
                                 !.match = tab[e].etag]
<1>1. tab' = [tab EXCEPT ![e] = row]
  BY SeenType DEF SaveText
<1>2. RowSeen(row, disk)
  <2> DEFINE old == tab[e]
             sent == IF old.draft # NoText THEN old.draft ELSE old.data
  <2>1. old \in Tabs /\ RowSeen(old, disk)
    BY SeenType
  <2>2. sent \in Text
    BY <2>1 DEF Tabs
  <2>3. row = [old EXCEPT !.pc = "sent", !.sent = sent, !.match = old.etag]
    OBVIOUS
  <2> HIDE DEF old, sent, row
  <2>4. row \in Tabs /\ row.sent = sent /\ row.pc = "sent" /\ row.match = old.etag
    BY <2>1, <2>2, <2>3 DEF Tabs
  <2>5. row.etag = old.etag /\ row.seen = old.seen /\ row.adopted = old.adopted
    BY <2>1, <2>3 DEF Tabs
  <2> QED
    BY <2>1, <2>2, <2>4, <2>5 DEF RowSeen
<1>3. texts' \in Text /\ UNCHANGED <<disk, unpublished, events, editorKind>>
  BY SeenType DEF SaveText
<1> HIDE DEF row
<1> QED
  BY <1>1, <1>2, <1>3, TabStep

LEMMA ReloadTabStep ==
    ASSUME SeenInv, NEW e \in Tab, ReloadTab(e)
    PROVE  SeenInv'
<1> DEFINE row == [tab[e] EXCEPT !.data = disk, !.etag = disk, !.draft = NoText,
                                 !.stale = FALSE, !.fetched = NoText,
                                 !.seen = @ \cup {disk}, !.adopted = FALSE]
<1>1. tab' = [tab EXCEPT ![e] = row]
  BY SeenType DEF ReloadTab
<1>2. disk \in Text /\ tab[e].pc = "idle"
  BY SeenType DEF ReloadTab
<1>3. RowSeen(row, disk)
  <2> DEFINE old == tab[e]
             seen == old.seen \cup {disk}
  <2>1. old \in Tabs /\ old.pc = "idle" /\ disk \in Text
    BY <1>2, SeenType
  <2>2. seen \in SUBSET Text /\ disk \in seen
    BY <2>1 DEF Tabs
  <2>3. row = [old EXCEPT !.data = disk, !.etag = disk, !.draft = NoText, !.stale = FALSE,
                          !.fetched = NoText, !.seen = seen, !.adopted = FALSE]
    OBVIOUS
  <2> HIDE DEF old, seen, row
  <2>4. row \in Tabs /\ row.pc = "idle" /\ row.etag = disk /\ row.seen = seen
    BY <2>1, <2>2, <2>3 DEF Tabs
  <2> QED
    BY <2>2, <2>4 DEF RowSeen
<1>4. texts' \in Text /\ UNCHANGED <<disk, unpublished, events, editorKind>>
  BY SeenType DEF ReloadTab
<1> HIDE DEF row
<1> QED
  BY <1>1, <1>3, <1>4, TabStep

LEMMA FetchStep ==
    ASSUME SeenInv, NEW e \in Tab, Fetch(e)
    PROVE  SeenInv'
<1> DEFINE row == [tab[e] EXCEPT !.stale = FALSE, !.fetched = disk]
<1>1. tab' = [tab EXCEPT ![e] = row]
  BY SeenType DEF Fetch
<1>2. RowSeen(row, disk)
  BY SeenType DEF RowSeen, Tabs
<1>3. texts' \in Text /\ UNCHANGED <<disk, unpublished, events, editorKind>>
  BY SeenType DEF Fetch
<1> HIDE DEF row
<1> QED
  BY <1>1, <1>2, <1>3, TabStep

LEMMA FetchArrivesStep ==
    ASSUME SeenInv, NEW e \in Tab, FetchArrives(e)
    PROVE  SeenInv'
<1> DEFINE old == tab[e]
           row == [old EXCEPT !.fetched = NoText, !.data = old.fetched, !.etag = old.fetched,
                              !.seen = IF old.draft = NoText THEN @ \cup {old.fetched} ELSE @,
                              !.adopted = @ \/ (old.draft # NoText /\ old.fetched \notin old.seen)]
<1>1. tab' = [tab EXCEPT ![e] = row]
  BY SeenType DEF FetchArrives
<1>2. old.fetched \in Text /\ old \in Tabs /\ RowSeen(old, disk)
  BY SeenType DEF FetchArrives, Tabs
<1>3. row \in Tabs
  <2>1. (old.adopted \/ (old.draft # NoText /\ old.fetched \notin old.seen)) \in BOOLEAN
    OBVIOUS
  <2>2. (IF old.draft = NoText THEN old.seen \cup {old.fetched} ELSE old.seen) \in SUBSET Text
    BY <1>2 DEF Tabs
  <2> HIDE DEF old
  <2> QED
    BY <1>2, <2>1, <2>2 DEF Tabs
<1>4. /\ row.etag = old.fetched /\ row.match = old.match /\ row.pc = old.pc /\ row.raced = old.raced
      /\ row.sent = old.sent /\ row.seen = IF old.draft = NoText THEN old.seen \cup {old.fetched} ELSE old.seen
      /\ row.adopted = (old.adopted \/ (old.draft # NoText /\ old.fetched \notin old.seen))
  BY <1>2 DEF Tabs
<1>5. texts' \in Text /\ UNCHANGED <<disk, unpublished, events, editorKind>>
  BY SeenType DEF FetchArrives
<1> HIDE DEF row, old
<1>6. RowSeen(row, disk)
  BY <1>2, <1>3, <1>4 DEF RowSeen
<1> QED
  BY <1>1, <1>5, <1>6, TabStep

LEMMA OverSeen ==
    ASSUME NEW row, NEW d, RowSeen(row, d)
    PROVE  RowSeen(Over(row), d)
  BY DEF RowSeen, Over, Tabs

LEMMA CheckMatchStep ==
    ASSUME SeenInv, NEW e \in Tab, CheckMatch(e)
    PROVE  SeenInv'
<1> DEFINE row == IF Matches(e) THEN [tab[e] EXCEPT !.pc = "checked"] ELSE Over(tab[e])
<1>1. tab' = [tab EXCEPT ![e] = row]
  BY SeenType DEF CheckMatch
<1>2. RowSeen(row, disk)
  <2>1. CASE Matches(e)
    BY <2>1, SeenType DEF CheckMatch, Matches, RowSeen, Tabs
  <2>2. CASE ~ Matches(e)
    BY <2>2, SeenType, OverSeen
  <2> QED
    BY <2>1, <2>2
<1>3. texts' \in Text /\ UNCHANGED <<disk, unpublished, events, editorKind>>
  BY SeenType DEF CheckMatch
<1> HIDE DEF row
<1> QED
  BY <1>1, <1>2, <1>3, TabStep

\* A write puts every save between its check and its own replace into a race.
LEMMA RacedRow ==
    ASSUME NEW row, NEW d, NEW c, RowSeen(row, d)
    PROVE  /\ row.pc # "checked" => RowSeen(row, c)
           /\ RowSeen([row EXCEPT !.raced = TRUE], c)
  BY DEF RowSeen, Tabs

LEMMA ReplaceContentStep ==
    ASSUME SeenInv, NEW e \in Tab, ReplaceContent(e)
    PROVE  SeenInv'
<1> DEFINE mine == [tab[e] EXCEPT !.pc = "replaced", !.raced = FALSE]
<1>1. /\ disk' = tab[e].sent /\ unpublished' = unpublished \cup {"created"}
      /\ UNCHANGED <<texts, events, editorKind>>
      /\ tab' = Raced([tab EXCEPT ![e].pc = "replaced", ![e].raced = FALSE], e)
  BY DEF ReplaceContent
<1>2. EditShared'
  BY <1>1, SeenType DEF SeenInv, EditShared, Tabs
<1>3. RowSeen(mine, disk')
  BY ZenonT(30), SeenType DEF RowSeen, Tabs, ReplaceContent
<1>4. \A x \in Tab : tab'[x] = IF x = e THEN mine
                               ELSE IF Checked(x) THEN [tab[x] EXCEPT !.raced = TRUE] ELSE tab[x]
  BY <1>1, SeenType DEF Raced
<1> HIDE DEF mine
<1>5. ASSUME NEW x \in Tab PROVE RowSeen(tab'[x], disk')
  <2>1. RowSeen(tab[x], disk)
    BY DEF SeenInv
  <2>2. /\ tab[x].pc # "checked" => RowSeen(tab[x], disk')
        /\ RowSeen([tab[x] EXCEPT !.raced = TRUE], disk')
    BY <2>1, RacedRow
  <2> QED
    BY <1>3, <1>4, <2>1, <2>2 DEF Checked
<1>6. tab' \in [Tab -> Tabs]
  <2>1. tab' = [x \in Tab |-> tab'[x]]
    BY <1>1 DEF Raced
  <2> QED
    BY <1>5, <2>1 DEF RowSeen
<1> QED
  BY <1>2, <1>5, <1>6 DEF SeenInv

LEMMA ReadBackStep ==
    ASSUME SeenInv, NEW e \in Tab, ReadBack(e)
    PROVE  SeenInv'
<1> DEFINE row == IF disk = NoText THEN Over(tab[e])
                  ELSE [tab[e] EXCEPT !.pc = "answered", !.match = disk]
<1>1. tab' = [tab EXCEPT ![e] = row]
  BY SeenType DEF ReadBack
<1>2. RowSeen(row, disk)
  <2>1. CASE disk = NoText
    BY <2>1, SeenType, OverSeen
  <2>2. CASE disk # NoText
    <3> DEFINE old == tab[e]
    <3>1. old \in Tabs /\ RowSeen(old, disk) /\ disk \in Text /\ old.pc = "replaced"
      BY <2>2, SeenType DEF ReadBack
    <3>2. row = [old EXCEPT !.pc = "answered", !.match = disk]
      BY <2>2
    <3> HIDE DEF old, row
    <3>3. row \in Tabs /\ row.pc = "answered" /\ row.sent = old.sent /\ row.etag = old.etag
      BY <3>1, <3>2 DEF Tabs
    <3>4. row.seen = old.seen /\ row.adopted = old.adopted
      BY <3>1, <3>2 DEF Tabs
    <3> QED
      BY <3>1, <3>3, <3>4 DEF RowSeen
  <2> QED
    BY <2>1, <2>2
<1>3. texts' \in Text /\ UNCHANGED <<disk, unpublished, events, editorKind>>
  BY SeenType DEF ReadBack
<1> HIDE DEF row
<1> QED
  BY <1>1, <1>2, <1>3, TabStep

LEMMA SaveAnsweredStep ==
    ASSUME SeenInv, NEW e \in Tab, SaveAnswered(e)
    PROVE  SeenInv'
<1> DEFINE old == tab[e]
           draft == IF editorKind = "text" \/ old.draft = old.sent THEN NoText ELSE old.draft
           data == IF editorKind = "notebook" THEN old.sent ELSE old.data
           unseen == old.adopted \/ old.match \notin old.seen
           row == [old EXCEPT !.pc = "idle", !.etag = old.match, !.sent = NoText,
                              !.stale = (editorKind = "text"), !.draft = draft,
                              !.data = data, !.adopted = unseen]
<1>1. tab' = [tab EXCEPT ![e] = row]
  BY SeenType DEF SaveAnswered
<1>2. old \in Tabs /\ RowSeen(old, disk) /\ old.pc = "answered"
  BY SeenType DEF SaveAnswered
<1>3. row \in Tabs
  <2>1. draft \in Text \cup {NoText} /\ unseen \in BOOLEAN /\ (editorKind = "text") \in BOOLEAN
    BY <1>2 DEF Tabs
  <2>2. data \in Text
    BY <1>2 DEF RowSeen, Tabs
  <2> HIDE DEF old, draft, data, unseen
  <2> QED
    BY <1>2, <2>1, <2>2 DEF Tabs
<1>4. row.etag = old.match /\ row.pc = "idle" /\ row.seen = old.seen /\ row.adopted = unseen
  BY <1>2 DEF Tabs
<1>5. texts' \in Text /\ UNCHANGED <<disk, unpublished, events, editorKind>>
  BY SeenType DEF SaveAnswered
<1> HIDE DEF row
<1>6. RowSeen(row, disk)
  BY <1>2, <1>3, <1>4 DEF RowSeen
<1> QED
  BY <1>1, <1>5, <1>6, TabStep

\* Another writes or removes the file: every save that was checked is raced.
LEMMA OutsideStep ==
    ASSUME SeenInv, tab' = Raced(tab, NoText), FreshText, disk' \in Text \cup {NoText},
           unpublished' \subseteq {"created", "updated", "deleted"}, UNCHANGED <<events, editorKind>>
    PROVE  SeenInv'
<1>1. \A x \in Tab : tab'[x] = IF Checked(x) THEN [tab[x] EXCEPT !.raced = TRUE] ELSE tab[x]
  BY EditingAssumption DEF Raced
<1>2. ASSUME NEW x \in Tab PROVE RowSeen(tab'[x], disk')
  <2>1. RowSeen(tab[x], disk)
    BY DEF SeenInv
  <2>2. /\ tab[x].pc # "checked" => RowSeen(tab[x], disk')
        /\ RowSeen([tab[x] EXCEPT !.raced = TRUE], disk')
    BY <2>1, RacedRow
  <2> QED
    BY <1>1, <2>1, <2>2 DEF Checked
<1>3. tab' \in [Tab -> Tabs]
  <2>1. tab' = [x \in Tab |-> tab'[x]]
    BY DEF Raced
  <2> QED
    BY <1>2, <2>1 DEF RowSeen
<1>4. EditShared'
  BY FreshIsText DEF SeenInv, EditShared
<1> QED
  BY <1>2, <1>3, <1>4 DEF SeenInv

LEMMA PublishBatchStep ==
    ASSUME SeenInv, PublishBatch
    PROVE  SeenInv'
<1>1. PICK op \in Reported(unpublished), heard \in SUBSET Tab :
          tab' = [x \in Tab |-> IF x \in heard /\ op # "created" /\ editorKind = "text"
                                THEN [tab[x] EXCEPT !.stale = TRUE] ELSE tab[x]]
  BY DEF PublishBatch
<1>2. ASSUME NEW x \in Tab PROVE RowSeen(tab'[x], disk')
  <2>1. RowSeen(tab[x], disk) /\ disk' = disk
    BY DEF SeenInv, PublishBatch
  <2>2. RowSeen([tab[x] EXCEPT !.stale = TRUE], disk)
    BY <2>1 DEF RowSeen, Tabs
  <2> QED
    BY <1>1, <2>1, <2>2
<1>3. tab' \in [Tab -> Tabs]
  <2>1. tab' = [x \in Tab |-> tab'[x]]
    BY <1>1
  <2> QED
    BY <1>2, <2>1 DEF RowSeen
<1>4. EditShared'
  <2>1. events' \in 0..MaxEvents
    BY EditingAssumption DEF PublishBatch, SeenInv, EditShared
  <2> QED
    BY <2>1 DEF PublishBatch, SeenInv, EditShared
<1> QED
  BY <1>2, <1>3, <1>4 DEF SeenInv

LEMMA SeenNext ==
    ASSUME SeenInv, [EditNext]_editVars
    PROVE  SeenInv'
<1>1. ASSUME NEW e \in Tab,
             \/ TypeText(e) \/ SaveText(e) \/ ReloadTab(e) \/ Fetch(e) \/ FetchArrives(e)
             \/ CheckMatch(e) \/ ReplaceContent(e) \/ ReadBack(e) \/ SaveAnswered(e)
      PROVE  SeenInv'
  BY <1>1, TypeTextStep, SaveTextStep, ReloadTabStep, FetchStep, FetchArrivesStep,
     CheckMatchStep, ReplaceContentStep, ReadBackStep, SaveAnsweredStep
<1>2. CASE WriteOutside
  <2>1. disk' \in Text
    BY <1>2, FreshIsText DEF WriteOutside, SeenInv, EditShared
  <2> QED
    BY <1>2, <2>1, OutsideStep DEF WriteOutside, SeenInv, EditShared
<1>3. CASE RemoveOutside
  BY <1>3, OutsideStep DEF RemoveOutside, SeenInv, EditShared
<1>4. CASE PublishBatch
  BY <1>4, PublishBatchStep
<1>5. CASE UNCHANGED editVars
  BY <1>5 DEF editVars, SeenInv, EditShared
<1> QED
  BY <1>1, <1>2, <1>3, <1>4, <1>5 DEF EditNext

LEMMA SeenAlways == EditSpec => []SeenInv
<1>1. EditInit => SeenInv
  BY SeenInit
<1>2. SeenInv /\ [EditNext]_editVars => SeenInv'
  BY SeenNext
<1> QED
  BY <1>1, <1>2, PTL DEF EditSpec

\* The tabs of a file, their saves and what the watcher has to tell keep their types.
THEOREM EditingTypes == EditSpec => []EditTypeOK
<1>1. SeenInv => EditTypeOK
  BY DEF SeenInv, EditShared, EditTypeOK
<1> QED
  BY <1>1, SeenAlways, PTL

\* However many tabs edit a file, whoever writes to it in between and whatever the watcher
\* loses, a save replaces nothing its user has not seen, but in the two cases left out.
THEOREM NothingUnseenIsReplaced == EditSpec => NothingUnseenReplaced
<1> DEFINE Unseen == \A e \in Tab : Replaced(e) /\ ~tab[e].raced /\ ~tab[e].adopted
                                        => disk \in tab[e].seen \cup {NoText}
<1>1. SeenInv => Unseen
  BY DEF SeenInv, RowSeen, Replaced
<1>2. SeenInv /\ [EditNext]_editVars => [Unseen]_editVars
  BY <1>1
<1> QED
  BY <1>2, SeenAlways, PTL DEF EditSpec, NothingUnseenReplaced

-----------------------------------------------------------------------------
(* The pages of a table. *)

LEMMA MaxIs ==
    ASSUME NEW k \in Nat, NEW T \in SUBSET (0..k), T # {}
    PROVE  Max(T) \in T /\ \A n \in T : Max(T) >= n
  BY MaxExists DEF Max

LEMMA MinIs ==
    ASSUME NEW T \in SUBSET Nat, T # {}
    PROVE  Min(T) \in T /\ \A n \in T : Min(T) <= n
  BY MinExists DEF Min

PreviewNumbers ==
    /\ MaxTable \in Nat /\ PageRows \in Nat \ {0} /\ MaxPage \in Nat \ {0}
    /\ Capped \in Nat /\ Capped >= 1 /\ Unknown = MaxTable + 1

LEMMA PreviewConstants == PreviewNumbers
  BY PreviewAssumption DEF PreviewNumbers, Capped, Lesser, Unknown

LEMMA LesserOf ==
    ASSUME NEW a \in Nat, NEW b \in Nat
    PROVE  /\ Lesser(a, b) \in Nat /\ Lesser(a, b) <= a /\ Lesser(a, b) <= b
           /\ Lesser(a, b) \in {a, b}
  BY DEF Lesser

\* What is cut out of the batches is the page that was asked for, wherever they end.
LEMMA SliceIsThePage ==
    ASSUME rowCount \in 0..MaxTable, NEW ends \in Batches, NEW offset \in 0..rowCount,
           NEW limit \in Nat, limit >= 1
    PROVE  Slice(ends, offset, limit)
             = [first |-> offset + 1, count |-> Lesser(limit, rowCount - offset)]
<1> DEFINE skip == Skipped(ends, offset)
           seen == Seen(ends, offset, limit)
           before == {e \in ends : e <= offset} \cup {0}
           after == {e \in ends : e >= offset + limit} \cup {rowCount}
<1>1. /\ MaxTable \in Nat /\ rowCount \in Nat /\ offset \in Nat /\ offset <= rowCount
      /\ \A e \in ends : e \in Nat /\ e >= 1 /\ e <= rowCount
      /\ rowCount > 0 => rowCount \in ends
  BY PreviewConstants DEF PreviewNumbers, Batches
<1>2. skip \in before /\ \A n \in before : skip >= n
  <2>1. before \in SUBSET (0..rowCount) /\ before # {}
    <3>1. ASSUME NEW n \in before PROVE n \in 0..rowCount
      BY <1>1
    <3> QED
      BY <3>1
  <2>2. skip = Max(before)
    BY DEF Skipped
  <2> HIDE DEF before, skip
  <2> QED
    BY <1>1, <2>1, <2>2, MaxIs
<1>3. seen \in after /\ \A n \in after : seen <= n
  <2>1. after \in SUBSET Nat /\ after # {}
    <3>1. ASSUME NEW n \in after PROVE n \in Nat
      BY <1>1
    <3> QED
      BY <3>1
  <2>2. seen = Min(after)
    BY DEF Seen
  <2> HIDE DEF after, seen
  <2> QED
    BY <2>1, <2>2, MinIs
<1>4. skip \in Nat /\ skip <= offset /\ (skip = rowCount <=> offset = rowCount)
  <2>1. skip \in Nat /\ skip <= offset
    <3> HIDE DEF skip
    <3> QED
      BY <1>1, <1>2
  <2>2. ASSUME offset = rowCount PROVE skip >= rowCount
    <3>1. rowCount \in before
      BY <1>1, <2>2
    <3> HIDE DEF skip, before
    <3> QED
      BY <1>2, <3>1
  <2> HIDE DEF skip, before
  <2> QED
    BY <1>1, <2>1, <2>2
<1>5. seen \in Nat /\ seen <= rowCount /\ (seen = rowCount \/ seen >= offset + limit)
  <2>1. rowCount \in after
    OBVIOUS
  <2>2. seen <= rowCount
    <3> HIDE DEF seen, after
    <3> QED
      BY <1>3, <2>1
  <2>3. seen \in Nat /\ (seen = rowCount \/ seen >= offset + limit)
    <3> HIDE DEF seen
    <3> QED
      BY <1>1, <1>3
  <2> QED
    BY <2>2, <2>3
<1>6. Slice(ends, offset, limit)
        = [first |-> Greater(skip, offset) + 1,
           count |-> IF skip = rowCount THEN 0
                     ELSE Lesser(seen, Greater(skip, offset) + 1 + limit - 1) + 1
                            - (Greater(skip, offset) + 1)]
  BY DEF Slice
<1> HIDE DEF skip, seen
<1>7. Greater(skip, offset) = offset
  BY <1>1, <1>4 DEF Greater
<1>8. (IF skip = rowCount THEN 0 ELSE Lesser(seen, offset + 1 + limit - 1) + 1 - (offset + 1))
        = Lesser(limit, rowCount - offset)
  <2>1. CASE skip = rowCount
    BY <1>1, <1>4, <2>1 DEF Lesser
  <2>2. CASE skip # rowCount
    BY <1>1, <1>4, <1>5, <2>2 DEF Lesser
  <2> QED
    BY <2>1, <2>2
<1> QED
  BY <1>6, <1>7, <1>8

\* The rows on the screen are the first ones of the file; the answer on its way goes on
\* where they end, and what ends the reading knew of no more rows.
PreviewInv ==
    /\ PreviewTypeOK
    /\ \A k \in 1..Len(view.shown) : view.shown[k] = k
    /\ Len(view.shown) <= rowCount /\ view.known <= rowCount
    /\ view.pc = "answered" =>
          /\ view.page.first = Len(view.shown) + 1
          /\ Len(view.shown) + view.page.count <= rowCount
          /\ view.page.truncated \/ (view.page.total # Unknown /\ view.page.total >= view.known)
    /\ view.pc = "idle" => view.truncated \/ (view.total # Unknown /\ view.total >= view.known)

LEMMA PreviewStarts == PreviewInit => PreviewInv
  BY PreviewConstants DEF PreviewNumbers, PreviewInit, PreviewInv, PreviewTypeOK, NoPage, Pages

LEMMA ReadDataStep ==
    ASSUME PreviewInv, ReadData
    PROVE  PreviewInv'
<1> DEFINE offset == Len(view.shown)
           count == Lesser(Capped, rowCount - offset)
           total == IF format = "parquet" THEN rowCount
                    ELSE IF rowCount < offset + Capped THEN rowCount ELSE Unknown
           page == [first |-> offset + 1, count |-> count, total |-> total,
                    truncated |-> count > 0 /\ (total = Unknown \/ offset + count < total)]
<1>1. /\ view \in [shown : Seq(1..MaxTable), total : 0..Unknown, truncated : BOOLEAN,
                   pc : {"asking", "answered", "idle"}, page : Pages, known : 0..MaxTable]
      /\ rowCount \in 0..MaxTable /\ format \in {"parquet", "csv"} /\ offset \in Nat
      /\ offset <= rowCount
  BY DEF PreviewInv, PreviewTypeOK
<1>2. PICK ends \in Batches :
          view' = [view EXCEPT !.pc = "answered", !.known = rowCount,
                    !.page = IF format = "parquet" THEN ParquetPage(ends, offset, Capped)
                             ELSE CsvPage(ends, offset, Capped)]
  BY DEF ReadData
<1>3. Slice(ends, offset, Capped) = [first |-> offset + 1, count |-> count]
  BY <1>1, SliceIsThePage, PreviewConstants DEF PreviewNumbers
<1>4. view' = [view EXCEPT !.pc = "answered", !.known = rowCount, !.page = page]
  <2>1. \A t : PageOf(ends, offset, Capped, t)
                 = [first |-> offset + 1, count |-> count, total |-> t,
                    truncated |-> count > 0 /\ (t = Unknown \/ offset + count < t)]
    BY <1>3 DEF PageOf
  <2>2. (IF format = "parquet" THEN ParquetPage(ends, offset, Capped)
         ELSE CsvPage(ends, offset, Capped)) = PageOf(ends, offset, Capped, total)
    BY DEF ParquetPage, CsvPage
  <2> QED
    BY <1>2, <2>1, <2>2
<1>5. /\ count \in Nat /\ count <= rowCount - offset /\ total \in 0..Unknown
      /\ (page.truncated \/ (total # Unknown /\ total >= rowCount)) /\ page.truncated \in BOOLEAN
  <2>1. count \in Nat /\ count <= rowCount - offset /\ (count = Capped \/ count = rowCount - offset)
    <3>1. rowCount - offset \in Nat /\ Capped \in Nat
      <4> HIDE DEF offset
      <4> QED
        BY <1>1, PreviewConstants DEF PreviewNumbers
    <3> DEFINE rest == rowCount - offset
    <3>2. count = Lesser(Capped, rest) /\ rest \in Nat
      BY <3>1
    <3> HIDE DEF rest, count
    <3>3. count \in Nat /\ count <= rest /\ count \in {Capped, rest}
      BY <3>1, <3>2, LesserOf
    <3> QED
      BY <3>3 DEF rest
  <2>2. total \in 0..Unknown /\ total \in {rowCount, Unknown} /\ rowCount # Unknown
    BY <1>1, PreviewConstants DEF PreviewNumbers
  <2>3. total = Unknown => count = Capped /\ count > 0
    BY <1>1, PreviewConstants DEF PreviewNumbers, Lesser
  <2>4. page.truncated = (count > 0 /\ (total = Unknown \/ offset + count < total))
    OBVIOUS
  <2> HIDE DEF count, total, offset, page
  <2>5. page.truncated \in BOOLEAN
    BY <2>4
  <2>6. CASE total = Unknown
    BY <2>1, <2>2, <2>3, <2>4, <2>5, <2>6
  <2>7. CASE total = rowCount
    BY <1>1, <2>1, <2>2, <2>5, <2>7
  <2> QED
    BY <2>2, <2>6, <2>7
<1>6. page \in Pages /\ page.first = offset + 1 /\ page.count = count /\ page.total = total
  <2> HIDE DEF count, total, offset
  <2>1. offset + 1 \in 1..MaxTable + 1 /\ count \in 0..MaxTable
    BY <1>1, <1>5, PreviewConstants DEF PreviewNumbers
  <2> QED
    BY <1>5, <2>1 DEF Pages
<1>7. UNCHANGED <<rowCount, format>>
  BY DEF ReadData
<1> HIDE DEF page, count, total
<1>8. /\ view'.pc = "answered" /\ view'.known = rowCount /\ view'.page = page
      /\ view'.shown = view.shown
  BY <1>1, <1>4
<1>9. PreviewTypeOK'
  BY <1>1, <1>4, <1>6, <1>7 DEF PreviewTypeOK
<1> QED
  BY <1>1, <1>5, <1>6, <1>7, <1>8, <1>9 DEF PreviewInv

LEMMA ShowPageStep ==
    ASSUME PreviewInv, ShowPage
    PROVE  PreviewInv'
<1> DEFINE old == view.shown
           page == view.page
           rows == RowsOf(page)
           total == IF page.total = Unknown THEN view.total ELSE page.total
<1>1. /\ view \in [shown : Seq(1..MaxTable), total : 0..Unknown, truncated : BOOLEAN,
                   pc : {"asking", "answered", "idle"}, page : Pages, known : 0..MaxTable]
      /\ rowCount \in 0..MaxTable /\ format \in {"parquet", "csv"}
      /\ view.pc = "answered" /\ view.known <= rowCount
      /\ page \in Pages /\ old \in Seq(1..MaxTable) /\ Len(old) \in Nat
  BY DEF PreviewInv, PreviewTypeOK, ShowPage
<1>2. /\ page.first = Len(old) + 1 /\ Len(old) + page.count <= rowCount /\ page.count \in Nat
      /\ page.truncated \/ (page.total # Unknown /\ page.total >= view.known)
      /\ \A k \in 1..Len(old) : old[k] = k
  BY <1>1 DEF PreviewInv, Pages
<1>3. rows \in Seq(1..MaxTable) /\ Len(rows) = page.count
      /\ \A k \in 1..page.count : rows[k] = Len(old) + k
  <2> HIDE DEF old, page
  <2>1. \A k \in 1..page.count : page.first + k - 1 = Len(old) + k /\ Len(old) + k \in 1..MaxTable
    BY <1>1, <1>2, PreviewConstants DEF PreviewNumbers
  <2>2. rows = [k \in 1..page.count |-> Len(old) + k]
    BY <2>1 DEF RowsOf
  <2> HIDE DEF rows
  <2>3. rows \in [1..page.count -> 1..MaxTable] /\ \A k \in 1..page.count : rows[k] = Len(old) + k
    BY <1>2, <2>1, <2>2
  <2>4. rows \in Seq(1..MaxTable)
    BY <1>2, <2>3, SeqDef
  <2>5. Len(rows) = page.count
    BY <1>2, <2>3, <2>4
  <2> QED
    BY <2>3, <2>4, <2>5
<1>4. view' = [view EXCEPT !.pc = "idle", !.page = NoPage, !.shown = old \o rows,
                           !.truncated = page.truncated, !.total = total]
  BY <1>1 DEF ShowPage
<1>5. NoPage \in Pages /\ total \in 0..Unknown /\ page.truncated \in BOOLEAN
  BY <1>1, PreviewConstants DEF PreviewNumbers, NoPage, Pages
<1>6. UNCHANGED <<rowCount, format>>
  BY DEF ShowPage
<1>7. page.truncated \/ (total # Unknown /\ total >= view.known)
  BY <1>2
<1> DEFINE both == old \o rows
<1> HIDE DEF old, page, rows, total
<1>8. /\ both \in Seq(1..MaxTable) /\ Len(both) = Len(old) + page.count
      /\ \A k \in 1..Len(both) : both[k] = k
  <2>0. old \in Seq(1..MaxTable) /\ rows \in Seq(1..MaxTable)
    BY <1>1, <1>3
  <2>1. /\ both \in Seq(1..MaxTable) /\ Len(both) = Len(old) + Len(rows)
        /\ \A k \in 1..Len(both) :
              both[k] = IF k <= Len(old) THEN old[k] ELSE rows[k - Len(old)]
    <3> HIDE DEF both
    <3>1. old \o rows \in Seq(1..MaxTable) /\ Len(old \o rows) = Len(old) + Len(rows)
      BY <2>0, ConcatProperties
    <3>2. \A k \in 1..Len(old \o rows) :
             (old \o rows)[k] = IF k <= Len(old) THEN old[k] ELSE rows[k - Len(old)]
      BY <2>0, <3>1, ConcatProperties
    <3> QED
      BY <3>1, <3>2, Zenon DEF both
  <2>2. ASSUME NEW k \in 1..Len(both) PROVE both[k] = k
    <3>1. both[k] = IF k <= Len(old) THEN old[k] ELSE rows[k - Len(old)]
      BY <2>1
    <3>2. Len(old) \in Nat /\ k \in Nat /\ k >= 1 /\ k <= Len(old) + page.count
      BY <1>1, <1>2, <1>3, <2>1
    <3>3. CASE k <= Len(old)
      BY <1>2, <3>1, <3>2, <3>3
    <3>4. CASE k > Len(old)
      <4>1. k - Len(old) \in 1..page.count /\ Len(old) + (k - Len(old)) = k
        BY <1>2, <3>2, <3>4
      <4> QED
        BY <1>3, <3>1, <3>2, <3>4, <4>1
    <3> QED
      BY <3>2, <3>3, <3>4
  <2> QED
    BY <1>3, <2>1, <2>2
<1> HIDE DEF both
<1>9. view' = [view EXCEPT !.pc = "idle", !.page = NoPage, !.shown = both,
                           !.truncated = page.truncated, !.total = total]
  BY <1>4 DEF both
<1>10. /\ view'.pc = "idle" /\ view'.known = view.known /\ view'.shown = both
       /\ view'.truncated = page.truncated /\ view'.total = total
  BY <1>1, <1>9
<1>11. PreviewTypeOK'
  BY <1>1, <1>5, <1>6, <1>8, <1>9 DEF PreviewTypeOK
<1> QED
  BY <1>1, <1>2, <1>6, <1>7, <1>8, <1>10, <1>11 DEF PreviewInv

LEMMA PreviewNextStep ==
    ASSUME PreviewInv, [PreviewNext]_previewVars
    PROVE  PreviewInv'
<1>1. CASE LoadMore
  <2>1. /\ view' = [view EXCEPT !.pc = "asking"] /\ UNCHANGED <<rowCount, format>>
        /\ view'.shown = view.shown /\ view'.known = view.known /\ view'.pc = "asking"
    BY <1>1 DEF LoadMore, PreviewInv, PreviewTypeOK
  <2>2. PreviewTypeOK'
    BY <2>1 DEF PreviewInv, PreviewTypeOK
  <2> QED
    BY <2>1, <2>2 DEF PreviewInv
<1>2. CASE Grow
  <2>1. rowCount \in Nat /\ rowCount' = rowCount + 1 /\ rowCount' \in 0..MaxTable
    BY <1>2, PreviewConstants DEF PreviewNumbers, Grow, PreviewInv, PreviewTypeOK
  <2>2. PreviewTypeOK' /\ view' = view
    BY <1>2, <2>1 DEF Grow, PreviewInv, PreviewTypeOK
  <2>3. view.known \in Nat /\ Len(view.shown) \in Nat
    BY PreviewConstants DEF PreviewNumbers, PreviewInv, PreviewTypeOK
  <2>4. view.pc = "answered" => view.page.count \in Nat
    BY PreviewConstants DEF PreviewNumbers, PreviewInv, PreviewTypeOK, Pages
  <2> QED
    BY <2>1, <2>2, <2>3, <2>4 DEF PreviewInv
<1>3. CASE UNCHANGED previewVars
  BY <1>3 DEF previewVars, PreviewInv, PreviewTypeOK
<1> QED
  BY <1>1, <1>2, <1>3, ReadDataStep, ShowPageStep DEF PreviewNext

LEMMA PreviewAlways == PreviewSpec => []PreviewInv
<1>1. PreviewInv /\ [PreviewNext]_previewVars => PreviewInv'
  BY PreviewNextStep
<1> QED
  BY <1>1, PreviewStarts, PTL DEF PreviewSpec

\* The rows on the screen, the answer on its way and the number of rows keep their types.
THEOREM PreviewTypes == PreviewSpec => []PreviewTypeOK
<1>1. PreviewInv => PreviewTypeOK
  BY DEF PreviewInv
<1> QED
  BY <1>1, PreviewAlways, PTL

\* Whatever the page and the batches are, and however the file grows, the pages put
\* together are the file from its first row on; and where no more is offered, they hold
\* all the rows the last answer knew of.
THEOREM PagesAreTheFile == PreviewSpec => []PagesTile
<1>1. PreviewInv => PagesTile
  <2>1. PreviewInv => Len(view.shown) \in Nat /\ view.total \in Nat /\ view.known \in Nat
    BY PreviewConstants DEF PreviewNumbers, PreviewInv, PreviewTypeOK
  <2> QED
    BY <2>1 DEF PreviewInv, PagesTile, HasMore
<1> QED
  BY <1>1, PreviewAlways, PTL

-----------------------------------------------------------------------------
(* The language service. *)

LspRequests == [pc : {"idle", "waiting", "kernel", "answered"}, kind : {"complete", "other"},
                gen : Nat]

\* No request is of a generation that is still to come, and no list of one was shown.
ListsInv ==
    /\ completeGen \in Nat /\ shown \in Nat /\ shown <= completeGen
    /\ query \in [Query -> LspRequests]
    /\ \A q \in Query : query[q].gen <= completeGen

LEMMA ListsStart == LspInit => ListsInv
  BY DEF LspInit, ListsInv, LspRequests

LEMMA NewRequest ==
    ASSUME ListsInv, NEW q \in Query, NEW kind \in {"complete", "other"},
           NEW pc \in {"waiting", "answered"}, completeGen' = NextGen(kind), shown' = shown,
           query' = [query EXCEPT ![q] = [pc |-> pc, kind |-> kind, gen |-> completeGen']]
    PROVE  ListsInv'
<1>1. completeGen' \in Nat /\ completeGen' >= completeGen
  BY DEF ListsInv, NextGen
<1> DEFINE row == [pc |-> pc, kind |-> kind, gen |-> completeGen']
<1>2. row \in LspRequests /\ row.gen = completeGen'
  BY <1>1 DEF LspRequests
<1>3. query' = [query EXCEPT ![q] = row]
  OBVIOUS
<1> HIDE DEF row
<1>4. query' \in [Query -> LspRequests]
  BY <1>2, <1>3 DEF ListsInv
<1>5. ASSUME NEW p \in Query PROVE query'[p].gen <= completeGen'
  <2>1. query[p].gen \in Nat /\ query[p].gen <= completeGen
    BY DEF ListsInv, LspRequests
  <2>2. query'[p] = IF p = q THEN row ELSE query[p]
    BY <1>3 DEF ListsInv
  <2> QED
    BY <1>1, <1>2, <2>1, <2>2 DEF ListsInv
<1> QED
  BY <1>1, <1>4, <1>5 DEF ListsInv

\* A request goes on; what the editor was sent last may be its own list.
LEMMA RequestGoesOn ==
    ASSUME ListsInv, NEW q \in Query, NEW pc \in {"kernel", "answered"},
           query' = [query EXCEPT ![q].pc = pc], completeGen' = completeGen,
           shown' \in {shown, query[q].gen}
    PROVE  ListsInv'
<1> DEFINE old == query[q]
           row == [old EXCEPT !.pc = pc]
<1>1. query' = [query EXCEPT ![q] = row] /\ old \in LspRequests
  BY DEF ListsInv
<1>2. row \in LspRequests /\ row.gen = old.gen
  BY <1>1 DEF LspRequests
<1>3. old.gen \in Nat /\ old.gen <= completeGen
  BY DEF ListsInv, LspRequests
<1> HIDE DEF row
<1> QED
  BY <1>1, <1>2, <1>3 DEF ListsInv

\* A step keeps the invariant, and sends no list after a newer one but a late one.
LEMMA ListsNext ==
    ASSUME ListsInv, [LspNext]_lspVars
    PROVE  ListsInv' /\ (shown' >= shown \/ late')
<1> USE DEF Ends, Answered
<1>1. ASSUME NEW q \in Query, NEW kind \in {"complete", "other"},
             AskLsp(q, kind) \/ RefuseLsp(q, kind)
      PROVE  ListsInv' /\ (shown' >= shown \/ late')
  <2>1. ListsInv'
    BY <1>1, NewRequest DEF AskLsp, RefuseLsp
  <2> QED
    BY <1>1, <2>1 DEF AskLsp, RefuseLsp, ListsInv
<1>2. ASSUME NEW q \in Query, EndFails(q) \/ EndOther(q) \/ EndNothing(q) \/ EndSuperseded(q)
                              \/ EndAsksKernel(q) \/ LspTimeout(q)
      PROVE  ListsInv' /\ (shown' >= shown \/ late')
  <2>1. /\ completeGen' = completeGen /\ shown' = shown
        /\ \E pc \in {"kernel", "answered"} : query' = [query EXCEPT ![q].pc = pc]
    BY <1>2 DEF EndFails, EndOther, EndNothing, EndSuperseded, EndAsksKernel, LspTimeout
  <2>2. PICK pc \in {"kernel", "answered"} : query' = [query EXCEPT ![q].pc = pc]
    BY <2>1
  <2>3. ListsInv'
    BY <2>1, <2>2, RequestGoesOn
  <2>4. shown' >= shown
    BY <2>1 DEF ListsInv
  <2> QED
    BY <2>3, <2>4
<1>3. ASSUME NEW q \in Query, EndFound(q)
      PROVE  ListsInv' /\ (shown' >= shown \/ late')
  <2>1. /\ completeGen' = completeGen /\ query' = [query EXCEPT ![q].pc = "answered"]
        /\ shown' = query[q].gen /\ query[q].gen = completeGen
    BY <1>3 DEF EndFound, Send, Superseded
  <2> QED
    BY <2>1, RequestGoesOn DEF ListsInv
<1>4. ASSUME NEW q \in Query, KernelAnswers(q)
      PROVE  ListsInv' /\ (shown' >= shown \/ late')
  <2>1. /\ completeGen' = completeGen /\ query' = [query EXCEPT ![q].pc = "answered"]
        /\ shown' \in {shown, query[q].gen}
    BY <1>4 DEF KernelAnswers, Send
  <2>2. late' = TRUE
    BY <1>4 DEF KernelAnswers
  <2>3. ListsInv'
    BY <2>1, RequestGoesOn
  <2> QED
    BY <2>2, <2>3
<1>5. CASE TakeThread \/ (\E q \in Query : EndUnwanted(q)) \/ UNCHANGED lspVars
  BY <1>5 DEF TakeThread, EndUnwanted, lspVars, ListsInv
<1> QED
  BY <1>1, <1>2, <1>3, <1>4, <1>5 DEF LspNext

\* However many completions are asked for, on however many threads they run and in
\* whatever order they end, none is shown after a newer one, unless a list waited for a
\* kernel.
THEOREM NoListAfterANewer == LspSpec => ListsInOrder
<1> DEFINE Forward == shown' >= shown \/ late'
<1>1. ListsInv /\ [LspNext]_lspVars => ListsInv' /\ [Forward]_lspVars
  BY ListsNext
<1> QED
  BY <1>1, ListsStart, PTL DEF LspSpec, ListsInOrder

-----------------------------------------------------------------------------
(* The language service: its pool of threads. *)

Asked == {q \in Query : query[q].pc # "idle"}

\* The functions that wait for a thread, and those that have one
PoolInv ==
    /\ pool \in Seq(Query) /\ busy \subseteq Query
    /\ \A i, j \in 1..Len(pool) : pool[i] = pool[j] => i = j
    /\ \A i \in 1..Len(pool) : query[pool[i]].pc = "waiting" /\ pool[i] \notin busy
    /\ \A q \in busy : query[q].pc # "idle"
    /\ IsFiniteSet(busy) /\ Cardinality(busy) <= Threads

\* Each completion that was counted has been asked for.
LspInv ==
    /\ ListsInv /\ PoolInv
    /\ completeGen <= Cardinality(Asked)
    /\ healthy \in BOOLEAN /\ late \in BOOLEAN /\ notebook \in Notebooks

LEMMA AskedIsFinite == IsFiniteSet(Asked) /\ Cardinality(Asked) \in Nat
                       /\ Cardinality(Asked) <= Cardinality(Query) /\ Cardinality(Query) \in Nat
<1>1. IsFiniteSet(Query) /\ Asked \subseteq Query
  BY LspAssumption DEF Asked
<1> QED
  BY <1>1, FS_Subset, FS_CardinalityType

LEMMA CancelledIs ==
    ASSUME NEW q, pool \in Seq(Query), \A i, j \in 1..Len(pool) : pool[i] = pool[j] => i = j
    PROVE  /\ Cancelled(q) \in Seq(Query)
           /\ \A i, j \in 1..Len(Cancelled(q)) : Cancelled(q)[i] = Cancelled(q)[j] => i = j
           /\ \A i \in 1..Len(Cancelled(q)) :
                 Cancelled(q)[i] # q /\ \E j \in 1..Len(pool) : Cancelled(q)[i] = pool[j]
<1>1. CASE ~ \E i \in 1..Len(pool) : pool[i] = q
  <2>1. Cancelled(q) = pool
    BY <1>1 DEF Cancelled, RemoveFirst
  <2> QED
    BY <1>1, <2>1
<1>2. CASE \E i \in 1..Len(pool) : pool[i] = q
  <2> DEFINE I == {i \in 1..Len(pool) : pool[i] = q}
  <2>1. I \in SUBSET Nat /\ I # {}
    BY <1>2
  <2>3. Min(I) \in I
    <3> HIDE DEF I
    <3> QED
      BY <2>1, MinIs
  <2>4. PICK k \in 1..Len(pool) : pool[k] = q /\ k = Min(I)
    BY <2>3
  <2>5. Cancelled(q) = RemoveAt(pool, k)
    BY <1>2, <2>1, <2>4 DEF Cancelled, RemoveFirst, SelectInSeq
  <2>6. Cancelled(q) = SubSeq(pool, 1, k - 1) \o SubSeq(pool, k + 1, Len(pool))
    BY <2>5 DEF RemoveAt
  <2> HIDE DEF I
  <2>7. Len(Cancelled(q)) = Len(pool) - 1 /\ Cancelled(q) \in Seq(Query)
    BY <2>4, <2>6
  <2>8. \A i \in 1..Len(pool) - 1 : Cancelled(q)[i] = pool[IF i < k THEN i ELSE i + 1]
    <3> DEFINE front == SubSeq(pool, 1, k - 1)
               back == SubSeq(pool, k + 1, Len(pool))
    <3>1. /\ front \in Seq(Query) /\ Len(front) = k - 1
          /\ \A i \in 1..k - 1 : front[i] = pool[i]
      OBVIOUS
    <3>2. /\ back \in Seq(Query) /\ Len(back) = Len(pool) - k
          /\ \A i \in 1..Len(pool) - k : back[i] = pool[i + k]
      OBVIOUS
    <3>3. Cancelled(q) = front \o back
      BY <2>6
    <3> HIDE DEF front, back
    <3>4. \A i \in 1..Len(pool) - 1 :
             Cancelled(q)[i] = IF i <= k - 1 THEN front[i] ELSE back[i - (k - 1)]
      BY <3>1, <3>2, <3>3, ConcatProperties
    <3>5. ASSUME NEW i \in 1..Len(pool) - 1
          PROVE  Cancelled(q)[i] = pool[IF i < k THEN i ELSE i + 1]
      <4>1. CASE i < k
        BY <3>1, <3>4, <4>1
      <4>2. CASE i >= k
        <5>1. i - (k - 1) \in 1..Len(pool) - k /\ (i - (k - 1)) + k = i + 1
          BY <4>2
        <5> QED
          BY <3>2, <3>4, <4>2, <5>1
      <4> QED
        BY <4>1, <4>2
    <3> QED
      BY <3>5
  <2>9. ASSUME NEW i \in 1..Len(Cancelled(q))
        PROVE  /\ (IF i < k THEN i ELSE i + 1) \in 1..Len(pool)
               /\ (IF i < k THEN i ELSE i + 1) # k
               /\ Cancelled(q)[i] = pool[IF i < k THEN i ELSE i + 1]
    BY <2>4, <2>7, <2>8
  <2>10. ASSUME NEW i \in 1..Len(Cancelled(q)), NEW j \in 1..Len(Cancelled(q)),
                Cancelled(q)[i] = Cancelled(q)[j]
         PROVE  i = j
    <3>1. (IF i < k THEN i ELSE i + 1) = (IF j < k THEN j ELSE j + 1)
      BY <2>9, <2>10
    <3> QED
      BY <2>4, <2>7, <3>1
  <2>11. ASSUME NEW i \in 1..Len(Cancelled(q))
         PROVE  Cancelled(q)[i] # q /\ \E j \in 1..Len(pool) : Cancelled(q)[i] = pool[j]
    <3>1. PICK j \in 1..Len(pool) : j # k /\ Cancelled(q)[i] = pool[j]
      BY <2>9
    <3> QED
      BY <2>4, <3>1
  <2> QED
    BY <2>7, <2>10, <2>11
<1> QED
  BY <1>1, <1>2

LEMMA LspStarts == LspInit => LspInv
<1> SUFFICES ASSUME LspInit PROVE LspInv
  OBVIOUS
<1>1. PoolInv
  BY LspAssumption, FS_EmptySet DEF LspInit, PoolInv
<1>2. completeGen <= Cardinality(Asked)
  BY AskedIsFinite DEF LspInit
<1> QED
  BY <1>1, <1>2, ListsStart DEF LspInit, LspInv

\* What is asked for stays so, and the first of a new request counts.
LEMMA AskedGrows ==
    ASSUME LspInv, NEW q \in Query, NEW row \in LspRequests, row.pc # "idle",
           query' = [query EXCEPT ![q] = row]
    PROVE  /\ Cardinality(Asked') \in Nat /\ Cardinality(Asked') >= Cardinality(Asked)
           /\ query[q].pc = "idle" => Cardinality(Asked') = Cardinality(Asked) + 1
<1>1. query \in [Query -> LspRequests]
  BY DEF LspInv, ListsInv
<1>2. \A p \in Query : query'[p] = IF p = q THEN row ELSE query[p]
  BY <1>1
<1>3. Asked' = Asked \cup {q}
  BY <1>2 DEF Asked
<1>4. q \in Asked <=> query[q].pc # "idle"
  BY DEF Asked
<1>5. Cardinality(Asked \cup {q}) = IF q \in Asked THEN Cardinality(Asked)
                                   ELSE Cardinality(Asked) + 1
  BY AskedIsFinite, FS_AddElement
<1> QED
  BY <1>3, <1>4, <1>5, AskedIsFinite

\* A request that is asked or goes on is still counted.
LEMMA CountKept ==
    ASSUME LspInv, NEW q \in Query, NEW row \in LspRequests, row.pc # "idle",
           query' = [query EXCEPT ![q] = row],
           completeGen' = completeGen \/ (query[q].pc = "idle" /\ completeGen' = completeGen + 1)
    PROVE  completeGen' <= Cardinality(Asked')
<1>1. /\ Cardinality(Asked') \in Nat /\ Cardinality(Asked') >= Cardinality(Asked)
      /\ query[q].pc = "idle" => Cardinality(Asked') = Cardinality(Asked) + 1
  BY AskedGrows
<1>2. completeGen \in Nat /\ Cardinality(Asked) \in Nat /\ completeGen <= Cardinality(Asked)
  BY AskedIsFinite DEF LspInv, ListsInv
<1> HIDE DEF LspInv
<1> QED
  BY <1>1, <1>2

LEMMA PoolWaits ==
    ASSUME LspInv, NEW q \in Query, NEW row \in LspRequests, row.pc # "idle",
           query' = [query EXCEPT ![q] = row], pool' \in Seq(Query), busy' \subseteq busy,
           \A i, j \in 1..Len(pool') : pool'[i] = pool'[j] => i = j,
           \A i \in 1..Len(pool') :
               \/ pool'[i] # q /\ \E j \in 1..Len(pool) : pool'[i] = pool[j]
               \/ pool'[i] = q /\ row.pc = "waiting" /\ q \notin busy
    PROVE  PoolInv'
<1>1. \A p \in Query : query'[p] = IF p = q THEN row ELSE query[p]
  BY DEF LspInv, ListsInv
<1>2. IsFiniteSet(busy') /\ Cardinality(busy') <= Threads
  <2>1. Cardinality(busy') <= Cardinality(busy) /\ IsFiniteSet(busy')
    BY FS_Subset DEF LspInv, PoolInv
  <2> QED
    BY <2>1, FS_CardinalityType, LspAssumption DEF LspInv, PoolInv
<1>3. ASSUME NEW i \in 1..Len(pool') PROVE query'[pool'[i]].pc = "waiting" /\ pool'[i] \notin busy'
  <2>1. CASE pool'[i] = q /\ row.pc = "waiting" /\ q \notin busy
    BY <1>1, <2>1
  <2>2. CASE pool'[i] # q /\ \E j \in 1..Len(pool) : pool'[i] = pool[j]
    <3>1. PICK j \in 1..Len(pool) : pool'[i] = pool[j]
      BY <2>2
    <3>2. pool[j] \in Query /\ query[pool[j]].pc = "waiting" /\ pool[j] \notin busy
      BY DEF LspInv, PoolInv
    <3> QED
      BY <1>1, <2>2, <3>1, <3>2
  <2> QED
    BY <2>1, <2>2
<1> QED
  BY <1>2, <1>3 DEF PoolInv, LspInv

\* A step of one request, which is in the pool only while it waits for a thread
LEMMA QueryStep ==
    ASSUME LspInv, NEW q \in Query, NEW kind \in {"complete", "other"},
           \/ AskLsp(q, kind) \/ RefuseLsp(q, kind) \/ EndFails(q) \/ EndOther(q)
           \/ EndNothing(q) \/ EndSuperseded(q) \/ EndFound(q) \/ EndAsksKernel(q)
           \/ KernelAnswers(q) \/ LspTimeout(q)
    PROVE  PoolInv' /\ completeGen' <= Cardinality(Asked')
<1> DEFINE old == query[q]
<1>1. old \in LspRequests /\ query \in [Query -> LspRequests] /\ completeGen \in Nat
  BY DEF LspInv, ListsInv
<1>2. PoolInv
  BY DEF LspInv
<1>3. CASE AskLsp(q, kind)
  <2> DEFINE row == [pc |-> "waiting", kind |-> kind, gen |-> completeGen']
  <2>1. /\ query' = [query EXCEPT ![q] = row] /\ query[q].pc = "idle"
        /\ pool' = Append(pool, q) /\ busy' = busy
        /\ completeGen' = completeGen \/ completeGen' = completeGen + 1
    BY <1>3 DEF AskLsp, NextGen
  <2>2. row \in LspRequests /\ row.pc = "waiting"
    BY <1>1, <2>1 DEF LspRequests
  <2> HIDE DEF row
  <2>3. PoolInv'
    <3>1. pool' \in Seq(Query) /\ Len(pool') = Len(pool) + 1
          /\ pool'[Len(pool) + 1] = q /\ \A i \in 1..Len(pool) : pool'[i] = pool[i]
      BY <1>2, <2>1 DEF PoolInv
    <3>2. \A i \in 1..Len(pool) : pool[i] # q
      BY <1>2, <2>1 DEF PoolInv
    <3>3. q \notin busy
      BY <1>2, <2>1 DEF PoolInv
    <3>4. \A i, j \in 1..Len(pool) : pool[i] = pool[j] => i = j
      BY <1>2 DEF PoolInv
    <3>5. \A i, j \in 1..Len(pool') : pool'[i] = pool'[j] => i = j
      <4>1. Len(pool) \in Nat
        BY <1>2 DEF PoolInv
      <4>2. \A i \in 1..Len(pool') : i \in 1..Len(pool) \/ i = Len(pool) + 1
        BY <3>1, <4>1
      <4> QED
        BY <3>1, <3>2, <3>4, <4>2
    <3>6. \A i \in 1..Len(pool') :
               \/ pool'[i] # q /\ \E j \in 1..Len(pool) : pool'[i] = pool[j]
               \/ pool'[i] = q /\ row.pc = "waiting" /\ q \notin busy
      <4>1. Len(pool) \in Nat
        BY <1>2 DEF PoolInv
      <4>2. \A i \in 1..Len(pool') : i \in 1..Len(pool) \/ i = Len(pool) + 1
        BY <3>1, <4>1
      <4> QED
        BY <2>2, <3>1, <3>2, <3>3, <4>2
    <3> QED
      BY <2>1, <2>2, <3>1, <3>5, <3>6, PoolWaits
  <2>4. completeGen' <= Cardinality(Asked')
    BY <2>1, <2>2, CountKept
  <2> QED
    BY <2>3, <2>4
<1>4. CASE RefuseLsp(q, kind)
  <2> DEFINE row == [pc |-> "answered", kind |-> kind, gen |-> completeGen']
  <2>1. /\ query' = [query EXCEPT ![q] = row] /\ query[q].pc = "idle"
        /\ pool' = pool /\ busy' = busy
        /\ completeGen' = completeGen \/ completeGen' = completeGen + 1
    BY <1>4 DEF RefuseLsp, NextGen
  <2>2. row \in LspRequests /\ row.pc = "answered"
    BY <1>1, <2>1 DEF LspRequests
  <2> HIDE DEF row
  <2>3. PoolInv'
    BY <1>2, <2>1, <2>2, PoolWaits DEF PoolInv
  <2>4. completeGen' <= Cardinality(Asked')
    BY <2>1, <2>2, CountKept
  <2> QED
    BY <2>3, <2>4
<1>5. ASSUME NEW pc \in {"kernel", "answered"}, query' = [query EXCEPT ![q].pc = pc],
             completeGen' = completeGen, pool' \in {pool, Cancelled(q)}, busy' \subseteq busy,
             pool' = pool => \A i \in 1..Len(pool) : pool[i] # q
      PROVE  PoolInv' /\ completeGen' <= Cardinality(Asked')
  <2> DEFINE row == [old EXCEPT !.pc = pc]
  <2>1. query' = [query EXCEPT ![q] = row]
    BY <1>5
  <2>2. row \in LspRequests /\ row.pc = pc /\ row.pc # "idle"
    BY <1>1, <1>5 DEF LspRequests
  <2> HIDE DEF row
  <2>3. completeGen' <= Cardinality(Asked')
    BY <1>5, <2>1, <2>2, CountKept
  <2>4. CASE pool' = pool
    <3>1. /\ pool' \in Seq(Query) /\ \A i, j \in 1..Len(pool') : pool'[i] = pool'[j] => i = j
          /\ \A i \in 1..Len(pool') : pool'[i] # q /\ \E j \in 1..Len(pool) : pool'[i] = pool[j]
      BY <1>2, <1>5, <2>4 DEF PoolInv
    <3> QED
      <4>1. \A i \in 1..Len(pool') :
               \/ pool'[i] # q /\ \E j \in 1..Len(pool) : pool'[i] = pool[j]
               \/ pool'[i] = q /\ row.pc = "waiting" /\ q \notin busy
        BY <3>1
      <4>2. busy' \subseteq busy
        BY <1>5
      <4>3. PoolInv'
        BY <2>1, <2>2, <3>1, <4>1, <4>2, PoolWaits
      <4> QED
        BY <2>3, <4>3
  <2>5. CASE pool' = Cancelled(q)
    <3>1. pool \in Seq(Query) /\ \A i, j \in 1..Len(pool) : pool[i] = pool[j] => i = j
      BY <1>2 DEF PoolInv
    <3>2. /\ pool' \in Seq(Query) /\ \A i, j \in 1..Len(pool') : pool'[i] = pool'[j] => i = j
          /\ \A i \in 1..Len(pool') : pool'[i] # q /\ \E j \in 1..Len(pool) : pool'[i] = pool[j]
      BY <2>5, <3>1, CancelledIs
    <3> QED
      <4>1. \A i \in 1..Len(pool') :
               \/ pool'[i] # q /\ \E j \in 1..Len(pool) : pool'[i] = pool[j]
               \/ pool'[i] = q /\ row.pc = "waiting" /\ q \notin busy
        BY <3>2
      <4>2. busy' \subseteq busy
        BY <1>5
      <4>3. PoolInv'
        BY <2>1, <2>2, <3>2, <4>1, <4>2, PoolWaits
      <4> QED
        BY <2>3, <4>3
  <2> QED
    BY <1>5, <2>4, <2>5
<1>6. CASE \/ EndFails(q) \/ EndOther(q) \/ EndNothing(q) \/ EndSuperseded(q)
           \/ EndFound(q) \/ EndAsksKernel(q)
  <2>1. /\ query' = [query EXCEPT ![q].pc = "kernel"] \/ query' = [query EXCEPT ![q].pc = "answered"]
        /\ completeGen' = completeGen /\ pool' = pool /\ busy' = busy \ {q} /\ q \in busy
    BY <1>6 DEF EndFails, EndOther, EndNothing, EndSuperseded, EndFound, EndAsksKernel, Ends, Answered
  <2>2. \A i \in 1..Len(pool) : pool[i] # q
    BY <1>2, <2>1 DEF PoolInv
  <2> QED
    BY <1>5, <2>1, <2>2
<1>7. CASE KernelAnswers(q)
  <2>1. /\ query' = [query EXCEPT ![q].pc = "answered"] /\ completeGen' = completeGen
        /\ pool' = pool /\ busy' = busy /\ query[q].pc = "kernel"
    BY <1>7 DEF KernelAnswers, Answered
  <2>2. \A i \in 1..Len(pool) : pool[i] # q
    BY <1>2, <2>1 DEF PoolInv
  <2> QED
    BY <1>5, <2>1, <2>2
<1>8. CASE LspTimeout(q)
  <2>1. /\ query' = [query EXCEPT ![q].pc = "answered"] /\ completeGen' = completeGen
        /\ pool' = Cancelled(q) /\ busy' = busy
    BY <1>8 DEF LspTimeout, Answered
  <2>2. \A i \in 1..Len(Cancelled(q)) : Cancelled(q)[i] # q
    BY <1>2, CancelledIs DEF PoolInv
  <2> QED
    BY <1>5, <2>1, <2>2
<1> QED
  BY <1>3, <1>4, <1>6, <1>7, <1>8

LEMMA LspNextStep ==
    ASSUME LspInv, [LspNext]_lspVars
    PROVE  LspInv'
<1>1. ListsInv'
  BY ListsNext DEF LspInv
<1>2. healthy' \in BOOLEAN /\ late' \in BOOLEAN /\ notebook' \in Notebooks
  BY DEF LspInv, LspNext, lspVars, AskLsp, RefuseLsp, TakeThread, EndUnwanted, EndFails, EndOther,
         EndNothing, EndSuperseded, EndFound, EndAsksKernel, KernelAnswers, LspTimeout, Ends
<1>3. PoolInv' /\ completeGen' <= Cardinality(Asked')
  <2>1. ASSUME NEW q \in Query, NEW kind \in {"complete", "other"},
               AskLsp(q, kind) \/ RefuseLsp(q, kind)
        PROVE  PoolInv' /\ completeGen' <= Cardinality(Asked')
    BY <2>1, QueryStep
  <2>2. ASSUME NEW q \in Query,
               \/ EndFails(q) \/ EndOther(q) \/ EndNothing(q) \/ EndSuperseded(q) \/ EndFound(q)
               \/ EndAsksKernel(q) \/ KernelAnswers(q) \/ LspTimeout(q)
        PROVE  PoolInv' /\ completeGen' <= Cardinality(Asked')
    <3>1. "other" \in {"complete", "other"}
      OBVIOUS
    <3> QED
      BY <2>2, <3>1, QueryStep
  <2>3. CASE TakeThread
    <3>1. /\ pool # <<>> /\ Cardinality(busy) < Threads /\ busy' = busy \cup {Head(pool)}
          /\ pool' = Tail(pool) /\ query' = query /\ completeGen' = completeGen
      BY <2>3 DEF TakeThread
    <3>2. PoolInv
      BY DEF LspInv
    <3>3. /\ pool' \in Seq(Query) /\ Len(pool') = Len(pool) - 1 /\ Head(pool) = pool[1]
          /\ \A i \in 1..Len(pool') : pool'[i] = pool[i + 1] /\ i + 1 \in 1..Len(pool) /\ i + 1 # 1
          /\ 1 \in 1..Len(pool)
      BY <3>1, <3>2 DEF PoolInv
    <3>4. IsFiniteSet(busy') /\ Cardinality(busy') <= Threads
      <4>1. Cardinality(busy') <= Cardinality(busy) + 1 /\ IsFiniteSet(busy')
            /\ Cardinality(busy) \in Nat /\ Cardinality(busy') \in Nat
        <5>1. IsFiniteSet(busy) /\ Cardinality(busy) \in Nat
          BY <3>2, FS_CardinalityType DEF PoolInv
        <5>2. IsFiniteSet(busy \cup {Head(pool)})
              /\ Cardinality(busy \cup {Head(pool)}) \in {Cardinality(busy), Cardinality(busy) + 1}
          BY <5>1, FS_AddElement
        <5> QED
          BY <3>1, <5>1, <5>2
      <4> QED
        BY <3>1, <4>1, LspAssumption
    <3>5. ASSUME NEW i \in 1..Len(pool') PROVE query'[pool'[i]].pc = "waiting" /\ pool'[i] \notin busy'
      BY <3>1, <3>2, <3>3 DEF PoolInv
    <3>6. ASSUME NEW i \in 1..Len(pool'), NEW j \in 1..Len(pool'), pool'[i] = pool'[j] PROVE i = j
      <4>1. pool[i + 1] = pool[j + 1] /\ i + 1 \in 1..Len(pool) /\ j + 1 \in 1..Len(pool)
        BY <3>3, <3>6
      <4>2. i + 1 = j + 1
        BY <3>2, <4>1 DEF PoolInv
      <4> QED
        BY <4>2
    <3>7. busy' \subseteq Query /\ \A q \in busy' : query'[q].pc # "idle"
      BY <3>1, <3>2, <3>3 DEF PoolInv
    <3>8. PoolInv'
      BY <3>3, <3>4, <3>5, <3>6, <3>7 DEF PoolInv
    <3> QED
      BY <3>1, <3>8 DEF LspInv, Asked
  <2>4. ASSUME NEW q \in Query, EndUnwanted(q)
        PROVE  PoolInv' /\ completeGen' <= Cardinality(Asked')
    <3>1. /\ busy' = busy \ {q} /\ pool' = pool /\ query' = query /\ completeGen' = completeGen
      BY <2>4 DEF EndUnwanted
    <3>2. IsFiniteSet(busy') /\ Cardinality(busy') <= Threads
      <4>1. IsFiniteSet(busy') /\ Cardinality(busy') <= Cardinality(busy)
        BY <3>1, FS_Subset DEF LspInv, PoolInv
      <4> QED
        BY <4>1, FS_CardinalityType, LspAssumption DEF LspInv, PoolInv
    <3> QED
      BY <3>1, <3>2 DEF LspInv, PoolInv, Asked
  <2>5. CASE UNCHANGED lspVars
    BY <2>5 DEF lspVars, LspInv, PoolInv, Asked
  <2> QED
    BY <2>1, <2>2, <2>3, <2>4, <2>5 DEF LspNext
<1> QED
  BY <1>1, <1>2, <1>3 DEF LspInv

\* The generations count the completions asked for, a function waits for a thread once and
\* only while its request waits, and the pool runs no more than it has threads.
THEOREM LspTypes == LspSpec => []LspTypeOK
<1>1. LspInv => LspTypeOK
  <2> SUFFICES ASSUME LspInv PROVE LspTypeOK
    OBVIOUS
  <2>1. ListsInv /\ PoolInv /\ completeGen \in 0..Cardinality(Query) /\ shown \in 0..completeGen
    BY AskedIsFinite DEF LspInv, ListsInv
  <2>2. query \in [Query -> [pc : {"idle", "waiting", "kernel", "answered"},
                            kind : {"complete", "other"}, gen : 0..completeGen]]
    <3> DEFINE Row == [pc : {"idle", "waiting", "kernel", "answered"},
                       kind : {"complete", "other"}, gen : 0..completeGen]
    <3>1. ASSUME NEW q \in Query PROVE query[q] \in Row
      BY DEF LspInv, ListsInv, LspRequests
    <3> HIDE DEF Row
    <3>2. query \in [Query -> Row]
      BY <2>1, <3>1 DEF ListsInv
    <3> QED
      BY <3>2 DEF Row
  <2>3. IsInjective(pool) /\ \A q \in Range(pool) : query[q].pc = "waiting" /\ q \notin busy
    <3>1. DOMAIN pool = 1..Len(pool)
      BY <2>1 DEF PoolInv
    <3> QED
      BY <2>1, <3>1 DEF PoolInv, IsInjective, Range
  <2> QED
    BY <2>1, <2>2, <2>3 DEF LspInv, PoolInv, LspTypeOK
<1>2. LspInv /\ [LspNext]_lspVars => LspInv'
  BY LspNextStep
<1> QED
  BY <1>1, <1>2, LspStarts, PTL DEF LspSpec

-----------------------------------------------------------------------------
(* Functions that are defined by a recursion over numbers. *)

\* The function that a recursion over numbers defines
Recursion(f, a, n, first, step) ==
    \A i \in a..n : f[i] = IF i = a THEN first ELSE step[<<i, f[i - 1]>>]

Iterated(a, n, S, first, step) == CHOOSE f \in [a..n -> S] : Recursion(f, a, n, first, step)

\* It exists.
LEMMA RecursionExists ==
    ASSUME NEW S, NEW a \in Nat, NEW first \in S, NEW step \in [Nat \X S -> S], NEW N \in Nat
    PROVE  \E f \in [a..N -> S] : Recursion(f, a, N, first, step)
<1> DEFINE Is(f, n) == \A i \in a..n : f[i] = IF i = a THEN first ELSE step[<<i, f[i - 1]>>]
           T == {n \in Nat : ~ \E f \in [a..n -> S] : Is(f, n)}
<1>1. SUFFICES ASSUME T # {} PROVE FALSE
  BY DEF Recursion
<1>2. T \in SUBSET Nat
  OBVIOUS
<1>3. PICK n \in T : \A m \in T : n <= m
  <2> HIDE DEF T
  <2> QED
    BY <1>1, <1>2, MinExists
<1>4. n \in Nat /\ ~ \E f \in [a..n -> S] : Is(f, n)
  OBVIOUS
<1>5. CASE n <= a
  <2> DEFINE g == [i \in a..n |-> first]
  <2>1. Is(g, n) /\ g \in [a..n -> S]
    BY <1>4, <1>5
  <2> HIDE DEF Is, g
  <2> QED
    BY <1>4, <2>1
<1>6. CASE n > a
  <2>1. n - 1 \in Nat /\ n - 1 \notin T /\ n - 1 >= a
    <3>1. n - 1 \in Nat /\ ~(n <= n - 1) /\ n - 1 >= a
      BY <1>4, <1>6
    <3> HIDE DEF T
    <3> QED
      BY <1>3, <3>1
  <2>2. PICK f \in [a..n - 1 -> S] : Is(f, n - 1)
    BY <2>1
  <2> DEFINE last == step[<<n, f[n - 1]>>]
             g == [i \in a..n |-> IF i = n THEN last ELSE f[i]]
  <2>3. f[n - 1] \in S
    BY <1>4, <2>1
  <2>4. last \in S
    BY <1>4, <2>3
  <2>5. \A i \in a..n : i # n => i \in a..n - 1
    BY <1>4
  <2> HIDE DEF last
  <2>6. g \in [a..n -> S] /\ \A i \in a..n : g[i] = IF i = n THEN last ELSE f[i]
    BY <2>2, <2>4, <2>5
  <2> HIDE DEF g
  <2>7. ASSUME NEW i \in a..n
        PROVE  g[i] = IF i = a THEN first ELSE step[<<i, g[i - 1]>>]
    <3>1. CASE i = n
      <4>1. i - 1 \in a..n /\ i - 1 # n /\ i # a
        BY <1>4, <1>6, <2>1, <3>1
      <4>2. g[i - 1] = f[i - 1] /\ g[i] = last
        BY <2>6, <3>1, <4>1
      <4> QED
        BY <3>1, <4>1, <4>2 DEF last
    <3>2. CASE i = a
      <4>1. i # n /\ i \in a..n - 1
        BY <1>4, <1>6, <3>2
      <4> QED
        BY <2>2, <2>6, <3>2, <4>1
    <3>3. CASE i # n /\ i # a
      <4>1. i \in a..n - 1 /\ i - 1 \in a..n /\ i - 1 # n
        BY <1>4, <3>3
      <4> QED
        BY <2>2, <2>6, <3>3, <4>1
    <3> QED
      BY <3>1, <3>2, <3>3
  <2> QED
    BY <1>4, <2>6, <2>7
<1> QED
  BY <1>4, <1>5, <1>6

-----------------------------------------------------------------------------
LEMMA IteratedIs ==
    ASSUME NEW S, NEW a \in Nat, NEW first \in S, NEW step \in [Nat \X S -> S], NEW n \in Nat
    PROVE  /\ Iterated(a, n, S, first, step) \in [a..n -> S]
           /\ Recursion(Iterated(a, n, S, first, step), a, n, first, step)
<1>1. \E f \in [a..n -> S] : Recursion(f, a, n, first, step)
  BY RecursionExists
<1> QED
  BY <1>1 DEF Iterated

(* The lines of the virtual module. *)

LEMMA CellStartIs ==
    ASSUME NEW cells \in Seq(Nat)
    PROVE  /\ CellStart(cells, 1) = 0
           /\ \A d \in 1..Len(cells) + 1 : CellStart(cells, d) \in Nat
           /\ \A d \in 1..Len(cells) :
                 CellStart(cells, d + 1) = CellStart(cells, d) + cells[d] + 1
<1> DEFINE n == Len(cells) + 1
           Is(f) == f = [d \in 1..n |-> IF d = 1 THEN 0 ELSE f[d - 1] + cells[d - 1] + 1]
           step == [p \in Nat \X Nat |-> IF p[1] \in 2..n THEN p[2] + cells[p[1] - 1] + 1 ELSE 0]
<1>1. n \in Nat /\ n >= 1 /\ \A d \in 2..n : cells[d - 1] \in Nat
  OBVIOUS
<1>2. step \in [Nat \X Nat -> Nat]
  <2>1. ASSUME NEW p \in Nat \X Nat
        PROVE  (IF p[1] \in 2..n THEN p[2] + cells[p[1] - 1] + 1 ELSE 0) \in Nat
    <3>1. p[1] \in Nat /\ p[2] \in Nat
      OBVIOUS
    <3> HIDE DEF n
    <3> QED
      BY <1>1, <3>1
  <2> HIDE DEF n
  <2> QED
    BY <2>1
<1>3. \A i \in Nat, m \in Nat : i \in 2..n => step[<<i, m>>] = m + cells[i - 1] + 1
  OBVIOUS
<1> HIDE DEF step
<1> DEFINE f == Iterated(1, n, Nat, 0, step)
<1>4. /\ f \in [1..n -> Nat]
      /\ \A i \in 1..n : f[i] = IF i = 1 THEN 0 ELSE step[<<i, f[i - 1]>>]
  <2>1. 1 \in Nat /\ 0 \in Nat
    OBVIOUS
  <2> HIDE DEF n
  <2>2. f \in [1..n -> Nat] /\ Recursion(f, 1, n, 0, step)
    BY <1>1, <1>2, <2>1, IteratedIs, Zenon
  <2> HIDE DEF f
  <2> QED
    BY <2>2 DEF Recursion
<1> HIDE DEF f
<1>5. Is(f)
  <2>1. ASSUME NEW i \in 1..n
        PROVE  f[i] = IF i = 1 THEN 0 ELSE f[i - 1] + cells[i - 1] + 1
    <3> HIDE DEF n
    <3>1. i = 1 \/ (i \in 2..n /\ i \in Nat /\ i - 1 \in 1..n)
      BY <1>1
    <3> QED
      BY <1>3, <1>4, <3>1
  <2>2. f = [d \in 1..n |-> f[d]]
    <3> HIDE DEF n
    <3> QED
      BY <1>4
  <2> HIDE DEF n
  <2> QED
    BY <2>1, <2>2
<1> DEFINE start == CHOOSE g : Is(g)
<1>6. Is(start)
  <2> HIDE DEF Is
  <2> QED
    BY <1>5
<1>7. \A d : CellStart(cells, d) = start[d]
  BY DEF CellStart
<1> HIDE DEF start
<1>8. \A d \in 1..n : start[d] = IF d = 1 THEN 0 ELSE start[d - 1] + cells[d - 1] + 1
  <2> HIDE DEF n
  <2> QED
    BY <1>6
<1>9. \A d \in 1..n : start[d] \in Nat
  <2> DEFINE T == {d \in 1..n : start[d] \notin Nat}
  <2>1. SUFFICES ASSUME T # {} PROVE FALSE
    OBVIOUS
  <2>2. T \in SUBSET Nat
    BY <1>1
  <2>3. PICK d \in T : \A e \in T : d <= e
    <3> HIDE DEF T
    <3> QED
      BY <2>1, <2>2, MinExists
  <2>4. d \in 1..n /\ start[d] \notin Nat
    OBVIOUS
  <2>5. d # 1
    BY <1>1, <1>8, <2>4
  <2>6. d - 1 \in 1..n /\ d - 1 \notin T
    <3>1. d - 1 \in 1..n /\ ~(d <= d - 1)
      BY <1>1, <2>4, <2>5
    <3> HIDE DEF T
    <3> QED
      BY <2>3, <3>1
  <2>7. start[d - 1] \in Nat /\ cells[d - 1] \in Nat
    BY <1>1, <2>4, <2>5, <2>6
  <2> QED
    BY <1>8, <2>4, <2>5, <2>7
<1> QED
  <2>1. \A d \in 1..Len(cells) : d + 1 \in 1..n /\ d + 1 # 1 /\ (d + 1) - 1 = d
    BY <1>1
  <2>2. 1 \in 1..n
    BY <1>1
  <2> HIDE DEF n
  <2>3. CellStart(cells, 1) = 0
    BY <1>7, <1>8, <2>2
  <2>4. \A d \in 1..n : CellStart(cells, d) \in Nat
    BY <1>7, <1>9
  <2>5. \A d \in 1..Len(cells) : CellStart(cells, d + 1) = CellStart(cells, d) + cells[d] + 1
    BY <1>7, <1>8, <2>1
  <2> QED
    BY <2>3, <2>4, <2>5 DEF n

LEMMA MinOfTwo ==
    ASSUME NEW a \in Nat, NEW b \in Nat
    PROVE  Min({a, b}) = IF a <= b THEN a ELSE b
<1>1. Min({a, b}) \in {a, b} /\ \A x \in {a, b} : Min({a, b}) <= x
  <2>1. {a, b} \in SUBSET Nat /\ {a, b} # {}
    OBVIOUS
  <2> QED
    BY <2>1, MinIs
<1> HIDE DEF Min
<1> QED
  BY <1>1

LEMMA MaxOfTwo ==
    ASSUME NEW a \in Nat, NEW b \in Nat
    PROVE  Max({a, b}) = IF a <= b THEN b ELSE a
<1>1. Max({a, b}) \in {a, b} /\ \A x \in {a, b} : Max({a, b}) >= x
  <2>1. {a, b} \in SUBSET (0..a + b) /\ {a, b} # {} /\ a + b \in Nat
    OBVIOUS
  <2> QED
    BY <2>1, MaxIs
<1> QED
  BY <1>1

LEMMA StartsRise ==
    ASSUME NEW cells \in Seq(Nat), NEW d \in 1..Len(cells), NEW e \in 1..Len(cells) + 1, d < e
    PROVE  CellStart(cells, d) + cells[d] + 1 <= CellStart(cells, e)
<1> DEFINE n == Len(cells)
           S(c) == CellStart(cells, c)
           T == {c \in 1..n + 1 : d < c /\ ~(S(d) + cells[d] + 1 <= S(c))}
<1>1. /\ n \in Nat /\ d \in 1..n /\ e \in 1..n + 1 /\ \A c \in 1..n : cells[c] \in Nat
      /\ \A c \in 1..n + 1 : S(c) \in Nat
      /\ \A c \in 1..n : S(c + 1) = S(c) + cells[c] + 1
  BY CellStartIs, SMTT(30)
<1> HIDE DEF S, n
<1>2. SUFFICES ASSUME T # {} PROVE FALSE
  BY <1>1 DEF S, n
<1>3. T \in SUBSET Nat
  BY <1>1
<1>4. PICK c \in T : \A x \in T : c <= x
  <2> HIDE DEF T
  <2> QED
    BY <1>2, <1>3, MinExists
<1>5. c \in 1..n + 1 /\ d < c /\ ~(S(d) + cells[d] + 1 <= S(c))
  OBVIOUS
<1>6. c - 1 \in 1..n /\ (c - 1) + 1 = c /\ c - 1 \in 1..n + 1 /\ ~(c <= c - 1)
  BY <1>1, <1>5
<1>7. c - 1 # d
  BY <1>1, <1>5, <1>6, SMTT(30)
<1>8. c - 1 \notin T
  <2> HIDE DEF T
  <2> QED
    BY <1>4, <1>6
<1>9. S(d) + cells[d] + 1 <= S(c - 1)
  BY <1>1, <1>5, <1>6, <1>7, <1>8, SMTT(30)
<1>10. S(c) = S(c - 1) + cells[c - 1] + 1
  BY <1>1, <1>6
<1>11. S(d) \in Nat /\ S(c) \in Nat /\ S(c - 1) \in Nat /\ cells[d] \in Nat /\ cells[c - 1] \in Nat
  BY <1>1, <1>6, SMTT(30)
<1>12. ASSUME NEW u \in Nat, NEW v \in Nat, NEW w \in Nat, NEW x \in Nat, NEW y \in Nat,
              u + v + 1 <= x, w = x + y + 1
       PROVE  u + v + 1 <= w
  BY <1>12
<1>13. S(d) + cells[d] + 1 <= S(c)
  <2> DEFINE u == S(d)
             v == cells[d]
             w == S(c)
             x == S(c - 1)
             y == cells[c - 1]
  <2>1. u \in Nat /\ v \in Nat /\ w \in Nat /\ x \in Nat /\ y \in Nat
        /\ u + v + 1 <= x /\ w = x + y + 1
    BY <1>9, <1>10, <1>11
  <2> HIDE DEF u, v, w, x, y
  <2>2. u + v + 1 <= w
    BY <1>12, <2>1
  <2> QED
    BY <2>2 DEF u, v, w
<1> QED
  BY <1>5, <1>13

\* Line k of a cell is a line of the module.
LEMMA EveryLineIsOfACell ==
    ASSUME NEW cells \in Seq(Nat), Len(cells) > 0,
           NEW i \in 1..CellStart(cells, Len(cells) + 1)
    PROVE  \E d \in 1..Len(cells) : \E k \in 1..cells[d] + 1 : i = CellStart(cells, d) + k
<1> DEFINE n == Len(cells)
           S(c) == CellStart(cells, c)
           T == {c \in 1..n : S(c) <= i - 1}
<1>1. /\ n \in Nat /\ n > 0 /\ \A c \in 1..n : cells[c] \in Nat
      /\ \A c \in 1..n + 1 : S(c) \in Nat
      /\ \A c \in 1..n : S(c + 1) = S(c) + cells[c] + 1
      /\ S(1) = 0
      /\ i \in 1..S(n + 1)
  BY CellStartIs
<1> HIDE DEF S, n
<1>2. 1 \in T /\ T \in SUBSET (0..n)
  BY <1>1
<1>3. PICK d \in T : \A c \in T : d >= c
  <2> HIDE DEF T
  <2> QED
    BY <1>1, <1>2, MaxExists
<1>4. d \in 1..n /\ S(d) <= i - 1
  OBVIOUS
<1>5. i - 1 < S(d + 1)
  <2>1. CASE d = n
    BY <1>1, <2>1
  <2>2. CASE d # n
    <3>1. d + 1 \in 1..n /\ ~(d >= d + 1) /\ d + 1 \in 1..n + 1
      BY <1>1, <1>4, <2>2
    <3>2. d + 1 \notin T
      <4> HIDE DEF T
      <4> QED
        BY <1>3, <3>1
    <3>3. ~(S(d + 1) <= i - 1)
      BY <3>1, <3>2
    <3> QED
      BY <1>1, <3>1, <3>3
  <2> QED
    BY <2>1, <2>2
<1> DEFINE k == i - S(d)
<1>6. S(d) \in Nat /\ cells[d] \in Nat /\ S(d + 1) = S(d) + cells[d] + 1 /\ i \in Nat
  BY <1>1, <1>4
<1>7. k \in 1..cells[d] + 1 /\ i = S(d) + k
  <2>1. \A s, m, t, j \in Nat : s <= j - 1 /\ t = s + m + 1 /\ j - 1 < t
                                 => j - s \in 1..m + 1 /\ j = s + (j - s)
    OBVIOUS
  <2> DEFINE s == S(d)
             m == cells[d]
             t == S(d + 1)
  <2>2. s \in Nat /\ m \in Nat /\ t \in Nat /\ i \in Nat /\ s <= i - 1 /\ t = s + m + 1
        /\ i - 1 < t
    BY <1>4, <1>5, <1>6, SMTT(30)
  <2>3. k = i - s
    OBVIOUS
  <2> HIDE DEF s, m, t, k
  <2>4. k \in 1..m + 1 /\ i = s + k
    BY <2>1, <2>2, <2>3
  <2> QED
    BY <2>4 DEF s, m
<1> QED
  BY <1>4, <1>7 DEF n, S

\* The cell of a line is the one that the line was taken from.
LEMMA CellOfALine ==
    ASSUME NEW cells \in Seq(Nat \ {0}), NEW d \in 1..Len(cells), NEW k \in 1..cells[d] + 1
    PROVE  ToCell(cells, CellStart(cells, d) + k) = <<d, Min({k, cells[d]}) - 1>>
<1> DEFINE n == Len(cells)
           S(c) == CellStart(cells, c)
           i == S(d) + k
           T == {1} \cup {c \in DOMAIN cells : CellStart(cells, c) <= i - 1}
<1>0. cells \in Seq(Nat)
  OBVIOUS
<1>1. /\ n \in Nat /\ d \in 1..n /\ \A c \in 1..n : cells[c] \in Nat \ {0}
      /\ \A c \in 1..n + 1 : S(c) \in Nat
      /\ DOMAIN cells = 1..n /\ S(1) = 0
  BY <1>0, CellStartIs
<1>2. \A c \in 1..n : d < c => S(d) + cells[d] + 1 <= S(c)
  <2>1. ASSUME NEW c \in 1..n, d < c PROVE S(d) + cells[d] + 1 <= S(c)
    <3>1. c \in 1..Len(cells) + 1
      OBVIOUS
    <3> QED
      BY <1>0, <2>1, <3>1, StartsRise
  <2> QED
    BY <2>1
<1>3. T = {c \in 1..n : S(c) <= i - 1}
  <2>1. S(1) <= i - 1 /\ 1 \in 1..n
    BY <1>1, SMTT(30)
  <2> HIDE DEF n, S, i
  <2> QED
    BY <1>1, <2>1 DEF S
<1>4. k \in Nat /\ k >= 1 /\ k <= cells[d] + 1 /\ i - 1 = S(d) + (k - 1) /\ S(d) \in Nat
  BY <1>1
<1> HIDE DEF S, n
<1>5. d \in T /\ \A c \in T : c <= d
  <2>1. S(d) <= i - 1
    BY <1>4
  <2> HIDE DEF i
  <2>2. ASSUME NEW c \in 1..n, S(c) <= i - 1 PROVE c <= d
    <3>1. S(c) \in Nat /\ cells[d] \in Nat /\ c \in Nat /\ d \in Nat
      BY <1>1
    <3>2. ~(S(d) + cells[d] + 1 <= S(c))
      BY <1>4, <2>2, <3>1
    <3>3. ~(d < c)
      BY <1>2, <3>2
    <3> QED
      BY <3>1, <3>3
  <2> HIDE DEF T
  <2> QED
    BY <1>1, <1>3, <2>1, <2>2
<1>6. T \in SUBSET (0..n) /\ n \in Nat
  BY <1>1, <1>3
<1>7. Max(T) = d
  <2>1. Max(T) \in T /\ \A c \in T : Max(T) >= c
    <3> HIDE DEF T
    <3> QED
      BY <1>5, <1>6, MaxIs
  <2>2. Max(T) \in Nat /\ d \in Nat
    <3>1. \A x \in T : x \in Nat
      BY <1>6
    <3> HIDE DEF T
    <3> QED
      BY <1>1, <2>1, <3>1
  <2>3. Max(T) <= d /\ Max(T) >= d
    <3> HIDE DEF T
    <3> QED
      BY <1>5, <2>1
  <2> HIDE DEF T
  <2> QED
    BY <2>2, <2>3
<1>8. ToCell(cells, i) = <<d, Min({i - 1 - S(d), cells[d] - 1})>>
  BY <1>7 DEF ToCell, S
<1>9. Min({i - 1 - S(d), cells[d] - 1}) = Min({k, cells[d]}) - 1
  <2>1. i - 1 - S(d) = k - 1 /\ cells[d] \in Nat /\ cells[d] >= 1 /\ k - 1 \in Nat
        /\ cells[d] - 1 \in Nat
    BY <1>1, <1>4
  <2> HIDE DEF i
  <2>2. Min({k - 1, cells[d] - 1}) = IF k <= cells[d] THEN k - 1 ELSE cells[d] - 1
    <3>1. k - 1 <= cells[d] - 1 <=> k <= cells[d]
      BY <1>4, <2>1
    <3>2. Min({k - 1, cells[d] - 1}) = IF k - 1 <= cells[d] - 1 THEN k - 1 ELSE cells[d] - 1
      BY <2>1, MinOfTwo
    <3> QED
      BY <3>1, <3>2
  <2>3. Min({k, cells[d]}) = IF k <= cells[d] THEN k ELSE cells[d]
    BY <1>4, <2>1, MinOfTwo
  <2> QED
    BY <2>1, <2>2, <2>3, <1>4
<1> QED
  BY <1>8, <1>9 DEF S

\* Lines of the first cells, up to each one
FlatIs(flat, cells) ==
    \A c \in 1..Len(cells) :
        /\ flat[c] \in Seq(Nat \X Nat)
        /\ Len(flat[c]) = CellStart(cells, c + 1)
        /\ \A d \in 1..c : \A k \in 1..cells[d] + 1 :
              flat[c][CellStart(cells, d) + k] = <<d, Min({k, cells[d]}) - 1>>

LEMMA CellLinesAre ==
    ASSUME NEW cells \in Seq(Nat \ {0}), NEW c \in 1..Len(cells)
    PROVE  /\ CellLines(cells, c) \in Seq(Nat \X Nat)
           /\ Len(CellLines(cells, c)) = cells[c] + 1
           /\ \A k \in 1..cells[c] + 1 : CellLines(cells, c)[k] = <<c, Min({k, cells[c]}) - 1>>
<1>1. cells[c] \in Nat /\ cells[c] >= 1 /\ c \in Nat
  OBVIOUS
<1>2. \A k \in 1..cells[c] + 1 : Min({k, cells[c]}) - 1 \in Nat
  <2>1. ASSUME NEW k \in 1..cells[c] + 1 PROVE Min({k, cells[c]}) - 1 \in Nat
    <3>1. k \in Nat /\ k >= 1
      BY <1>1
    <3>2. Min({k, cells[c]}) = IF k <= cells[c] THEN k ELSE cells[c]
      BY <1>1, <3>1, MinOfTwo
    <3> QED
      BY <1>1, <3>1, <3>2
  <2> QED
    BY <2>1
<1> DEFINE at(k) == Min({k, cells[c]}) - 1
           m == cells[c] + 1
<1>3. CellLines(cells, c) = [k \in 1..m |-> <<c, at(k)>>]
  BY DEF CellLines
<1>4. m \in Nat /\ \A k \in 1..m : at(k) \in Nat
  BY <1>1, <1>2
<1> HIDE DEF at, m
<1>5. /\ CellLines(cells, c) \in Seq(Nat \X Nat)
      /\ Len(CellLines(cells, c)) = m
      /\ \A k \in 1..m : CellLines(cells, c)[k] = <<c, at(k)>>
  BY <1>1, <1>3, <1>4
<1> QED
  BY <1>5 DEF m, at

\* The module is what a recursion over the cells gives.
LEMMA ModuleLinesAre ==
    ASSUME NEW cells \in Seq(Nat \ {0}), Len(cells) > 0
    PROVE  \E flat : /\ ModuleLines(cells) = flat[Len(cells)]
                     /\ \A c \in 1..Len(cells) :
                          /\ flat[c] \in Seq(Nat \X Nat)
                          /\ flat[c] = IF c = 1 THEN CellLines(cells, 1)
                                       ELSE flat[c - 1] \o CellLines(cells, c)
<1> DEFINE n == Len(cells)
           S == Seq(Nat \X Nat)
           seqs == [c \in DOMAIN cells |-> CellLines(cells, c)]
           step == [p \in Nat \X S |-> IF p[1] \in 1..n THEN p[2] \o seqs[p[1]] ELSE p[2]]
           Is(f) == f = [i \in 1..n |-> IF i = 1 THEN seqs[1] ELSE f[i - 1] \o seqs[i]]
           Raw(f) == f = [i \in 1..Len(seqs) |->
                            IF i = 1 THEN seqs[i] ELSE f[i - 1] \o seqs[i]]
<1>1. n \in Nat /\ n > 0 /\ DOMAIN cells = 1..n /\ 1 \in 1..n /\ n \in 1..n
  OBVIOUS
<1>2. \A c \in 1..n : seqs[c] = CellLines(cells, c) /\ seqs[c] \in S
  BY CellLinesAre
<1>3. Len(seqs) = n
  BY <1>1
<1>4. ModuleLines(cells) = (CHOOSE f : Raw(f))[Len(seqs)]
  BY <1>1, <1>3 DEF ModuleLines, FlattenSeq
<1>5. \A f : Raw(f) <=> Is(f)
  <2>1. ASSUME NEW f
        PROVE  [i \in 1..n |-> IF i = 1 THEN seqs[i] ELSE f[i - 1] \o seqs[i]]
                 = [i \in 1..n |-> IF i = 1 THEN seqs[1] ELSE f[i - 1] \o seqs[i]]
    <3> HIDE DEF n, seqs
    <3> QED
      OBVIOUS
  <2> HIDE DEF n, seqs
  <2> QED
    BY <1>3, <2>1
<1>6. step \in [Nat \X S -> S]
  <2>1. ASSUME NEW p \in Nat \X S
        PROVE  (IF p[1] \in 1..n THEN p[2] \o seqs[p[1]] ELSE p[2]) \in S
    <3>1. p[2] \in S
      OBVIOUS
    <3>2. p[1] \in 1..n => p[2] \o seqs[p[1]] \in S
      <4>1. p[1] \in 1..n => seqs[p[1]] \in S
        BY <1>2
      <4> HIDE DEF seqs
      <4> QED
        BY <3>1, <4>1
    <3> HIDE DEF seqs, n, S
    <3> QED
      BY <3>1, <3>2
  <2> HIDE DEF S, seqs, n
  <2> QED
    BY <2>1
<1>7. \A i \in Nat, x \in S : i \in 1..n => step[<<i, x>>] = x \o seqs[i]
  <2> HIDE DEF seqs, n, S
  <2> QED
    OBVIOUS
<1> DEFINE g == Iterated(1, n, S, seqs[1], step)
<1>8. g \in [1..n -> S] /\ Recursion(g, 1, n, seqs[1], step)
  <2>1. seqs[1] \in S /\ 1 \in Nat
    BY <1>1, <1>2
  <2> HIDE DEF seqs, n, S, step
  <2> QED
    BY <1>1, <1>6, <2>1, IteratedIs, Zenon
<1> HIDE DEF g, step, seqs, S, n
<1>9. Is(g)
  <2>1. ASSUME NEW i \in 1..n
        PROVE  g[i] = IF i = 1 THEN seqs[1] ELSE g[i - 1] \o seqs[i]
    <3>1. g[i] = IF i = 1 THEN seqs[1] ELSE step[<<i, g[i - 1]>>]
      BY <1>8 DEF Recursion
    <3>2. i # 1 => i \in Nat /\ i - 1 \in 1..n
      BY <1>1
    <3>3. i # 1 => step[<<i, g[i - 1]>>] = g[i - 1] \o seqs[i]
      BY <1>7, <1>8, <3>2
    <3> QED
      BY <3>1, <3>3
  <2>2. g = [i \in 1..n |-> g[i]]
    BY <1>8
  <2> QED
    BY <2>1, <2>2
<1> DEFINE flat == CHOOSE f : Is(f)
<1>10. Is(flat)
  <2> HIDE DEF Is
  <2> QED
    BY <1>9
<1>11. ModuleLines(cells) = flat[n]
  <2>1. (CHOOSE f : Raw(f)) = flat
    <3> HIDE DEF Is, Raw
    <3> QED
      BY <1>5
  <2> HIDE DEF Raw, flat
  <2> QED
    BY <1>3, <1>4, <2>1
<1> HIDE DEF flat
<1>12. \A c \in 1..n : flat[c] = IF c = 1 THEN seqs[1] ELSE flat[c - 1] \o seqs[c]
  BY <1>10
<1>13. \A c \in 1..n : flat[c] \in S
  <2> DEFINE T == {c \in 1..n : flat[c] \notin S}
  <2>1. SUFFICES ASSUME T # {} PROVE FALSE
    OBVIOUS
  <2>2. T \in SUBSET Nat
    BY <1>1
  <2>3. PICK c \in T : \A e \in T : c <= e
    <3> HIDE DEF T
    <3> QED
      BY <2>1, <2>2, MinExists
  <2>4. c \in 1..n /\ flat[c] \notin S
    OBVIOUS
  <2>5. c # 1
    BY <1>1, <1>2, <1>12, <2>4
  <2>6. c - 1 \in 1..n /\ c - 1 \notin T
    <3>1. c - 1 \in 1..n /\ ~(c <= c - 1)
      BY <1>1, <2>4, <2>5
    <3> HIDE DEF T
    <3> QED
      BY <2>3, <3>1
  <2>7. flat[c - 1] \in S /\ seqs[c] \in S
    BY <1>2, <2>4, <2>6
  <2>8. flat[c - 1] \o seqs[c] \in S
    BY <2>7 DEF S
  <2> QED
    BY <1>12, <2>4, <2>5, <2>8
<1>14. \A c \in 1..n :
          flat[c] = IF c = 1 THEN CellLines(cells, 1) ELSE flat[c - 1] \o CellLines(cells, c)
  BY <1>1, <1>2, <1>12
<1> QED
  BY <1>11, <1>13, <1>14 DEF n, S

\* The line at each place of the module, and how many there are
LEMMA LinesAtPlaces ==
    ASSUME NEW cells \in Seq(Nat \ {0}), Len(cells) > 0
    PROVE  /\ Len(ModuleLines(cells)) = CellStart(cells, Len(cells) + 1)
           /\ \A d \in 1..Len(cells) : \A k \in 1..cells[d] + 1 :
                 ModuleLines(cells)[CellStart(cells, d) + k] = <<d, Min({k, cells[d]}) - 1>>
<1> DEFINE n == Len(cells)
           S(c) == CellStart(cells, c)
           L(c) == CellLines(cells, c)
           row(d, k) == <<d, Min({k, cells[d]}) - 1>>
<1>0. cells \in Seq(Nat)
  OBVIOUS
<1>1. /\ n \in Nat /\ n > 0 /\ \A c \in 1..n : cells[c] \in Nat /\ cells[c] >= 1
      /\ \A c \in 1..n + 1 : S(c) \in Nat
      /\ \A c \in 1..n : S(c + 1) = S(c) + cells[c] + 1
      /\ S(1) = 0
  BY <1>0, CellStartIs
<1>2. PICK flat : /\ ModuleLines(cells) = flat[n]
                  /\ \A c \in 1..n :
                       /\ flat[c] \in Seq(Nat \X Nat)
                       /\ flat[c] = IF c = 1 THEN L(1) ELSE flat[c - 1] \o L(c)
  BY ModuleLinesAre
<1>3. \A c \in 1..n : /\ L(c) \in Seq(Nat \X Nat)
                      /\ Len(L(c)) = cells[c] + 1
                      /\ \A k \in 1..cells[c] + 1 : L(c)[k] = row(c, k)
  BY CellLinesAre
<1>4. \A d, c \in 1..n : d < c => S(d) + cells[d] + 1 <= S(c)
  <2>1. ASSUME NEW d \in 1..n, NEW c \in 1..n, d < c PROVE S(d) + cells[d] + 1 <= S(c)
    <3>1. c \in 1..Len(cells) + 1 /\ d \in 1..Len(cells)
      OBVIOUS
    <3> QED
      BY <1>0, <2>1, <3>1, StartsRise
  <2> QED
    BY <2>1
<1> DEFINE Good(c) == /\ Len(flat[c]) = S(c + 1)
                      /\ \A d \in 1..c : \A k \in 1..cells[d] + 1 : flat[c][S(d) + k] = row(d, k)
           T == {c \in 1..n : ~Good(c)}
<1> HIDE DEF n, S, L, row
<1>5. T = {}
  <2>1. SUFFICES ASSUME T # {} PROVE FALSE
    OBVIOUS
  <2>2. T \in SUBSET Nat
    BY <1>1
  <2>3. PICK c \in T : \A e \in T : c <= e
    <3> HIDE DEF T
    <3> QED
      BY <2>1, <2>2, MinExists
  <2>4. c \in 1..n /\ ~Good(c) /\ c \in Nat /\ c >= 1
    BY <1>1
  <2>5. CASE c = 1
    <3>1. flat[1] = L(1) /\ 1 \in 1..n
      BY <1>2, <2>4, <2>5
    <3>2. Len(L(1)) = S(1 + 1)
      <4>1. S(1 + 1) = S(1) + cells[1] + 1 /\ Len(L(1)) = cells[1] + 1 /\ cells[1] \in Nat
        BY <1>1, <1>3, <3>1
      <4>2. S(1) = 0
        BY <1>1
      <4> QED
        BY <4>1, <4>2
    <3>3. \A d \in 1..1 : \A k \in 1..cells[d] + 1 : L(1)[S(d) + k] = row(d, k)
      <4>1. ASSUME NEW k \in 1..cells[1] + 1 PROVE L(1)[S(1) + k] = row(1, k)
        <5>1. S(1) + k = k
          BY <1>1, <3>1
        <5> QED
          BY <1>3, <3>1, <5>1
      <4> QED
        BY <4>1
    <3> HIDE DEF T
    <3> QED
      BY <2>4, <2>5, <3>1, <3>2, <3>3
  <2>6. CASE c # 1
    <3>1. c - 1 \in 1..n /\ (c - 1) + 1 = c /\ ~(c <= c - 1) /\ c \in 1..n + 1
      BY <1>1, <2>4, <2>6
    <3>2. c - 1 \notin T
      <4> HIDE DEF T
      <4> QED
        BY <2>3, <3>1
    <3>3. Good(c - 1)
      <4> HIDE DEF Good
      <4> QED
        BY <3>1, <3>2
    <3> DEFINE P == flat[c - 1]
               Q == L(c)
    <3>4. /\ P \in Seq(Nat \X Nat) /\ Q \in Seq(Nat \X Nat)
          /\ flat[c] = P \o Q
      BY <1>2, <1>3, <2>4, <2>6, <3>1
    <3>5. Len(P) = S(c) /\ Len(Q) = cells[c] + 1 /\ S(c) \in Nat /\ cells[c] \in Nat
          /\ S(c + 1) = S(c) + cells[c] + 1
      BY <1>1, <1>3, <2>4, <3>1, <3>3
    <3> HIDE DEF P, Q
    <3>6. Len(flat[c]) = S(c + 1)
      <4>1. Len(P \o Q) = Len(P) + Len(Q)
        BY <3>4
      <4> DEFINE s == S(c)
                 m == cells[c]
                 t == S(c + 1)
      <4>2. s \in Nat /\ m \in Nat /\ t = s + m + 1 /\ Len(P \o Q) = s + (m + 1)
        BY <3>5, <4>1
      <4> HIDE DEF s, m, t
      <4>3. Len(P \o Q) = t
        BY <4>2
      <4> QED
        BY <3>4, <4>3 DEF t
    <3>7. ASSUME NEW d \in 1..c, NEW k \in 1..cells[d] + 1
          PROVE  flat[c][S(d) + k] = row(d, k)
      <4>0. d \in 1..n /\ S(d) \in Nat /\ cells[d] \in Nat /\ k \in Nat /\ k >= 1
        BY <1>1, <2>4, SMTT(30)
      <4>1. CASE d = c
        <5>1. S(d) + k \in 1..Len(P) + Len(Q) /\ S(d) + k > Len(P) /\ S(d) + k - Len(P) = k
          <6> DEFINE s == S(c)
                     m == cells[c]
          <6>1. s \in Nat /\ m \in Nat /\ k \in Nat /\ k >= 1 /\ k <= m + 1
            BY <3>5, <4>0, <4>1
          <6> HIDE DEF s, m
          <6>2. s + k \in 1..s + (m + 1) /\ s + k > s /\ s + k - s = k
            BY <6>1
          <6> QED
            BY <3>5, <4>1, <6>2 DEF s, m
        <5>2. (P \o Q)[S(d) + k] = Q[k]
          <6> HIDE DEF T, Good
          <6>1. \E j \in 1..Len(P) + Len(Q) : j = S(d) + k /\ j > Len(P) /\ j - Len(P) = k
            BY <3>5, <4>0, <5>1, SMTT(30)
          <6>2. PICK j \in 1..Len(P) + Len(Q) : j = S(d) + k /\ j > Len(P) /\ j - Len(P) = k
            BY <6>1
          <6>3. (P \o Q)[j] = Q[j - Len(P)]
            BY <3>4, <6>2
          <6> QED
            BY <6>2, <6>3
        <5> QED
          BY <1>3, <2>4, <3>4, <4>1, <5>2 DEF Q
      <4>2. CASE d # c
        <5>1. d \in 1..c - 1 /\ d < c
          BY <2>4, <4>2
        <5>2. S(d) + cells[d] + 1 <= S(c)
          BY <1>4, <2>4, <4>0, <5>1
        <5>3. S(d) + k \in 1..Len(P)
          <6> DEFINE s == S(d)
                     m == cells[d]
                     t == S(c)
          <6>1. s \in Nat /\ m \in Nat /\ t \in Nat /\ s + m + 1 <= t /\ k \in 1..m + 1
            BY <3>5, <4>0, <5>2
          <6> HIDE DEF s, m, t
          <6>2. s + k \in 1..t
            BY <6>1
          <6> QED
            BY <3>5, <6>2 DEF s, t
        <5>4. (P \o Q)[S(d) + k] = P[S(d) + k]
          BY <3>4, <5>3
        <5>5. P[S(d) + k] = row(d, k)
          BY <3>3, <5>1 DEF P
        <5> QED
          BY <3>4, <5>4, <5>5
      <4> QED
        BY <4>1, <4>2
    <3> HIDE DEF T
    <3> QED
      BY <2>4, <3>6, <3>7
  <2> QED
    BY <2>5, <2>6
<1>6. n \in 1..n
  BY <1>1
<1>7. Good(n)
  <2> HIDE DEF Good
  <2> QED
    BY <1>5, <1>6
<1> HIDE DEF T
<1>8. Len(ModuleLines(cells)) = S(n + 1)
  BY <1>2, <1>7
<1>9. \A d \in 1..n : \A k \in 1..cells[d] + 1 : ModuleLines(cells)[S(d) + k] = row(d, k)
  BY <1>2, <1>7
<1> QED
  BY <1>8, <1>9 DEF n, S, row

LEMMA PositionsOf ==
    ASSUME NEW cells \in Seq(Nat \ {0}), Len(cells) > 0, MaxLines \in Nat, cells = notebook
    PROVE  PositionsAgree
<1> DEFINE n == Len(cells)
           S(c) == CellStart(cells, c)
           lines == ModuleLines(cells)
           row(d, k) == <<d, Min({k, cells[d]}) - 1>>
<1>0. cells \in Seq(Nat)
  OBVIOUS
<1>1. /\ n \in Nat /\ n > 0 /\ DOMAIN cells = 1..n
      /\ \A c \in 1..n : cells[c] \in Nat /\ cells[c] >= 1
      /\ \A c \in 1..n + 1 : S(c) \in Nat
      /\ \A c \in 1..n : S(c + 1) = S(c) + cells[c] + 1
      /\ S(1) = 0
  BY <1>0, CellStartIs
<1>2. Len(lines) = S(n + 1) /\ \A d \in 1..n : \A k \in 1..cells[d] + 1 : lines[S(d) + k] = row(d, k)
  BY LinesAtPlaces
<1>3. \A d \in 1..n : \A k \in 1..cells[d] + 1 : ToCell(cells, S(d) + k) = row(d, k)
  BY CellOfALine
<1>4. \A i \in 1..S(n + 1) : \E d \in 1..n : \E k \in 1..cells[d] + 1 : i = S(d) + k
  BY <1>0, EveryLineIsOfACell
<1>5. \A c \in 1..n : S(c) + cells[c] + 1 <= S(n + 1)
  <2>1. ASSUME NEW c \in 1..n PROVE S(c) + cells[c] + 1 <= S(n + 1)
    <3>1. n + 1 \in 1..Len(cells) + 1 /\ c < n + 1
      OBVIOUS
    <3> QED
      BY <1>0, <3>1, StartsRise
  <2> QED
    BY <2>1
<1>6. 0 \notin DOMAIN cells
  OBVIOUS
<1> HIDE DEF n, S, lines, row
<1>7. ASSUME NEW i \in 1..Len(lines), NEW path \in {"none", "buffer"}
      PROVE  Located(cells, [path |-> path, line |-> i]) = lines[i]
  <2>1. PICK d \in 1..n : \E k \in 1..cells[d] + 1 : i = S(d) + k
    BY <1>2, <1>4
  <2>2. PICK k \in 1..cells[d] + 1 : i = S(d) + k
    BY <2>1
  <2>3. Located(cells, [path |-> path, line |-> i]) = ToCell(cells, i)
    BY DEF Located, External
  <2> QED
    BY <1>2, <1>3, <2>2, <2>3
<1>8. ASSUME NEW i \in 1..Len(lines)
      PROVE  Located(cells, [path |-> "file", line |-> i])[1] \notin DOMAIN cells
  <2>1. Located(cells, [path |-> "file", line |-> i])[1] = 0
    BY DEF Located, External
  <2> QED
    BY <1>6, <2>1
<1>9. ASSUME NEW c \in DOMAIN cells, NEW line \in 0..MaxLines + 1
      PROVE  \E i \in {Clamp(cells, ToAbsolute(cells, c, line))} :
                 i \in 1..Len(lines) /\ (line < cells[c] => lines[i] = <<c, line>>)
  <2> DEFINE a == S(c) + line + 1
             b == S(n + 1) - 1
  <2>1. c \in 1..n /\ line \in Nat /\ cells[c] \in Nat /\ S(c) \in Nat /\ S(n + 1) \in Nat
        /\ n + 1 \in 1..n + 1 /\ S(c) + cells[c] + 1 <= S(n + 1) /\ cells[c] >= 1
    BY <1>1, <1>5
  <2>2. a \in Nat /\ b \in Nat /\ b >= 1 /\ a >= 1 /\ S(n + 1) = b + 1
    BY <2>1, SMTT(30)
  <2>3. line < cells[c] => a <= b
    BY <2>1
  <2>4. Clamp(cells, ToAbsolute(cells, c, line)) = Max({1, Min({a, b})})
    BY DEF Clamp, ToAbsolute, S, n
  <2>5. a = S(c) + (line + 1)
    BY <2>1
  <2> HIDE DEF a, b
  <2>6. Min({a, b}) = IF a <= b THEN a ELSE b
    BY <2>2, MinOfTwo
  <2> DEFINE i == IF a <= b THEN a ELSE b
  <2>7. i \in Nat /\ i >= 1 /\ i <= b
    BY <2>2
  <2>8. Max({1, i}) = i
    <3> HIDE DEF i
    <3>1. Max({1, i}) = IF 1 <= i THEN i ELSE 1
      BY <2>7, MaxOfTwo
    <3> QED
      BY <2>7, <3>1
  <2>9. Clamp(cells, ToAbsolute(cells, c, line)) = i
    BY <2>4, <2>6, <2>8
  <2>10. i \in 1..Len(lines)
    <3> HIDE DEF i
    <3> QED
      BY <1>2, <2>2, <2>7
  <2>11. ASSUME line < cells[c] PROVE lines[i] = <<c, line>>
    <3>1. i = S(c) + (line + 1) /\ line + 1 \in 1..cells[c] + 1
      BY <2>1, <2>3, <2>5, <2>11
    <3>2. lines[i] = <<c, Min({line + 1, cells[c]}) - 1>>
      BY <1>2, <2>1, <3>1 DEF row
    <3>3. Min({line + 1, cells[c]}) = line + 1
      <4>1. line + 1 \in Nat /\ line + 1 <= cells[c]
        BY <2>1, <2>11
      <4> QED
        BY <2>1, <4>1, MinOfTwo
    <3>4. (line + 1) - 1 = line
      BY <2>1
    <3> QED
      BY <3>2, <3>3, <3>4
  <2> HIDE DEF i
  <2> QED
    BY <2>9, <2>10, <2>11
<1> QED
  BY <1>7, <1>8, <1>9 DEF PositionsAgree, lines

LEMMA SomeNotebook ==
    ASSUME notebook \in Notebooks
    PROVE  notebook \in Seq(Nat \ {0}) /\ Len(notebook) > 0 /\ MaxLines \in Nat
<1>1. MaxCells \in Nat /\ MaxLines \in Nat
  BY LspAssumption
<1>2. PICK n \in 1..MaxCells : notebook \in [1..n -> 1..MaxLines]
  BY DEF Notebooks
<1>3. n \in Nat /\ n > 0
  BY <1>1
<1> QED
  BY <1>1, <1>2, <1>3

\* Whatever the notebook: each line of the module is located at the line of the cell that it
\* shows, a blank line at the end of the cell before it, nothing of another file in a cell,
\* and every position the editor can name is a line of the module.
THEOREM PositionsStayAgreed == LspSpec => []PositionsAgree
<1>1. LspInit => notebook \in Notebooks
  BY DEF LspInit
<1>2. notebook \in Notebooks /\ [LspNext]_lspVars => (notebook \in Notebooks)'
  BY DEF LspNext, lspVars, AskLsp, RefuseLsp, TakeThread, EndUnwanted, EndFails, EndOther,
     EndNothing, EndSuperseded, EndFound, EndAsksKernel, KernelAnswers, LspTimeout
<1>3. notebook \in Notebooks => PositionsAgree
  BY SomeNotebook, PositionsOf
<1> QED
  BY <1>1, <1>2, <1>3, PTL DEF LspSpec

-----------------------------------------------------------------------------
(* What the assistant is sent of a notebook. *)

\* What holds of 0, and of a number when it holds of the one before it
LEMMA UpTo ==
    ASSUME NEW n \in Nat, NEW G, 0 \in G, \A k \in 1..n : k - 1 \in G => k \in G
    PROVE  \A k \in 0..n : k \in G
<1> DEFINE T == {k \in 0..n : k \notin G}
<1>1. SUFFICES ASSUME T # {} PROVE FALSE
  OBVIOUS
<1>2. T \in SUBSET Nat
  OBVIOUS
<1>3. PICK k \in T : \A m \in T : k <= m
  <2> HIDE DEF T
  <2> QED
    BY <1>1, <1>2, MinExists
<1>4. k \in 0..n /\ k \notin G /\ k # 0
  OBVIOUS
<1>5. k \in 1..n /\ k - 1 \in 0..n /\ ~(k <= k - 1)
  BY <1>4
<1>6. k - 1 \notin T
  <2> HIDE DEF T
  <2> QED
    BY <1>3, <1>5
<1>7. k - 1 \in G
  BY <1>5, <1>6
<1> QED
  BY <1>4, <1>5, <1>7

\* A cell, whatever the request
AnyCell == [says : {"text", "import", "assign"}, what : {"a", "b"}, size : Nat]

LEMMA ContextNumbers ==
    /\ CellSizes \subseteq Nat /\ CellSizes # {} /\ Min(CellSizes) \in CellSizes
    /\ CharBudgets \subseteq Nat /\ NearCells \subseteq Nat
    /\ CellTrim \in Nat /\ TailTrim \in Nat /\ MinImports \in Nat /\ MinNames \in Nat
    /\ MaxNamed \in Nat /\ MaxNotebook \in Nat \ {0}
<1>1. CellSizes \subseteq Nat /\ CellSizes # {}
  BY ContextAssumption
<1>2. Min(CellSizes) \in CellSizes
  BY <1>1, MinIs
<1> QED
  BY <1>1, <1>2, ContextAssumption

LEMMA RequestFacts ==
    ASSUME ContextTypeOK
    PROVE  /\ request.cells \in Seq(AnyCell) /\ request.active \in Nat
           /\ request.cursor = NoCursor \/ request.cursor \in Nat
           /\ request.error \in Nat /\ request.files \in Nat /\ request.budget \in Nat
           /\ request.near \in Nat
<1>1. /\ request.cells \in Seq(Cells) /\ request.active \in 0..MaxNotebook - 1
      /\ request.cursor \in {Min(CellSizes), NoCursor}
      /\ request.error \in 0..1 /\ request.files \in {0, MaxNamed + 1}
      /\ request.budget \in CharBudgets /\ request.near \in NearCells
  BY DEF ContextTypeOK, Requests
<1>2. Cells \subseteq AnyCell
  <2>1. Min(CellSizes) \in Nat /\ CellSizes \subseteq Nat
    BY ContextNumbers
  <2>2. [says |-> "text", what |-> "a", size |-> Min(CellSizes)] \in AnyCell
    BY <2>1 DEF AnyCell
  <2>3. [says : {"import", "assign"}, what : {"a", "b"}, size : CellSizes] \subseteq AnyCell
    BY <2>1 DEF AnyCell
  <2> QED
    BY <2>2, <2>3 DEF Cells
<1>3. request.cells \in Seq(AnyCell)
  <2>1. \A c \in Seq(Cells) : c \in Seq(AnyCell)
    <3> HIDE DEF Cells, AnyCell
    <3> QED
      BY <1>2
  <2> QED
    BY <1>1, <2>1
<1>4. request.cursor = NoCursor \/ request.cursor \in Nat
  BY <1>1, ContextNumbers
<1>5. request.budget \in Nat /\ request.near \in Nat
  BY <1>1, ContextNumbers
<1>6. request.active \in Nat /\ request.error \in Nat
  BY <1>1
<1>7. request.files \in Nat
  BY <1>1, ContextNumbers
<1> QED
  BY <1>3, <1>4, <1>5, <1>6, <1>7

LEMMA ActiveFacts ==
    ASSUME ContextTypeOK
    PROVE  /\ Len(request.cells) \in Nat /\ ActiveIndex \in 0..Len(request.cells)
           /\ Earlier \in Nat /\ Earlier <= Len(request.cells)
           /\ \A k \in 1..Earlier : ActiveIndex - k \in 1..Earlier
           /\ \A k \in 1..Earlier : ActiveIndex - k = Earlier + 1 - k
<1>1. Len(request.cells) \in Nat /\ request.active + 1 \in Nat
  BY RequestFacts
<1>2. ActiveIndex = IF request.active + 1 <= Len(request.cells) THEN request.active + 1
                    ELSE Len(request.cells)
  BY <1>1, MinOfTwo DEF ActiveIndex
<1>3. ActiveIndex \in 0..Len(request.cells)
  BY <1>1, <1>2
<1>4. Earlier = (IF 1 <= ActiveIndex THEN ActiveIndex ELSE 1) - 1
  BY <1>1, <1>3, MaxOfTwo DEF Earlier
<1>5. Earlier = IF 1 <= ActiveIndex THEN ActiveIndex - 1 ELSE 0
  BY <1>3, <1>4
<1>6. \A k \in 1..Earlier : ActiveIndex - k \in 1..Earlier
  BY <1>1, <1>3, <1>5
<1>7. \A k \in 1..Earlier : ActiveIndex - k = Earlier + 1 - k
  BY <1>1, <1>3, <1>5
<1> QED
  BY <1>1, <1>3, <1>5, <1>6, <1>7

\* What a cell takes
LEMMA ClipOfACell ==
    ASSUME ContextTypeOK, NEW i \in 0..Len(request.cells)
    PROVE  CellSize(i) \in Nat /\ Clip(CellSize(i)) \in Nat
<1>1. CellSize(i) \in Nat
  <2>1. i # 0 => request.cells[i] \in AnyCell
    BY RequestFacts
  <2> QED
    BY <2>1 DEF CellSize, AnyCell
<1> QED
  BY <1>1, ContextNumbers, MinOfTwo DEF Clip

LEMMA SizesAtTheCursor ==
    ASSUME ContextTypeOK
    PROVE  CurrentSize \in Nat /\ CursorSize \in Nat
<1>1. CurrentSize \in Nat /\ CellSize(ActiveIndex) \in Nat
  BY ActiveFacts, ClipOfACell DEF CurrentSize
<1>2. CursorSize \in Nat
  <2>1. CASE request.cursor = NoCursor
    BY <2>1 DEF CursorSize
  <2>2. CASE request.cursor # NoCursor
    <3> DEFINE size == CellSize(ActiveIndex)
               off == Min({request.cursor, size})
    <3>1. request.cursor \in Nat
      BY <2>2, RequestFacts
    <3>2. off = IF request.cursor <= size THEN request.cursor ELSE size
      BY <1>1, <3>1, MinOfTwo
    <3>3. off \in Nat /\ size - off \in Nat
      BY <1>1, <3>1, <3>2
    <3>4. CursorSize = Clip(off) + Min({size - off, TailTrim})
      BY <2>2 DEF CursorSize
    <3> HIDE DEF off, size
    <3>5. Clip(off) \in Nat
      BY <3>3, ContextNumbers, MinOfTwo DEF Clip
    <3>6. Min({size - off, TailTrim}) \in Nat
      BY <3>3, ContextNumbers, MinOfTwo
    <3> QED
      BY <3>4, <3>5, <3>6
  <2> QED
    BY <2>1, <2>2
<1> QED
  BY <1>1, <1>2

Places == 1..Earlier

LEMMA ClipOfAPlace ==
    ASSUME ContextTypeOK, NEW i \in Places
    PROVE  Clip(CellSize(i)) \in Nat
<1>1. i \in 0..Len(request.cells)
  <2>1. Earlier \in Nat /\ Len(request.cells) \in Nat /\ Earlier <= Len(request.cells)
    BY ActiveFacts
  <2> QED
    BY <2>1 DEF Places
<1> QED
  BY <1>1, ClipOfACell

LEMMA CellsSizeIs ==
    ASSUME ContextTypeOK, NEW s \in Seq(Places)
    PROVE  \E sum : /\ CellsSize(s) = sum[Len(s)]
                    /\ sum[0] = 0
                    /\ \A k \in 1..Len(s) : sum[k] = sum[k - 1] + Clip(CellSize(s[k]))
                    /\ \A k \in 0..Len(s) : sum[k] \in Nat
<1> DEFINE n == Len(s)
           W(k) == Clip(CellSize(s[k]))
           step == [p \in Nat \X Nat |-> IF p[1] \in 1..n THEN p[2] + W(p[1]) ELSE 0]
           Is(f) == f = [k \in 0..n |-> IF k = 0 THEN 0 ELSE f[k - 1] + W(k)]
<1>1. n \in Nat /\ 0 \in Nat /\ 0 \in 0..n /\ n \in 0..n
  OBVIOUS
<1>2. \A k \in 1..n : W(k) \in Nat
  BY ClipOfAPlace
<1> HIDE DEF W, n
<1>3. step \in [Nat \X Nat -> Nat]
  <2>1. ASSUME NEW p \in Nat \X Nat
        PROVE  (IF p[1] \in 1..n THEN p[2] + W(p[1]) ELSE 0) \in Nat
    <3>1. p[1] \in Nat /\ p[2] \in Nat
      OBVIOUS
    <3> QED
      BY <1>2, <3>1
  <2> QED
    BY <2>1
<1>4. \A k \in Nat, x \in Nat : k \in 1..n => step[<<k, x>>] = x + W(k)
  OBVIOUS
<1> HIDE DEF step
<1> DEFINE g == Iterated(0, n, Nat, 0, step)
<1>5. g \in [0..n -> Nat] /\ Recursion(g, 0, n, 0, step)
  BY <1>1, <1>3, IteratedIs, Zenon
<1> HIDE DEF g
<1>6. Is(g)
  <2>1. ASSUME NEW k \in 0..n PROVE g[k] = IF k = 0 THEN 0 ELSE g[k - 1] + W(k)
    <3>1. g[k] = IF k = 0 THEN 0 ELSE step[<<k, g[k - 1]>>]
      BY <1>5 DEF Recursion
    <3>2. k # 0 => k \in 1..n /\ k \in Nat /\ k - 1 \in 0..n
      BY <1>1
    <3>3. k # 0 => g[k - 1] \in Nat
      BY <1>5, <3>2
    <3>4. k # 0 => step[<<k, g[k - 1]>>] = g[k - 1] + W(k)
      BY <1>4, <3>2, <3>3
    <3> QED
      BY <3>1, <3>4
  <2>2. g = [k \in 0..n |-> g[k]]
    BY <1>5
  <2> QED
    BY <2>1, <2>2
<1> DEFINE sum == CHOOSE f : Is(f)
<1>7. Is(sum)
  <2> HIDE DEF Is
  <2> QED
    BY <1>6
<1>8. CellsSize(s) = sum[n]
  BY DEF CellsSize, n, W
<1> HIDE DEF sum
<1>9. sum[0] = 0
  BY <1>1, <1>7
<1>10. \A k \in 1..n : sum[k] = sum[k - 1] + W(k)
  <2>1. \A k \in 1..n : k \in 0..n /\ k # 0
    OBVIOUS
  <2> QED
    BY <1>7, <2>1
<1>11. \A k \in 0..n : sum[k] \in Nat
  <2> DEFINE G == {k \in 0..n : sum[k] \in Nat}
  <2>1. 0 \in G
    BY <1>1, <1>9
  <2>2. ASSUME NEW k \in 1..n, k - 1 \in G PROVE k \in G
    <3>1. sum[k - 1] \in Nat /\ k \in 0..n
      BY <2>2
    <3> QED
      BY <1>2, <1>10, <3>1
  <2> HIDE DEF G
  <2>3. \A k \in 0..n : k \in G
    BY <1>1, <2>1, <2>2, UpTo
  <2> QED
    BY <2>3 DEF G
<1> QED
  BY <1>8, <1>9, <1>10, <1>11 DEF n, W

\* The first cell and the others
LEMMA CellsSizeOfTail ==
    ASSUME ContextTypeOK, NEW s \in Seq(Places), s # <<>>
    PROVE  /\ CellsSize(s) \in Nat /\ CellsSize(Tail(s)) \in Nat
           /\ CellsSize(s) = Clip(CellSize(s[1])) + CellsSize(Tail(s))
<1> DEFINE n == Len(s)
           W(k) == Clip(CellSize(s[k]))
           t == Tail(s)
<1>1. n \in Nat /\ n >= 1 /\ t \in Seq(Places) /\ Len(t) = n - 1 /\ \A k \in 1..n - 1 : t[k] = s[k + 1]
  OBVIOUS
<1>2. PICK sum : /\ CellsSize(s) = sum[n]
                 /\ sum[0] = 0
                 /\ \A k \in 1..n : sum[k] = sum[k - 1] + W(k)
                 /\ \A k \in 0..n : sum[k] \in Nat
  BY CellsSizeIs
<1> HIDE DEF t
<1>3. PICK rest : /\ CellsSize(t) = rest[n - 1]
                  /\ rest[0] = 0
                  /\ \A k \in 1..n - 1 : rest[k] = rest[k - 1] + Clip(CellSize(t[k]))
                  /\ \A k \in 0..n - 1 : rest[k] \in Nat
  BY <1>1, CellsSizeIs
<1>4. \A k \in 1..n : W(k) \in Nat
  BY ClipOfAPlace
<1>5. \A k \in 1..n - 1 : Clip(CellSize(t[k])) = W(k + 1)
  BY <1>1
<1> HIDE DEF n, W
<1> DEFINE G == {k \in 0..n - 1 : sum[k + 1] = W(1) + rest[k]}
<1>6. 0 \in G
  <2>1. 1 \in 1..n /\ 1 - 1 = 0 /\ 0 + 1 = 1 /\ 0 \in 0..n - 1
    BY <1>1
  <2>2. sum[1] = W(1)
    BY <1>2, <1>4, <2>1
  <2> QED
    BY <1>3, <1>4, <2>1, <2>2
<1>7. ASSUME NEW k \in 1..n - 1, k - 1 \in G PROVE k \in G
  <2>1. /\ k + 1 \in 1..n /\ (k + 1) - 1 = k /\ (k - 1) + 1 = k /\ k \in 1..n /\ k \in 0..n - 1
        /\ k - 1 \in 0..n - 1 /\ 1 \in 1..n
    BY <1>1
  <2>2. sum[k] = W(1) + rest[k - 1]
    BY <1>7, <2>1
  <2>3. sum[k + 1] = sum[k] + W(k + 1)
    BY <1>2, <2>1
  <2>4. rest[k] = rest[k - 1] + W(k + 1)
    BY <1>3, <1>5, <2>1
  <2>5. rest[k - 1] \in Nat /\ W(1) \in Nat /\ W(k + 1) \in Nat
    BY <1>3, <1>4, <2>1
  <2>6. \A a, b, c \in Nat : (a + b) + c = a + (b + c)
    OBVIOUS
  <2>7. sum[k + 1] = W(1) + rest[k]
    BY <2>2, <2>3, <2>4, <2>5, <2>6
  <2> QED
    BY <2>1, <2>7
<1>8. n - 1 \in G
  <2>1. n - 1 \in Nat /\ n - 1 \in 0..n - 1
    BY <1>1
  <2> HIDE DEF G
  <2>2. \A k \in 0..n - 1 : k \in G
    BY <1>6, <1>7, <2>1, UpTo
  <2> QED
    BY <2>1, <2>2
<1>9. sum[n] = W(1) + rest[n - 1]
  <2>1. (n - 1) + 1 = n
    BY <1>1
  <2> QED
    BY <1>8, <2>1
<1> HIDE DEF G
<1>10. n \in 0..n /\ n - 1 \in 0..n - 1
  BY <1>1
<1> QED
  BY <1>2, <1>3, <1>9, <1>10 DEF W, t

Name == {"a", "b"}

LEMMA AddNewIs ==
    ASSUME ContextTypeOK, NEW names \in Seq(Name), NEW i \in 1..Len(request.cells), NEW kinds
    PROVE  AddNew(names, i, kinds) \in Seq(Name)
<1>1. request.cells[i].what \in Name
  <2>1. request.cells[i] \in AnyCell
    BY RequestFacts
  <2> QED
    BY <2>1 DEF AnyCell, Name
<1> QED
  BY <1>1 DEF AddNew

LEMMA DistinctIs ==
    ASSUME ContextTypeOK, NEW kinds
    PROVE  Distinct(kinds) \in Seq(Name)
<1> DEFINE n == Len(request.cells)
           S == Seq(Name)
           step == [p \in Nat \X S |-> IF p[1] \in 1..n THEN AddNew(p[2], p[1], kinds) ELSE p[2]]
           Is(f) == f = [k \in 0..n |-> IF k = 0 THEN <<>> ELSE AddNew(f[k - 1], k, kinds)]
<1>1. n \in Nat /\ 0 \in Nat /\ 0 \in 0..n /\ n \in 0..n
  BY RequestFacts
<1>2. <<>> \in S
  OBVIOUS
<1>3. \A x \in S, k \in 1..n : AddNew(x, k, kinds) \in S
  BY AddNewIs
<1> HIDE DEF n, S
<1>4. step \in [Nat \X S -> S]
  <2>1. ASSUME NEW p \in Nat \X S
        PROVE  (IF p[1] \in 1..n THEN AddNew(p[2], p[1], kinds) ELSE p[2]) \in S
    <3>1. p[2] \in S
      OBVIOUS
    <3> QED
      BY <1>3, <3>1
  <2> QED
    BY <2>1
<1>5. \A k \in Nat, x \in S : k \in 1..n => step[<<k, x>>] = AddNew(x, k, kinds)
  OBVIOUS
<1> HIDE DEF step
<1> DEFINE g == Iterated(0, n, S, <<>>, step)
<1>6. g \in [0..n -> S] /\ Recursion(g, 0, n, <<>>, step)
  BY <1>1, <1>2, <1>4, IteratedIs, Zenon
<1> HIDE DEF g
<1>7. Is(g)
  <2>1. ASSUME NEW k \in 0..n PROVE g[k] = IF k = 0 THEN <<>> ELSE AddNew(g[k - 1], k, kinds)
    <3>1. g[k] = IF k = 0 THEN <<>> ELSE step[<<k, g[k - 1]>>]
      BY <1>6 DEF Recursion
    <3>2. k # 0 => k \in 1..n /\ k \in Nat /\ k - 1 \in 0..n
      BY <1>1
    <3>3. k # 0 => g[k - 1] \in S
      BY <1>6, <3>2
    <3>4. k # 0 => step[<<k, g[k - 1]>>] = AddNew(g[k - 1], k, kinds)
      BY <1>5, <3>2, <3>3
    <3> QED
      BY <3>1, <3>4
  <2>2. g = [k \in 0..n |-> g[k]]
    BY <1>6
  <2> QED
    BY <2>1, <2>2
<1> DEFINE names == CHOOSE f : Is(f)
<1>8. Is(names)
  <2> HIDE DEF Is
  <2> QED
    BY <1>7
<1>9. Distinct(kinds) = names[n]
  BY DEF Distinct, n
<1> HIDE DEF names
<1>10. names[0] = <<>>
  BY <1>1, <1>8
<1>11. \A k \in 1..n : names[k] = AddNew(names[k - 1], k, kinds)
  <2>1. \A k \in 1..n : k \in 0..n /\ k # 0
    OBVIOUS
  <2> QED
    BY <1>8, <2>1
<1> DEFINE G == {k \in 0..n : names[k] \in S}
<1>12. 0 \in G
  BY <1>1, <1>2, <1>10
<1>13. ASSUME NEW k \in 1..n, k - 1 \in G PROVE k \in G
  <2>1. names[k - 1] \in S /\ k \in 0..n
    BY <1>13
  <2> QED
    BY <1>3, <1>11, <2>1
<1>14. n \in G
  <2> HIDE DEF G
  <2> QED
    BY <1>1, <1>12, <1>13, UpTo
<1> QED
  BY <1>9, <1>14 DEF S

-----------------------------------------------------------------------------
(* The walk back. *)

Full(acc) == Len(acc.taken) >= request.near \/ acc.used >= request.budget

Accs == [taken : Seq(Places), used : Nat]

Rising(taken) == \A k, m \in DOMAIN taken : k < m => taken[k] < taken[m]

From(i) == {j \in i..Earlier : Relevant(j)}

LEMMA OneBefore ==
    ASSUME NEW taken \in Seq(Places), Rising(taken), Earlier \in Nat, NEW i \in Places,
           \A j \in Range(taken) : i < j
    PROVE  /\ <<i>> \o taken \in Seq(Places)
           /\ Rising(<<i>> \o taken)
           /\ Range(<<i>> \o taken) = {i} \cup Range(taken)
<1> DEFINE r == <<i>> \o taken
           n == Len(taken)
<1>1. /\ n \in Nat /\ DOMAIN taken = 1..n /\ \A k \in 1..n : taken[k] \in Places
      /\ r \in Seq(Places) /\ DOMAIN r = 1..n + 1 /\ r[1] = i
      /\ \A k \in 2..n + 1 : r[k] = taken[k - 1]
  OBVIOUS
<1>2. Places \subseteq Nat /\ i \in Nat
  BY DEF Places
<1> HIDE DEF r, n
<1>3. \A k \in 1..n : taken[k] \in Range(taken)
  BY <1>1 DEF Range
<1>4. Rising(r)
  <2>1. ASSUME NEW k \in 1..n + 1, NEW m \in 1..n + 1, k < m PROVE r[k] < r[m]
    <3>1. m \in 2..n + 1 /\ m - 1 \in 1..n
      BY <1>1, <2>1
    <3>2. CASE k = 1
      BY <1>1, <1>3, <3>1, <3>2
    <3>3. CASE k # 1
      <4>1. k \in 2..n + 1 /\ k - 1 \in 1..n /\ k - 1 < m - 1
        BY <1>1, <2>1, <3>3
      <4> QED
        BY <1>1, <3>1, <4>1 DEF Rising
    <3> QED
      BY <3>2, <3>3
  <2> QED
    BY <1>1, <2>1 DEF Rising
<1>5. Range(r) = {i} \cup Range(taken)
  <2>1. ASSUME NEW k \in 1..n + 1 PROVE r[k] \in {i} \cup Range(taken)
    <3>1. CASE k = 1
      BY <1>1, <3>1
    <3>2. CASE k # 1
      <4>1. k \in 2..n + 1 /\ k - 1 \in 1..n
        BY <1>1, <3>2
      <4> QED
        BY <1>1, <1>3, <4>1
    <3> QED
      BY <3>1, <3>2
  <2>2. ASSUME NEW k \in 1..n PROVE taken[k] \in Range(r)
    <3>1. k + 1 \in 2..n + 1 /\ (k + 1) - 1 = k /\ k + 1 \in 1..n + 1
      BY <1>1
    <3>2. r[k + 1] = taken[k]
      BY <1>1, <3>1
    <3> QED
      BY <1>1, <3>1, <3>2 DEF Range
  <2>3. i \in Range(r)
    <3>1. 1 \in 1..n + 1
      BY <1>1
    <3> QED
      BY <1>1, <3>1 DEF Range
  <2>4. Range(r) \subseteq {i} \cup Range(taken)
    BY <1>1, <2>1 DEF Range
  <2>5. Range(taken) \subseteq Range(r)
    BY <1>1, <2>2 DEF Range
  <2> QED
    BY <2>3, <2>4, <2>5
<1> QED
  BY <1>1, <1>4, <1>5 DEF r

\* What the walk has when it has looked at the cells from i on
Walked(acc, i) ==
    /\ acc \in Accs /\ Rising(acc.taken)
    /\ \E from \in i..Earlier + 1 : Range(acc.taken) = From(from) /\ (from = i \/ Full(acc))

LEMMA WalkOn ==
    ASSUME ContextTypeOK, NEW i \in Places, NEW acc, Walked(acc, i + 1)
    PROVE  Walked(Walk(acc, i), i)
<1>1. Earlier \in Nat /\ i \in 1..Earlier
  BY ActiveFacts DEF Places
<1>2. /\ acc \in Accs /\ Rising(acc.taken) /\ acc.taken \in Seq(Places) /\ acc.used \in Nat
  BY DEF Walked, Accs
<1>3. PICK from \in i + 1..Earlier + 1 :
         Range(acc.taken) = From(from) /\ (from = i + 1 \/ Full(acc))
  BY DEF Walked
<1>4. from \in i..Earlier + 1
  BY <1>1, <1>3
<1>5. CASE Full(acc)
  <2>1. Walk(acc, i) = acc
    BY <1>5 DEF Walk, Full
  <2> QED
    BY <1>2, <1>3, <1>4, <1>5, <2>1 DEF Walked
<1>6. CASE ~Full(acc)
  <2>1. from = i + 1
    BY <1>3, <1>6
  <2>2. From(i) = From(i + 1) \cup (IF Relevant(i) THEN {i} ELSE {})
    <3>1. \A j : j \in i..Earlier <=> j = i \/ j \in i + 1..Earlier
      BY <1>1
    <3> QED
      BY <3>1 DEF From
  <2>3. i \in i..Earlier + 1
    BY <1>1
  <2>4. CASE ~Relevant(i)
    <3>1. Walk(acc, i) = acc
      BY <2>4 DEF Walk
    <3>2. Range(acc.taken) = From(i)
      BY <1>3, <2>1, <2>2, <2>4
    <3> QED
      BY <1>2, <2>3, <3>1, <3>2 DEF Walked
  <2>5. CASE Relevant(i)
    <3> DEFINE t == <<i>> \o acc.taken
               u == acc.used + Clip(CellSize(i))
    <3>1. Walk(acc, i) = [taken |-> t, used |-> u]
      BY <1>6, <2>5 DEF Walk, Full
    <3>2. \A j \in Range(acc.taken) : i < j
      BY <1>1, <1>3, <2>1 DEF From
    <3>3. t \in Seq(Places) /\ Rising(t) /\ Range(t) = {i} \cup Range(acc.taken)
      BY <1>1, <1>2, <3>2, OneBefore
    <3>4. u \in Nat
      BY <1>2, ClipOfAPlace
    <3> HIDE DEF t, u
    <3>5. Walk(acc, i) \in Accs /\ Walk(acc, i).taken = t
      BY <3>1, <3>3, <3>4 DEF Accs
    <3>6. Range(t) = From(i)
      BY <1>3, <2>1, <2>2, <2>5, <3>3
    <3> QED
      BY <2>3, <3>3, <3>5, <3>6 DEF Walked
  <2> QED
    BY <2>4, <2>5
<1> QED
  BY <1>5, <1>6

LEMMA PrecedingIs ==
    ASSUME ContextTypeOK
    PROVE  Preceding \in Seq(Places) /\ NearestRelevant(Preceding)
<1> DEFINE n == Earlier
           first == [taken |-> <<>>, used |-> CurrentSize + CursorSize]
           step == [p \in Nat \X Accs |->
                      IF p[1] \in 1..n THEN Walk(p[2], ActiveIndex - p[1]) ELSE p[2]]
           Is(f) == f = [k \in 0..n |-> IF k = 0 THEN first ELSE Walk(f[k - 1], ActiveIndex - k)]
<1>1. n \in Nat /\ 0 \in Nat /\ 0 \in 0..n /\ n \in 0..n
  BY ActiveFacts
<1>2. \A k \in 1..n : ActiveIndex - k \in Places /\ ActiveIndex - k = n + 1 - k
  BY ActiveFacts DEF Places
<1>3. first \in Accs
  <2>1. CurrentSize + CursorSize \in Nat
    BY SizesAtTheCursor
  <2> QED
    BY <2>1 DEF Accs
<1>4. \A acc \in Accs, i \in Places : Walk(acc, i) \in Accs
  <2>1. ASSUME NEW acc \in Accs, NEW i \in Places PROVE Walk(acc, i) \in Accs
    <3>1. acc.taken \in Seq(Places) /\ acc.used \in Nat
      BY DEF Accs
    <3>2. <<i>> \o acc.taken \in Seq(Places) /\ acc.used + Clip(CellSize(i)) \in Nat
      BY <3>1, ClipOfAPlace
    <3>3. [taken |-> <<i>> \o acc.taken, used |-> acc.used + Clip(CellSize(i))] \in Accs
      BY <3>2 DEF Accs
    <3> QED
      BY <3>3 DEF Walk
  <2> QED
    BY <2>1
<1>5. Walked(first, n + 1)
  <2>1. first.taken = <<>> /\ Rising(<<>>) /\ Range(<<>>) = {}
    BY DEF Rising, Range
  <2>2. From(n + 1) = {} /\ n + 1 \in n + 1..Earlier + 1
    BY <1>1 DEF From
  <2> HIDE DEF first
  <2> QED
    BY <1>3, <2>1, <2>2 DEF Walked
<1> HIDE DEF n, first
<1>6. step \in [Nat \X Accs -> Accs]
  <2>1. ASSUME NEW p \in Nat \X Accs
        PROVE  (IF p[1] \in 1..n THEN Walk(p[2], ActiveIndex - p[1]) ELSE p[2]) \in Accs
    <3>1. p[2] \in Accs
      OBVIOUS
    <3> QED
      BY <1>2, <1>4, <3>1
  <2> QED
    BY <2>1
<1>7. \A k \in Nat, x \in Accs : k \in 1..n => step[<<k, x>>] = Walk(x, ActiveIndex - k)
  OBVIOUS
<1> HIDE DEF step
<1> DEFINE g == Iterated(0, n, Accs, first, step)
<1>8. g \in [0..n -> Accs] /\ Recursion(g, 0, n, first, step)
  BY <1>1, <1>3, <1>6, IteratedIs, Zenon
<1> HIDE DEF g
<1>9. Is(g)
  <2>1. ASSUME NEW k \in 0..n
        PROVE  g[k] = IF k = 0 THEN first ELSE Walk(g[k - 1], ActiveIndex - k)
    <3>1. g[k] = IF k = 0 THEN first ELSE step[<<k, g[k - 1]>>]
      BY <1>8 DEF Recursion
    <3>2. k # 0 => k \in 1..n /\ k \in Nat /\ k - 1 \in 0..n
      BY <1>1
    <3>3. k # 0 => g[k - 1] \in Accs
      BY <1>8, <3>2
    <3>4. k # 0 => step[<<k, g[k - 1]>>] = Walk(g[k - 1], ActiveIndex - k)
      BY <1>7, <3>2, <3>3
    <3> QED
      BY <3>1, <3>4
  <2>2. g = [k \in 0..n |-> g[k]]
    BY <1>8
  <2> QED
    BY <2>1, <2>2
<1> DEFINE walked == CHOOSE f : Is(f)
<1>10. Is(walked)
  <2> HIDE DEF Is
  <2> QED
    BY <1>9
<1>11. Preceding = walked[n].taken
  BY DEF Preceding, n, first
<1> HIDE DEF walked
<1>12. walked[0] = first
  BY <1>1, <1>10
<1>13. \A k \in 1..n : walked[k] = Walk(walked[k - 1], ActiveIndex - k)
  <2>1. \A k \in 1..n : k \in 0..n /\ k # 0
    OBVIOUS
  <2> QED
    BY <1>10, <2>1
<1> DEFINE G == {k \in 0..n : Walked(walked[k], n + 1 - k)}
<1>14. 0 \in G
  <2>1. n + 1 - 0 = n + 1
    BY <1>1
  <2> QED
    BY <1>1, <1>5, <1>12, <2>1
<1>15. ASSUME NEW k \in 1..n, k - 1 \in G PROVE k \in G
  <2> DEFINE i == ActiveIndex - k
  <2>1. i \in Places /\ i = n + 1 - k /\ n + 1 - (k - 1) = (n + 1 - k) + 1 /\ k \in 0..n
    BY <1>1, <1>2
  <2>2. Walked(walked[k - 1], n + 1 - (k - 1))
    BY <1>15
  <2>3. walked[k] = Walk(walked[k - 1], i)
    BY <1>13
  <2> HIDE DEF i
  <2>4. Walked(walked[k - 1], i + 1)
    BY <2>1, <2>2
  <2>5. Walked(walked[k], i)
    BY <2>1, <2>3, <2>4, WalkOn
  <2> QED
    BY <2>1, <2>5
<1>16. n \in G
  <2> HIDE DEF G
  <2> QED
    BY <1>1, <1>14, <1>15, UpTo
<1>17. Walked(walked[n], n + 1 - n) /\ n + 1 - n = 1
  BY <1>1, <1>16
<1>18. Walked(walked[n], 1)
  BY <1>17
<1> HIDE DEF G
<1> QED
  <2>1. Preceding \in Seq(Places) /\ Rising(Preceding)
    BY <1>11, <1>18 DEF Walked, Accs
  <2>2. \E from \in 1..Earlier + 1 : Range(Preceding) = From(from)
    BY <1>11, <1>18 DEF Walked
  <2> QED
    BY <2>1, <2>2 DEF NearestRelevant, Rising, From

\* Without the farthest cell
LEMMA NearestOfTail ==
    ASSUME Earlier \in Nat, NEW taken \in Seq(Places), NearestRelevant(taken), taken # <<>>
    PROVE  Tail(taken) \in Seq(Places) /\ NearestRelevant(Tail(taken))
<1> DEFINE n == Len(taken)
           t == Tail(taken)
           j == taken[1]
<1>1. /\ n \in Nat /\ n >= 1 /\ DOMAIN taken = 1..n /\ DOMAIN t = 1..n - 1 /\ t \in Seq(Places)
      /\ \A k \in 1..n - 1 : t[k] = taken[k + 1]
      /\ j \in Places /\ \A k \in 1..n : taken[k] \in Places
  OBVIOUS
<1>2. PICK from \in 1..Earlier + 1 : Range(taken) = From(from)
  BY DEF NearestRelevant, From
<1>3. \A k, m \in 1..n : k < m => taken[k] < taken[m]
  BY <1>1 DEF NearestRelevant
<1>4. j \in 1..Earlier /\ j + 1 \in 1..Earlier + 1
  BY <1>1 DEF Places
<1> HIDE DEF t, n, j
<1>5. \A k \in 2..n : j < taken[k]
  BY <1>1, <1>3 DEF j
<1>6. \A k, m \in 1..n - 1 : k < m => t[k] < t[m]
  <2>1. ASSUME NEW k \in 1..n - 1, NEW m \in 1..n - 1, k < m PROVE t[k] < t[m]
    <3>1. k + 1 \in 1..n /\ m + 1 \in 1..n /\ k + 1 < m + 1
      BY <1>1, <2>1
    <3> QED
      BY <1>1, <1>3, <3>1
  <2> QED
    BY <2>1
<1>7. Range(taken) = {j} \cup Range(t)
  <2>1. ASSUME NEW k \in 1..n PROVE taken[k] \in {j} \cup Range(t)
    <3>1. CASE k = 1
      BY <3>1 DEF j
    <3>2. CASE k # 1
      <4>1. k - 1 \in 1..n - 1 /\ (k - 1) + 1 = k
        BY <1>1, <3>2
      <4> QED
        BY <1>1, <4>1 DEF Range
    <3> QED
      BY <3>1, <3>2
  <2>2. ASSUME NEW k \in 1..n - 1 PROVE t[k] \in Range(taken)
    <3>1. k + 1 \in 1..n
      BY <1>1
    <3> QED
      BY <1>1, <3>1 DEF Range
  <2>3. j \in Range(taken)
    <3>1. 1 \in 1..n
      BY <1>1
    <3> QED
      BY <1>1, <3>1 DEF Range, j
  <2>4. Range(taken) \subseteq {j} \cup Range(t)
    BY <1>1, <2>1 DEF Range
  <2>5. Range(t) \subseteq Range(taken)
    BY <1>1, <2>2 DEF Range
  <2> QED
    BY <2>3, <2>4, <2>5
<1>8. \A x \in Range(t) : j < x
  <2>1. ASSUME NEW k \in 1..n - 1 PROVE j < t[k]
    <3>1. k + 1 \in 2..n
      BY <1>1
    <3> QED
      BY <1>1, <1>5, <3>1
  <2> QED
    BY <1>1, <2>1 DEF Range
<1>9. Range(t) = From(j + 1)
  <2>1. ASSUME NEW x \in Range(t) PROVE x \in From(j + 1)
    <3>1. x \in From(from) /\ j < x
      BY <1>2, <1>7, <1>8
    <3> QED
      BY <1>4, <3>1 DEF From
  <2>2. ASSUME NEW x \in From(j + 1) PROVE x \in Range(t)
    <3>1. j \in From(from)
      BY <1>2, <1>7
    <3>2. x \in from..Earlier /\ Relevant(x) /\ x # j
      BY <1>2, <1>4, <3>1 DEF From
    <3>3. x \in Range(taken)
      BY <1>2, <3>2 DEF From
    <3> QED
      BY <1>7, <3>2, <3>3
  <2> QED
    BY <2>1, <2>2
<1>10. NearestRelevant(t)
  BY <1>1, <1>4, <1>6, <1>9 DEF NearestRelevant, From
<1> QED
  BY <1>1, <1>10 DEF t

Contexts ==
    [imports : Seq(Name), names : Seq(Name), preceding : Seq(Places), files : Seq(Nat)]

Item == {"import", "name", "cell", "file"} \X (Name \cup Nat)

\* What Expendable puts together
Spare(kind, names, least) ==
    [k \in 1..Len(names) - Min({least, Len(names)}) |-> <<kind, names[least + k]>>]

Nearer(taken) == [k \in 1..Len(taken) |-> <<"cell", taken[Len(taken) + 1 - k]>>]

Numbered(files) == [k \in 1..Len(files) |-> <<"file", k>>]

LEMMA ExpendableIs ==
    ASSUME NEW s
    PROVE  Expendable(s) = Spare("import", s.imports, MinImports) \o Spare("name", s.names, MinNames)
                             \o Nearer(s.preceding) \o Numbered(s.files)
  BY DEF Expendable, Spare, Nearer, Numbered

LEMMA FrontIs ==
    ASSUME NEW S, NEW Y \in Seq(S), Y # <<>>
    PROVE  /\ Len(Y) \in Nat /\ Len(Y) >= 1
           /\ Front(Y) \in Seq(S) /\ Len(Front(Y)) = Len(Y) - 1
           /\ \A k \in 1..Len(Y) - 1 : Front(Y)[k] = Y[k]
           /\ Front(Y) = [k \in 1..Len(Y) - 1 |-> Y[k]]
<1> DEFINE n == Len(Y) - 1
<1>1. n \in Nat /\ n \in Int /\ 1 \in Int /\ Len(Y) \in Nat /\ Len(Y) >= 1 /\ n - 1 + 1 = n
  OBVIOUS
<1>2. \A k \in 1..n : Y[k] \in S
  OBVIOUS
<1>3. \A k \in 1..n : 1 + k - 1 = k
  OBVIOUS
<1>4. Front(Y) = SubSeq(Y, 1, n)
  BY DEF Front
<1> HIDE DEF n
<1>5. /\ Front(Y) \in Seq(S) /\ Len(Front(Y)) = (IF 1 <= n THEN n - 1 + 1 ELSE 0)
      /\ \A k \in 1..n - 1 + 1 : Front(Y)[k] = Y[1 + k - 1]
  BY <1>1, <1>2, <1>4, SubSeqProperties
<1>6. Len(Front(Y)) = n /\ \A k \in 1..n : Front(Y)[k] = Y[k]
  BY <1>1, <1>3, <1>5
<1>7. Front(Y) = [k \in 1..n |-> Y[k]]
  BY <1>5, <1>6
<1> QED
  BY <1>1, <1>5, <1>6, <1>7 DEF n

LEMMA SeqByIndex ==
    ASSUME NEW S, NEW m \in Nat, NEW X \in [1..m -> S]
    PROVE  X \in Seq(S) /\ Len(X) = m
  OBVIOUS

LEMMA FrontOfBoth ==
    ASSUME NEW S, NEW X \in Seq(S), NEW Y \in Seq(S), Y # <<>>
    PROVE  /\ X \o Y \in Seq(S) /\ X \o Y # <<>>
           /\ Front(Y) \in Seq(S) /\ Front(X \o Y) = X \o Front(Y)
           /\ Last(X \o Y) = Last(Y)
<1>1. Len(X) \in Nat /\ Len(Y) \in Nat /\ Len(Y) >= 1 /\ X \o Y \in Seq(S)
      /\ Len(X \o Y) = Len(X) + Len(Y)
      /\ \A k \in 1..Len(X) + Len(Y) : (X \o Y)[k] = IF k <= Len(X) THEN X[k] ELSE Y[k - Len(X)]
  OBVIOUS
<1>2. X \o Y # <<>>
  BY <1>1
<1>3. Front(Y) \in Seq(S) /\ Len(Front(Y)) = Len(Y) - 1 /\ \A k \in 1..Len(Y) - 1 : Front(Y)[k] = Y[k]
  BY FrontIs
<1>4. /\ Front(X \o Y) \in Seq(S) /\ Len(Front(X \o Y)) = Len(X) + Len(Y) - 1
      /\ \A k \in 1..Len(X) + Len(Y) - 1 : Front(X \o Y)[k] = (X \o Y)[k]
  <2> DEFINE c == X \o Y
  <2>1. c \in Seq(S) /\ c # <<>> /\ Len(c) = Len(X) + Len(Y)
    BY <1>1, <1>2
  <2> HIDE DEF c
  <2>2. /\ Front(c) \in Seq(S) /\ Len(Front(c)) = Len(c) - 1
        /\ \A k \in 1..Len(c) - 1 : Front(c)[k] = c[k]
    BY <2>1, FrontIs
  <2> QED
    BY <2>1, <2>2 DEF c
<1>5. /\ X \o Front(Y) \in Seq(S) /\ Len(X \o Front(Y)) = Len(X) + (Len(Y) - 1)
      /\ \A k \in 1..Len(X) + (Len(Y) - 1) :
            (X \o Front(Y))[k] = IF k <= Len(X) THEN X[k] ELSE Front(Y)[k - Len(X)]
  <2> DEFINE f == Front(Y)
  <2>1. f \in Seq(S) /\ Len(f) = Len(Y) - 1
    BY <1>3
  <2> HIDE DEF f
  <2>2. /\ X \o f \in Seq(S) /\ Len(X \o f) = Len(X) + Len(f)
        /\ \A k \in 1..Len(X) + Len(f) : (X \o f)[k] = IF k <= Len(X) THEN X[k] ELSE f[k - Len(X)]
    BY <2>1, ConcatProperties
  <2> QED
    BY <2>1, <2>2 DEF f
<1>6. Front(X \o Y) = X \o Front(Y)
  <2> DEFINE a == Front(X \o Y)
             b == X \o Front(Y)
             x == Len(X)
             y == Len(Y)
             c == X \o Y
             f == Front(Y)
  <2>1. /\ a \in Seq(S) /\ b \in Seq(S) /\ x \in Nat /\ y \in Nat /\ y >= 1
        /\ Len(a) = x + y - 1 /\ Len(b) = x + (y - 1)
        /\ \A k \in 1..x + y : c[k] = IF k <= x THEN X[k] ELSE Y[k - x]
        /\ \A k \in 1..x + y - 1 : a[k] = c[k]
        /\ \A k \in 1..x + (y - 1) : b[k] = IF k <= x THEN X[k] ELSE f[k - x]
        /\ \A k \in 1..y - 1 : f[k] = Y[k]
    BY <1>1, <1>3, <1>4, <1>5
  <2> HIDE DEF a, b, c, f, x, y
  <2>2. x + (y - 1) = x + y - 1 /\ Len(a) = Len(b)
    BY <2>1
  <2>3. ASSUME NEW k \in 1..x + y - 1 PROVE a[k] = b[k]
    <3>1. k \in 1..x + y /\ k \in 1..x + (y - 1) /\ (k <= x \/ k - x \in 1..y - 1)
      BY <2>1
    <3> QED
      BY <2>1, <3>1
  <2>4. \A k \in 1..Len(a) : a[k] = b[k]
    BY <2>1, <2>3
  <2>5. a = b
    BY <2>1, <2>2, <2>4, SeqEqual
  <2> QED
    BY <2>5 DEF a, b
<1>7. Last(X \o Y) = Last(Y)
  <2>1. Len(X) + Len(Y) \in 1..Len(X) + Len(Y) /\ ~(Len(X) + Len(Y) <= Len(X))
        /\ Len(X) + Len(Y) - Len(X) = Len(Y)
    BY <1>1
  <2> QED
    BY <1>1, <2>1 DEF Last
<1> QED
  BY <1>1, <1>2, <1>3, <1>6, <1>7

LEMMA SpareIs ==
    ASSUME NEW kind \in {"import", "name"}, NEW names \in Seq(Name), NEW least \in Nat
    PROVE  /\ Spare(kind, names, least) \in Seq(Item)
           /\ Len(names) <= least => Spare(kind, names, least) = <<>>
           /\ Len(names) > least =>
                 /\ Spare(kind, names, least) # <<>>
                 /\ Last(Spare(kind, names, least))[1] = kind
                 /\ Front(names) \in Seq(Name) /\ Len(Front(names)) = Len(names) - 1
                 /\ Spare(kind, Front(names), least) = Front(Spare(kind, names, least))
<1> DEFINE n == Len(names)
           m == IF least <= n THEN n - least ELSE 0
           X == Spare(kind, names, least)
<1>1. n \in Nat /\ m \in Nat
  OBVIOUS
<1>2. \A seq \in Seq(Name) : Spare(kind, seq, least) =
         [k \in 1..(IF least <= Len(seq) THEN Len(seq) - least ELSE 0) |-> <<kind, seq[least + k]>>]
  <2>1. ASSUME NEW seq \in Seq(Name)
        PROVE  Spare(kind, seq, least) =
         [k \in 1..(IF least <= Len(seq) THEN Len(seq) - least ELSE 0) |-> <<kind, seq[least + k]>>]
    <3>1. Len(seq) \in Nat
      OBVIOUS
    <3>2. Min({least, Len(seq)}) = IF least <= Len(seq) THEN least ELSE Len(seq)
      BY <3>1, MinOfTwo
    <3>3. Len(seq) - Min({least, Len(seq)}) = IF least <= Len(seq) THEN Len(seq) - least ELSE 0
      BY <3>1, <3>2
    <3> QED
      BY <3>3 DEF Spare
  <2> QED
    BY <2>1
<1>3. X = [k \in 1..m |-> <<kind, names[least + k]>>]
  BY <1>2
<1>4. \A k \in 1..m : least + k \in 1..n
  BY <1>1
<1>5. \A k \in 1..m : <<kind, names[least + k]>> \in Item
  BY <1>4 DEF Item
<1> HIDE DEF X, m
<1>6. X \in Seq(Item) /\ Len(X) = m /\ \A k \in 1..m : X[k] = <<kind, names[least + k]>>
  <2>1. X \in [1..m -> Item]
    BY <1>3, <1>5
  <2> QED
    BY <1>1, <1>3, <2>1, SeqByIndex
<1>7. ASSUME n <= least PROVE X = <<>>
  <2>1. m = 0
    BY <1>1, <1>7 DEF m
  <2> QED
    BY <1>6, <2>1
<1>8. ASSUME n > least
      PROVE  /\ X # <<>> /\ Last(X)[1] = kind
             /\ Front(names) \in Seq(Name) /\ Len(Front(names)) = n - 1
             /\ Spare(kind, Front(names), least) = Front(X)
  <2>1. m = n - least /\ m >= 1 /\ m \in 1..m
    BY <1>1, <1>8 DEF m
  <2>2. X # <<>> /\ Last(X)[1] = kind
    BY <1>6, <2>1 DEF Last
  <2>3. /\ Front(names) \in Seq(Name) /\ Len(Front(names)) = n - 1
        /\ \A k \in 1..n - 1 : Front(names)[k] = names[k]
    <3>1. names # <<>>
      BY <1>1, <1>8
    <3> QED
      BY <3>1, FrontIs
  <2>4. Front(X) = [k \in 1..m - 1 |-> X[k]]
    BY <1>6, <2>2, FrontIs
  <2>5. (IF least <= n - 1 THEN n - 1 - least ELSE 0) = m - 1
    BY <1>1, <1>8, <2>1
  <2>6. Spare(kind, Front(names), least) = [k \in 1..m - 1 |-> <<kind, Front(names)[least + k]>>]
    BY <1>2, <2>3, <2>5
  <2>7. \A k \in 1..m - 1 : X[k] = <<kind, Front(names)[least + k]>>
    <3>1. \A k \in 1..m - 1 : k \in 1..m /\ least + k \in 1..n - 1
      BY <1>1, <2>1
    <3> QED
      BY <1>6, <2>3, <3>1
  <2> QED
    BY <2>2, <2>3, <2>4, <2>6, <2>7
<1> QED
  BY <1>6, <1>7, <1>8 DEF X

LEMMA NearerIs ==
    ASSUME NEW taken \in Seq(Places), Earlier \in Nat
    PROVE  /\ Nearer(taken) \in Seq(Item)
           /\ taken = <<>> => Nearer(taken) = <<>>
           /\ taken # <<>> => /\ Nearer(taken) # <<>>
                              /\ Last(Nearer(taken)) = <<"cell", taken[1]>>
                              /\ Nearer(Tail(taken)) = Front(Nearer(taken))
<1> DEFINE n == Len(taken)
           X == Nearer(taken)
<1>1. n \in Nat
  OBVIOUS
<1>2. \A k \in 1..n : <<"cell", taken[n + 1 - k]>> \in Item
  <2>1. \A k \in 1..n : n + 1 - k \in 1..n
    BY <1>1
  <2>2. \A k \in 1..n : taken[k] \in Nat
    BY DEF Places
  <2> HIDE DEF n
  <2> QED
    BY <2>1, <2>2 DEF Item
<1>3. X = [k \in 1..n |-> <<"cell", taken[n + 1 - k]>>]
  BY DEF Nearer
<1> HIDE DEF X
<1>4. X \in Seq(Item) /\ Len(X) = n /\ \A k \in 1..n : X[k] = <<"cell", taken[n + 1 - k]>>
  <2> HIDE DEF n
  <2>1. X \in [1..n -> Item]
    BY <1>2, <1>3
  <2> QED
    BY <1>1, <1>3, <2>1, SeqByIndex
<1>5. taken = <<>> => X = <<>>
  BY <1>4
<1>6. ASSUME taken # <<>>
      PROVE  X # <<>> /\ Last(X) = <<"cell", taken[1]>> /\ Nearer(Tail(taken)) = Front(X)
  <2>1. n >= 1 /\ n \in 1..n /\ n + 1 - n = 1
    BY <1>1, <1>6
  <2>2. Tail(taken) \in Seq(Places) /\ Len(Tail(taken)) = n - 1
        /\ \A k \in 1..n - 1 : Tail(taken)[k] = taken[k + 1]
    BY <1>6
  <2> HIDE DEF n
  <2>3. X # <<>> /\ Last(X) = <<"cell", taken[1]>>
    BY <1>4, <2>1 DEF Last
  <2>4. Front(X) = [k \in 1..n - 1 |-> X[k]]
    BY <1>4, <2>3, FrontIs
  <2>5. Nearer(Tail(taken)) = [k \in 1..n - 1 |-> <<"cell", Tail(taken)[n - 1 + 1 - k]>>]
    BY <2>2 DEF Nearer
  <2>6. ASSUME NEW k \in 1..n - 1 PROVE X[k] = <<"cell", Tail(taken)[n - 1 + 1 - k]>>
    <3>1. k \in 1..n /\ n - 1 + 1 - k \in 1..n - 1 /\ (n - 1 + 1 - k) + 1 = n + 1 - k
      BY <1>1
    <3> QED
      BY <1>4, <2>2, <3>1
  <2> QED
    BY <2>3, <2>4, <2>5, <2>6
<1> QED
  BY <1>4, <1>5, <1>6 DEF X

LEMMA NumberedIs ==
    ASSUME NEW files \in Seq(Nat)
    PROVE  /\ Numbered(files) \in Seq(Item)
           /\ files = <<>> => Numbered(files) = <<>>
           /\ files # <<>> => /\ Numbered(files) # <<>>
                              /\ Last(Numbered(files))[1] = "file"
                              /\ Front(files) \in Seq(Nat) /\ Len(Front(files)) = Len(files) - 1
                              /\ Numbered(Front(files)) = Front(Numbered(files))
<1> DEFINE n == Len(files)
           X == Numbered(files)
<1>1. n \in Nat
  OBVIOUS
<1>2. X = [k \in 1..n |-> <<"file", k>>]
  BY DEF Numbered
<1>3. \A k \in 1..n : <<"file", k>> \in Item
  BY <1>1 DEF Item
<1> HIDE DEF X
<1>4. X \in Seq(Item) /\ Len(X) = n /\ \A k \in 1..n : X[k] = <<"file", k>>
  <2> HIDE DEF n
  <2>1. X \in [1..n -> Item]
    BY <1>2, <1>3
  <2>2. X \in Seq(Item) /\ Len(X) = n
    BY <1>1, <2>1, SeqByIndex
  <2> QED
    BY <1>2, <2>2
<1>5. files = <<>> => X = <<>>
  BY <1>4
<1>6. ASSUME files # <<>>
      PROVE  /\ X # <<>> /\ Last(X)[1] = "file"
             /\ Front(files) \in Seq(Nat) /\ Len(Front(files)) = n - 1
             /\ Numbered(Front(files)) = Front(X)
  <2>1. n >= 1 /\ n \in 1..n
    BY <1>1, <1>6
  <2>2. Front(files) \in Seq(Nat) /\ Len(Front(files)) = n - 1
    BY <1>6, FrontIs
  <2> HIDE DEF n
  <2>3. X # <<>> /\ Last(X)[1] = "file"
    BY <1>4, <2>1 DEF Last
  <2>4. Front(X) = [k \in 1..n - 1 |-> X[k]]
    BY <1>4, <2>3, FrontIs
  <2>5. Numbered(Front(files)) = [k \in 1..n - 1 |-> <<"file", k>>]
    BY <2>2 DEF Numbered
  <2>6. \A k \in 1..n - 1 : k \in 1..n
    BY <1>1
  <2> QED
    BY <1>4, <2>2, <2>3, <2>4, <2>5, <2>6
<1> QED
  BY <1>4, <1>5, <1>6 DEF X

LEMMA ContextFields ==
    ASSUME NEW s \in Contexts
    PROVE  /\ s.imports \in Seq(Name) /\ s.names \in Seq(Name) /\ s.preceding \in Seq(Places)
           /\ s.files \in Seq(Nat)
           /\ Len(s.imports) \in Nat /\ Len(s.names) \in Nat /\ Len(s.preceding) \in Nat
           /\ Len(s.files) \in Nat
  BY DEF Contexts

LEMMA PartsOf ==
    ASSUME ContextTypeOK, NEW s \in Contexts
    PROVE  /\ Spare("import", s.imports, MinImports) \in Seq(Item)
           /\ Spare("name", s.names, MinNames) \in Seq(Item)
           /\ Nearer(s.preceding) \in Seq(Item)
           /\ Numbered(s.files) \in Seq(Item)
<1>1. Earlier \in Nat
  BY ActiveFacts
<1> QED
  BY <1>1, ContextFields, SpareIs, NearerIs, NumberedIs, ContextNumbers

LEMMA ExpendableType ==
    ASSUME ContextTypeOK, NEW s \in Contexts
    PROVE  Expendable(s) \in Seq(Item)
<1> DEFINE A == Spare("import", s.imports, MinImports)
           B == Spare("name", s.names, MinNames)
           C == Nearer(s.preceding)
           D == Numbered(s.files)
<1>1. A \in Seq(Item) /\ B \in Seq(Item) /\ C \in Seq(Item) /\ D \in Seq(Item)
  BY PartsOf
<1>2. Expendable(s) = A \o B \o C \o D
  BY ExpendableIs
<1> HIDE DEF A, B, C, D
<1> QED
  BY <1>1, <1>2

\* The cut stops when there is nothing left that may go.
LEMMA NothingToDrop ==
    ASSUME ContextTypeOK, NEW s \in Contexts, ~Droppable(s)
    PROVE  Expendable(s) = <<>>
<1>1. /\ s.files = <<>> /\ s.preceding = <<>> /\ Len(s.names) <= MinNames
      /\ Len(s.imports) <= MinImports
  BY ContextFields, ContextNumbers DEF Droppable
<1>2. Earlier \in Nat
  BY ActiveFacts
<1>3. Spare("import", s.imports, MinImports) = <<>> /\ Spare("name", s.names, MinNames) = <<>>
  BY <1>1, ContextFields, ContextNumbers, SpareIs
<1>4. Nearer(s.preceding) = <<>> /\ Numbered(s.files) = <<>>
  BY <1>1, <1>2, ContextFields, NearerIs, NumberedIs
<1>5. Expendable(s) = <<>> \o <<>> \o <<>> \o <<>>
  BY <1>3, <1>4, ExpendableIs
<1> QED
  BY <1>5

\* What one round does to what may be cut, and to the total
DropsLast(s) ==
    /\ DropOne(s) \in Contexts
    /\ Items(s) \in Nat /\ Items(DropOne(s)) = Items(s) - 1
    /\ Expendable(s) # <<>>
    /\ Expendable(DropOne(s)) = Front(Expendable(s))
    /\ Total(s) \in Nat /\ Total(DropOne(s)) \in Nat
    /\ Total(s) = Total(DropOne(s)) + Weight(Last(Expendable(s)))
    /\ NearestRelevant(s.preceding) => NearestRelevant(DropOne(s).preceding)

LEMMA CellsSizeNat ==
    ASSUME ContextTypeOK, NEW s \in Seq(Places)
    PROVE  CellsSize(s) \in Nat
<1>1. CASE s = <<>>
  <2>1. PICK sum : CellsSize(s) = sum[Len(s)] /\ \A k \in 0..Len(s) : sum[k] \in Nat
    BY CellsSizeIs
  <2>2. Len(s) \in 0..Len(s)
    OBVIOUS
  <2> QED
    BY <2>1, <2>2
<1>2. CASE s # <<>>
  BY <1>2, CellsSizeOfTail
<1> QED
  BY <1>1, <1>2

\* The total in its parts
LEMMA TotalIs ==
    ASSUME ContextTypeOK, NEW s \in Contexts
    PROVE  \E fixed \in Nat :
              /\ fixed = CurrentSize + request.error
              /\ CellsSize(s.preceding) \in Nat
              /\ Total(s) = fixed + Len(s.imports) + Len(s.names) + CellsSize(s.preceding)
                              + Len(s.files)
              /\ Total(s) \in Nat
<1>1. CurrentSize \in Nat /\ request.error \in Nat /\ CellsSize(s.preceding) \in Nat
  BY SizesAtTheCursor, RequestFacts, CellsSizeNat, ContextFields
<1>2. Total(s) = CurrentSize + request.error + Len(s.imports) + Len(s.names)
                   + CellsSize(s.preceding) + Len(s.files)
  BY DEF Total
<1> DEFINE fixed == CurrentSize + request.error
           a == Len(s.imports)
           b == Len(s.names)
           c == CellsSize(s.preceding)
           d == Len(s.files)
<1>3. /\ fixed \in Nat /\ a \in Nat /\ b \in Nat /\ c \in Nat /\ d \in Nat
      /\ Total(s) = fixed + a + b + c + d
  BY <1>1, <1>2, ContextFields
<1> HIDE DEF fixed, a, b, c, d
<1>4. Total(s) \in Nat
  BY <1>3
<1> QED
  BY <1>3, <1>4 DEF fixed, a, b, c, d

LEMMA DropFile ==
    ASSUME ContextTypeOK, NEW s \in Contexts, s.files # <<>>
    PROVE  DropsLast(s)
<1> DEFINE t == DropOne(s)
           A == Spare("import", s.imports, MinImports)
           B == Spare("name", s.names, MinNames)
           C == Nearer(s.preceding)
           D == Numbered(s.files)
<1>1. t = [s EXCEPT !.files = Front(s.files)]
  BY DEF DropOne
<1>2. /\ Front(s.files) \in Seq(Nat) /\ Len(Front(s.files)) = Len(s.files) - 1
      /\ Numbered(Front(s.files)) = Front(D) /\ D # <<>> /\ Last(D)[1] = "file"
  BY ContextFields, NumberedIs
<1>3. /\ t \in Contexts /\ t.imports = s.imports /\ t.names = s.names
      /\ t.preceding = s.preceding /\ t.files = Front(s.files)
  BY <1>1, <1>2 DEF Contexts
<1>4. A \in Seq(Item) /\ B \in Seq(Item) /\ C \in Seq(Item) /\ D \in Seq(Item)
  BY PartsOf
<1>5. Expendable(s) = A \o B \o C \o D
  BY ExpendableIs
<1>6. Expendable(t) = A \o B \o C \o Front(D)
  BY <1>2, <1>3, ExpendableIs
<1> HIDE DEF A, B, C, D
<1>7. A \o B \o C \in Seq(Item)
  BY <1>4
<1>8. Expendable(s) # <<>> /\ Expendable(t) = Front(Expendable(s)) /\ Last(Expendable(s)) = Last(D)
  <2> DEFINE X == A \o B \o C
  <2>1. X \in Seq(Item)
    BY <1>7
  <2> HIDE DEF X
  <2>2. X \o D # <<>> /\ Front(X \o D) = X \o Front(D) /\ Last(X \o D) = Last(D)
    BY <1>2, <1>4, <2>1, FrontOfBoth
  <2> QED
    BY <1>5, <1>6, <2>2 DEF X
<1>9. Weight(Last(Expendable(s))) = 1
  BY <1>2, <1>8 DEF Weight
<1> HIDE DEF t
<1>10. Items(s) \in Nat /\ Items(t) = Items(s) - 1
  <2>1. Items(s) = Len(s.imports) + Len(s.names) + Len(s.preceding) + Len(s.files)
        /\ Items(t) = Len(s.imports) + Len(s.names) + Len(s.preceding) + (Len(s.files) - 1)
    BY <1>2, <1>3 DEF Items
  <2> DEFINE a == Len(s.imports)
             b == Len(s.names)
             c == Len(s.preceding)
             d == Len(s.files)
  <2>2. /\ a \in Nat /\ b \in Nat /\ c \in Nat /\ d \in Nat
        /\ Items(s) = a + b + c + d /\ Items(t) = a + b + c + (d - 1)
    BY <2>1, ContextFields
  <2> HIDE DEF a, b, c, d
  <2> QED
    BY <2>2
<1>11. Total(s) \in Nat /\ Total(t) \in Nat /\ Total(s) = Total(t) + 1
  <2>1. PICK fixed \in Nat :
           /\ fixed = CurrentSize + request.error /\ CellsSize(s.preceding) \in Nat
           /\ Total(s) = fixed + Len(s.imports) + Len(s.names) + CellsSize(s.preceding)
                           + Len(s.files)
           /\ Total(s) \in Nat
    BY TotalIs
  <2>2. /\ Total(t) = fixed + Len(s.imports) + Len(s.names) + CellsSize(s.preceding)
                        + (Len(s.files) - 1)
        /\ Total(t) \in Nat
    BY <1>2, <1>3, <2>1, TotalIs
  <2> DEFINE a == Len(s.imports)
             b == Len(s.names)
             c == CellsSize(s.preceding)
             d == Len(s.files)
  <2>3. /\ a \in Nat /\ b \in Nat /\ c \in Nat /\ d \in Nat
        /\ Total(s) = fixed + a + b + c + d /\ Total(t) = fixed + a + b + c + (d - 1)
    BY <2>1, <2>2, ContextFields
  <2> HIDE DEF a, b, c, d
  <2>4. Total(s) = Total(t) + 1
    BY <2>3
  <2> QED
    BY <2>1, <2>2, <2>4
<1> QED
  BY <1>3, <1>8, <1>9, <1>10, <1>11 DEF DropsLast, t

LEMMA DropCell ==
    ASSUME ContextTypeOK, NEW s \in Contexts, s.files = <<>>, s.preceding # <<>>
    PROVE  DropsLast(s)
<1> DEFINE t == DropOne(s)
           A == Spare("import", s.imports, MinImports)
           B == Spare("name", s.names, MinNames)
           C == Nearer(s.preceding)
           D == Numbered(s.files)
           w == Clip(CellSize(s.preceding[1]))
<1>0. Earlier \in Nat
  BY ActiveFacts
<1>1. t = [s EXCEPT !.preceding = Tail(s.preceding)]
  BY DEF DropOne
<1>2. /\ Tail(s.preceding) \in Seq(Places) /\ Len(Tail(s.preceding)) = Len(s.preceding) - 1
      /\ Nearer(Tail(s.preceding)) = Front(C) /\ C # <<>>
      /\ Last(C) = <<"cell", s.preceding[1]>> /\ s.preceding[1] \in Places
  <2>1. s.preceding \in Seq(Places)
    BY ContextFields
  <2>2. Tail(s.preceding) \in Seq(Places) /\ Len(Tail(s.preceding)) = Len(s.preceding) - 1
        /\ s.preceding[1] \in Places
    BY <2>1
  <2> QED
    BY <1>0, <2>1, <2>2, NearerIs
<1>3. /\ t \in Contexts /\ t.imports = s.imports /\ t.names = s.names
      /\ t.preceding = Tail(s.preceding) /\ t.files = s.files
  BY <1>1, <1>2 DEF Contexts
<1>4. A \in Seq(Item) /\ B \in Seq(Item) /\ C \in Seq(Item)
  BY PartsOf
<1>5. D = <<>>
  BY ContextFields, NumberedIs
<1>6. Expendable(s) = A \o B \o C \o D
  BY ExpendableIs
<1>7. Expendable(t) = A \o B \o Front(C) \o D
  BY <1>2, <1>3, ExpendableIs
<1> HIDE DEF A, B, C, D
<1>8. A \o B \in Seq(Item)
  BY <1>4
<1>9. /\ (A \o B) \o C \in Seq(Item) /\ (A \o B) \o C # <<>>
      /\ Front((A \o B) \o C) = (A \o B) \o Front(C) /\ Front(C) \in Seq(Item)
      /\ Last((A \o B) \o C) = Last(C)
  <2> DEFINE X == A \o B
  <2>1. X \in Seq(Item)
    BY <1>8
  <2> HIDE DEF X
  <2>2. /\ X \o C \in Seq(Item) /\ X \o C # <<>>
        /\ Front(X \o C) = X \o Front(C) /\ Front(C) \in Seq(Item)
        /\ Last(X \o C) = Last(C)
    BY <1>2, <1>4, <2>1, FrontOfBoth, SMTT(30)
  <2> QED
    BY <2>2 DEF X
<1>10. Expendable(s) = (A \o B) \o C /\ Expendable(t) = (A \o B) \o Front(C)
  <2>1. (A \o B) \o Front(C) \in Seq(Item)
    BY <1>8, <1>9
  <2>2. \A x \in Seq(Item) : x \o <<>> = x
    OBVIOUS
  <2> QED
    BY <1>5, <1>6, <1>7, <1>9, <2>1, <2>2
<1>11. Expendable(s) # <<>> /\ Expendable(t) = Front(Expendable(s)) /\ Last(Expendable(s)) = Last(C)
  BY <1>9, <1>10
<1>12. Weight(Last(Expendable(s))) = w
  BY <1>2, <1>11 DEF Weight
<1>13. w \in Nat
  BY <1>2, ClipOfAPlace
<1>14. /\ CellsSize(s.preceding) \in Nat /\ CellsSize(Tail(s.preceding)) \in Nat
       /\ CellsSize(s.preceding) = w + CellsSize(Tail(s.preceding))
  BY ContextFields, CellsSizeOfTail
<1>15. NearestRelevant(s.preceding) => NearestRelevant(t.preceding)
  BY <1>0, <1>3, ContextFields, NearestOfTail
<1> HIDE DEF t, w
<1>16. Items(s) \in Nat /\ Items(t) = Items(s) - 1
  <2>1. Items(s) = Len(s.imports) + Len(s.names) + Len(s.preceding) + Len(s.files)
        /\ Items(t) = Len(s.imports) + Len(s.names) + (Len(s.preceding) - 1) + Len(s.files)
    BY <1>2, <1>3 DEF Items
  <2> DEFINE a == Len(s.imports)
             b == Len(s.names)
             c == Len(s.preceding)
             d == Len(s.files)
  <2>2. /\ a \in Nat /\ b \in Nat /\ c \in Nat /\ d \in Nat
        /\ Items(s) = a + b + c + d /\ Items(t) = a + b + (c - 1) + d
    BY <2>1, ContextFields
  <2> HIDE DEF a, b, c, d
  <2> QED
    BY <2>2
<1>17. Total(s) \in Nat /\ Total(t) \in Nat /\ Total(s) = Total(t) + w
  <2>1. PICK fixed \in Nat :
           /\ fixed = CurrentSize + request.error /\ CellsSize(s.preceding) \in Nat
           /\ Total(s) = fixed + Len(s.imports) + Len(s.names) + CellsSize(s.preceding)
                           + Len(s.files)
           /\ Total(s) \in Nat
    BY TotalIs
  <2>2. /\ Total(t) = fixed + Len(s.imports) + Len(s.names) + CellsSize(Tail(s.preceding))
                        + Len(s.files)
        /\ Total(t) \in Nat
    BY <1>3, <2>1, TotalIs
  <2> DEFINE a == Len(s.imports)
             b == Len(s.names)
             c == CellsSize(s.preceding)
             d == Len(s.files)
             r == CellsSize(Tail(s.preceding))
  <2>3. /\ a \in Nat /\ b \in Nat /\ c \in Nat /\ d \in Nat /\ r \in Nat /\ c = w + r
        /\ Total(s) = fixed + a + b + c + d /\ Total(t) = fixed + a + b + r + d
    BY <1>14, <2>1, <2>2, ContextFields
  <2> HIDE DEF a, b, c, d, r
  <2>4. Total(s) = Total(t) + w
    BY <2>3, <1>13
  <2> QED
    BY <2>1, <2>2, <2>4
<1> QED
  BY <1>3, <1>11, <1>12, <1>15, <1>16, <1>17 DEF DropsLast, t

LEMMA DropName ==
    ASSUME ContextTypeOK, NEW s \in Contexts, s.files = <<>>, s.preceding = <<>>,
           Len(s.names) > MinNames
    PROVE  DropsLast(s)
<1> DEFINE t == DropOne(s)
           A == Spare("import", s.imports, MinImports)
           B == Spare("name", s.names, MinNames)
           C == Nearer(s.preceding)
           D == Numbered(s.files)
<1>0. Earlier \in Nat
  BY ActiveFacts
<1>1. t = [s EXCEPT !.names = Front(s.names)]
  BY DEF DropOne
<1>2. /\ Front(s.names) \in Seq(Name) /\ Len(Front(s.names)) = Len(s.names) - 1
      /\ Spare("name", Front(s.names), MinNames) = Front(B) /\ B # <<>>
      /\ Last(B)[1] = "name"
  BY ContextFields, ContextNumbers, SpareIs
<1>3. /\ t \in Contexts /\ t.imports = s.imports /\ t.names = Front(s.names)
      /\ t.preceding = s.preceding /\ t.files = s.files
  BY <1>1, <1>2 DEF Contexts
<1>4. A \in Seq(Item) /\ B \in Seq(Item)
  BY PartsOf
<1>5. C = <<>> /\ D = <<>>
  BY <1>0, ContextFields, NearerIs, NumberedIs
<1>6. Expendable(s) = A \o B \o C \o D
  BY ExpendableIs
<1>7. Expendable(t) = A \o Front(B) \o C \o D
  BY <1>2, <1>3, ExpendableIs
<1> HIDE DEF A, B, C, D
<1>9. /\ A \o B \in Seq(Item) /\ A \o B # <<>>
      /\ Front(A \o B) = A \o Front(B) /\ Front(B) \in Seq(Item)
      /\ Last(A \o B) = Last(B)
  BY <1>2, <1>4, FrontOfBoth
<1>10. Expendable(s) = A \o B /\ Expendable(t) = A \o Front(B)
  <2>1. A \o Front(B) \in Seq(Item)
    BY <1>4, <1>9
  <2>2. \A x \in Seq(Item) : x \o <<>> = x
    OBVIOUS
  <2> QED
    BY <1>5, <1>6, <1>7, <1>9, <2>1, <2>2
<1>11. Expendable(s) # <<>> /\ Expendable(t) = Front(Expendable(s)) /\ Last(Expendable(s)) = Last(B)
  BY <1>9, <1>10
<1>12. Weight(Last(Expendable(s))) = 1
  BY <1>2, <1>11 DEF Weight
<1> HIDE DEF t
<1>13. Items(s) \in Nat /\ Items(t) = Items(s) - 1
  <2>1. Items(s) = Len(s.imports) + Len(s.names) + Len(s.preceding) + Len(s.files)
        /\ Items(t) = Len(s.imports) + (Len(s.names) - 1) + Len(s.preceding) + Len(s.files)
    BY <1>2, <1>3 DEF Items
  <2> DEFINE a == Len(s.imports)
             b == Len(s.names)
             c == Len(s.preceding)
             d == Len(s.files)
  <2>2. /\ a \in Nat /\ b \in Nat /\ c \in Nat /\ d \in Nat
        /\ Items(s) = a + b + c + d /\ Items(t) = a + (b - 1) + c + d
    BY <2>1, ContextFields
  <2> HIDE DEF a, b, c, d
  <2> QED
    BY <2>2
<1>14. Total(s) \in Nat /\ Total(t) \in Nat /\ Total(s) = Total(t) + 1
  <2>1. PICK fixed \in Nat :
           /\ fixed = CurrentSize + request.error /\ CellsSize(s.preceding) \in Nat
           /\ Total(s) = fixed + Len(s.imports) + Len(s.names) + CellsSize(s.preceding)
                           + Len(s.files)
           /\ Total(s) \in Nat
    BY TotalIs
  <2>2. /\ Total(t) = fixed + Len(s.imports) + (Len(s.names) - 1) + CellsSize(s.preceding)
                        + Len(s.files)
        /\ Total(t) \in Nat
    BY <1>2, <1>3, <2>1, TotalIs
  <2> DEFINE a == Len(s.imports)
             b == Len(s.names)
             c == CellsSize(s.preceding)
             d == Len(s.files)
  <2>3. /\ a \in Nat /\ b \in Nat /\ c \in Nat /\ d \in Nat
        /\ Total(s) = fixed + a + b + c + d /\ Total(t) = fixed + a + (b - 1) + c + d
    BY <2>1, <2>2, ContextFields
  <2> HIDE DEF a, b, c, d
  <2>4. Total(s) = Total(t) + 1
    BY <2>3
  <2> QED
    BY <2>1, <2>2, <2>4
<1> QED
  BY <1>3, <1>11, <1>12, <1>13, <1>14 DEF DropsLast, t

LEMMA DropImport ==
    ASSUME ContextTypeOK, NEW s \in Contexts, s.files = <<>>, s.preceding = <<>>,
           ~(Len(s.names) > MinNames), Len(s.imports) > MinImports
    PROVE  DropsLast(s)
<1> DEFINE t == DropOne(s)
           A == Spare("import", s.imports, MinImports)
           B == Spare("name", s.names, MinNames)
           C == Nearer(s.preceding)
           D == Numbered(s.files)
<1>0. Earlier \in Nat /\ Len(s.names) <= MinNames
  BY ActiveFacts, ContextFields, ContextNumbers, SMTT(30)
<1>1. t = [s EXCEPT !.imports = Front(s.imports)]
  BY DEF DropOne
<1>2. /\ Front(s.imports) \in Seq(Name) /\ Len(Front(s.imports)) = Len(s.imports) - 1
      /\ Spare("import", Front(s.imports), MinImports) = Front(A) /\ A # <<>>
      /\ Last(A)[1] = "import"
  BY ContextFields, ContextNumbers, SpareIs
<1>3. /\ t \in Contexts /\ t.imports = Front(s.imports) /\ t.names = s.names
      /\ t.preceding = s.preceding /\ t.files = s.files
  BY <1>1, <1>2 DEF Contexts
<1>4. A \in Seq(Item)
  BY PartsOf
<1>5. B = <<>> /\ C = <<>> /\ D = <<>>
  BY <1>0, ContextFields, ContextNumbers, SpareIs, NearerIs, NumberedIs
<1>6. Expendable(s) = A \o B \o C \o D
  BY ExpendableIs
<1>7. Expendable(t) = Front(A) \o B \o C \o D
  BY <1>2, <1>3, ExpendableIs
<1> HIDE DEF A, B, C, D
<1>9. Front(A) \in Seq(Item)
  BY <1>2, <1>4, FrontIs
<1>10. Expendable(s) = A /\ Expendable(t) = Front(A)
  <2>1. \A x \in Seq(Item) : x \o <<>> = x
    OBVIOUS
  <2> QED
    BY <1>4, <1>5, <1>6, <1>7, <1>9, <2>1
<1>11. Weight(Last(Expendable(s))) = 1
  BY <1>2, <1>10 DEF Weight
<1> HIDE DEF t
<1>13. Items(s) \in Nat /\ Items(t) = Items(s) - 1
  <2>1. Items(s) = Len(s.imports) + Len(s.names) + Len(s.preceding) + Len(s.files)
        /\ Items(t) = (Len(s.imports) - 1) + Len(s.names) + Len(s.preceding) + Len(s.files)
    BY <1>2, <1>3 DEF Items
  <2> DEFINE a == Len(s.imports)
             b == Len(s.names)
             c == Len(s.preceding)
             d == Len(s.files)
  <2>2. /\ a \in Nat /\ b \in Nat /\ c \in Nat /\ d \in Nat
        /\ Items(s) = a + b + c + d /\ Items(t) = (a - 1) + b + c + d
    BY <2>1, ContextFields
  <2> HIDE DEF a, b, c, d
  <2> QED
    BY <2>2
<1>14. Total(s) \in Nat /\ Total(t) \in Nat /\ Total(s) = Total(t) + 1
  <2>1. PICK fixed \in Nat :
           /\ fixed = CurrentSize + request.error /\ CellsSize(s.preceding) \in Nat
           /\ Total(s) = fixed + Len(s.imports) + Len(s.names) + CellsSize(s.preceding)
                           + Len(s.files)
           /\ Total(s) \in Nat
    BY TotalIs
  <2>2. /\ Total(t) = fixed + (Len(s.imports) - 1) + Len(s.names) + CellsSize(s.preceding)
                        + Len(s.files)
        /\ Total(t) \in Nat
    BY <1>2, <1>3, <2>1, TotalIs
  <2> DEFINE a == Len(s.imports)
             b == Len(s.names)
             c == CellsSize(s.preceding)
             d == Len(s.files)
  <2>3. /\ a \in Nat /\ b \in Nat /\ c \in Nat /\ d \in Nat
        /\ Total(s) = fixed + a + b + c + d /\ Total(t) = fixed + (a - 1) + b + c + d
    BY <2>1, <2>2, ContextFields
  <2> HIDE DEF a, b, c, d
  <2>4. Total(s) = Total(t) + 1
    BY <2>3
  <2> QED
    BY <2>1, <2>2, <2>4
<1> QED
  BY <1>2, <1>3, <1>10, <1>11, <1>13, <1>14 DEF DropsLast, t

LEMMA OneDropped ==
    ASSUME ContextTypeOK, NEW s \in Contexts, Droppable(s)
    PROVE  DropsLast(s)
  BY DropFile, DropCell, DropName, DropImport DEF Droppable

LEMMA CollectedIs ==
    ASSUME ContextTypeOK
    PROVE  Collected \in Contexts /\ NearestRelevant(Collected.preceding)
<1>1. Imports \in Seq(Name) /\ DefinedNames \in Seq(Name)
  BY DistinctIs DEF Imports, DefinedNames
<1>2. Preceding \in Seq(Places) /\ NearestRelevant(Preceding)
  BY PrecedingIs
<1>3. WorkspaceFiles \in Seq(Nat)
  <2> DEFINE n == Min({request.files, MaxNamed})
  <2>1. n \in Nat
    BY RequestFacts, ContextNumbers, MinOfTwo
  <2>2. WorkspaceFiles = [k \in 1..n |-> k]
    BY DEF WorkspaceFiles
  <2> HIDE DEF n
  <2>3. WorkspaceFiles \in [1..n -> Nat]
    BY <2>1, <2>2
  <2> QED
    BY <2>1, <2>3, SeqByIndex
<1> QED
  BY <1>1, <1>2, <1>3 DEF Collected, Contexts

Stopped(s) == ~(Total(s) > request.budget /\ Droppable(s))

\* What holds after k rounds of n
AfterRounds(s, all, k, n) ==
    /\ s \in Contexts /\ NearestRelevant(s.preceding)
    /\ Len(Expendable(s)) <= Len(all)
    /\ \A i \in 1..Len(Expendable(s)) : Expendable(s)[i] = all[i]
    /\ Expendable(s) = all \/ Total(s) + Weight(all[Len(Expendable(s)) + 1]) > request.budget
    /\ Stopped(s) \/ Items(s) + k <= n

LEMMA OneRound ==
    ASSUME ContextTypeOK, NEW all \in Seq(Item), NEW n \in Nat, NEW k \in 1..n, NEW s,
           AfterRounds(s, all, k - 1, n)
    PROVE  AfterRounds(Round(s), all, k, n)
<1>1. s \in Contexts /\ NearestRelevant(s.preceding)
  BY DEF AfterRounds
<1>2. CASE Stopped(s)
  <2>1. Round(s) = s
    BY <1>2 DEF Round, Stopped
  <2> QED
    BY <1>2, <2>1 DEF AfterRounds
<1>3. CASE ~Stopped(s)
  <2> DEFINE t == DropOne(s)
             e == Expendable(s)
             f == Expendable(t)
             m == Len(e)
             w == Weight(Last(e))
  <2>1. Round(s) = t /\ Total(s) > request.budget /\ Droppable(s)
    BY <1>3 DEF Round, Stopped
  <2>2. DropsLast(s)
    BY <1>1, <2>1, OneDropped
  <2>3. e \in Seq(Item) /\ e # <<>>
    BY <1>1, <2>2, ExpendableType DEF DropsLast
  <2>4. m <= Len(all) /\ \A i \in 1..m : e[i] = all[i]
    BY DEF AfterRounds
  <2>5. Items(s) + (k - 1) <= n
    BY <1>3 DEF AfterRounds
  <2>6. /\ t \in Contexts /\ NearestRelevant(t.preceding) /\ Items(s) \in Nat
        /\ Items(t) = Items(s) - 1 /\ f = Front(e) /\ Total(s) = Total(t) + w
    BY <1>1, <2>2 DEF DropsLast
  <2>7. Last(e) = e[m]
    BY DEF Last
  <2> HIDE DEF t, f
  <2> HIDE DEF e
  <2>8. m \in Nat /\ m >= 1 /\ f \in Seq(Item) /\ Len(f) = m - 1 /\ \A i \in 1..m - 1 : f[i] = e[i]
    BY <2>3, <2>6, FrontIs
  <2>9. Len(all) \in Nat /\ request.budget \in Nat
    BY RequestFacts
  <2> HIDE DEF m, w
  <2>10. Len(f) <= Len(all) /\ \A i \in 1..Len(f) : f[i] = all[i]
    <3>1. m - 1 <= Len(all) /\ \A i \in 1..m - 1 : i \in 1..m
      BY <2>4, <2>8, <2>9
    <3> QED
      BY <2>4, <2>8, <3>1
  <2>11. all[Len(f) + 1] = Last(e)
    <3>1. Len(f) + 1 = m /\ m \in 1..m
      BY <2>8
    <3> QED
      BY <2>4, <2>7, <3>1
  <2>12. Total(t) + Weight(all[Len(f) + 1]) > request.budget
    BY <2>1, <2>6, <2>11 DEF w
  <2>13. Items(t) + k <= n
    <3>1. k \in Nat
      OBVIOUS
    <3> QED
      BY <2>5, <2>6, <3>1
  <2>14. AfterRounds(t, all, k, n)
    BY <2>6, <2>10, <2>12, <2>13 DEF AfterRounds, f
  <2> QED
    BY <2>1, <2>14
<1> QED
  BY <1>2, <1>3

\* The whole cut
LEMMA CutIs ==
    ASSUME ContextTypeOK, NEW s \in Contexts, NearestRelevant(s.preceding)
    PROVE  \E n \in Nat : AfterRounds(Cut(s), Expendable(s), n, n)
<1> DEFINE n == Items(s)
           all == Expendable(s)
           step == [p \in Nat \X Contexts |-> Round(p[2])]
           Is(f) == f = [k \in 0..n |-> IF k = 0 THEN s ELSE Round(f[k - 1])]
<1>1. n \in Nat /\ 0 \in Nat /\ 0 \in 0..n /\ n \in 0..n
  <2>1. n \in Nat
    <3> DEFINE a == Len(s.imports)
               b == Len(s.names)
               c == Len(s.preceding)
               d == Len(s.files)
    <3>1. a \in Nat /\ b \in Nat /\ c \in Nat /\ d \in Nat /\ n = a + b + c + d
      BY ContextFields DEF Items
    <3> HIDE DEF a, b, c, d, n
    <3> QED
      BY <3>1
  <2> HIDE DEF n
  <2> QED
    BY <2>1
<1>2. all \in Seq(Item)
  BY ExpendableType
<1>3. \A x \in Contexts : Round(x) \in Contexts
  BY OneDropped DEF Round, DropsLast
<1> HIDE DEF n, all
<1>4. step \in [Nat \X Contexts -> Contexts]
  BY <1>3
<1>5. \A k \in Nat, x \in Contexts : step[<<k, x>>] = Round(x)
  OBVIOUS
<1> HIDE DEF step
<1> DEFINE g == Iterated(0, n, Contexts, s, step)
<1>6. g \in [0..n -> Contexts] /\ Recursion(g, 0, n, s, step)
  BY <1>1, <1>4, IteratedIs, Zenon
<1> HIDE DEF g
<1>7. Is(g)
  <2>1. ASSUME NEW k \in 0..n PROVE g[k] = IF k = 0 THEN s ELSE Round(g[k - 1])
    <3>1. g[k] = IF k = 0 THEN s ELSE step[<<k, g[k - 1]>>]
      BY <1>6 DEF Recursion
    <3>2. k # 0 => k \in 1..n /\ k \in Nat /\ k - 1 \in 0..n
      BY <1>1
    <3>3. k # 0 => g[k - 1] \in Contexts
      BY <1>6, <3>2
    <3>4. k # 0 => step[<<k, g[k - 1]>>] = Round(g[k - 1])
      BY <1>5, <3>2, <3>3
    <3> QED
      BY <3>1, <3>4
  <2>2. g = [k \in 0..n |-> g[k]]
    BY <1>6
  <2> QED
    BY <2>1, <2>2
<1> DEFINE cut == CHOOSE f : Is(f)
<1>8. Is(cut)
  <2> HIDE DEF Is
  <2> QED
    BY <1>7
<1>9. Cut(s) = cut[n]
  BY DEF Cut, n
<1> HIDE DEF cut
<1>10. cut[0] = s
  BY <1>1, <1>8
<1>11. \A k \in 1..n : cut[k] = Round(cut[k - 1])
  <2>1. \A k \in 1..n : k \in 0..n /\ k # 0
    OBVIOUS
  <2> QED
    BY <1>8, <2>1
<1> DEFINE G == {k \in 0..n : AfterRounds(cut[k], all, k, n)}
<1>12. 0 \in G
  <2>1. AfterRounds(s, all, 0, n)
    <3>1. Items(s) + 0 <= n
      BY <1>1 DEF n
    <3>2. Len(all) <= Len(all)
      BY <1>2
    <3> QED
      BY <3>1, <3>2 DEF AfterRounds, all
  <2> QED
    BY <1>1, <1>10, <2>1
<1>13. ASSUME NEW k \in 1..n, k - 1 \in G PROVE k \in G
  <2>1. AfterRounds(cut[k - 1], all, k - 1, n) /\ k \in 0..n
    BY <1>13
  <2>2. AfterRounds(Round(cut[k - 1]), all, k, n)
    BY <1>1, <1>2, <2>1, OneRound
  <2> QED
    BY <1>11, <2>1, <2>2
<1>14. n \in G
  <2> HIDE DEF G
  <2> QED
    BY <1>1, <1>12, <1>13, UpTo
<1> QED
  BY <1>1, <1>9, <1>14 DEF all

\* After all rounds nothing is left to cut.
LEMMA CutStops ==
    ASSUME ContextTypeOK, NEW s, NEW all, NEW n \in Nat, AfterRounds(s, all, n, n)
    PROVE  Stopped(s)
<1>1. s \in Contexts /\ (Stopped(s) \/ Items(s) + n <= n)
  BY DEF AfterRounds
<1>2. SUFFICES ASSUME Items(s) + n <= n, Droppable(s) PROVE FALSE
  BY <1>1 DEF Stopped
<1> DEFINE a == Len(s.imports)
           b == Len(s.names)
           c == Len(s.preceding)
           d == Len(s.files)
<1>3. a \in Nat /\ b \in Nat /\ c \in Nat /\ d \in Nat /\ Items(s) = a + b + c + d
  BY <1>1, ContextFields DEF Items
<1>4. (c = 0 => s.preceding = <<>>) /\ (d = 0 => s.files = <<>>)
  BY <1>1, ContextFields
<1>5. (b > MinNames \/ s.files # <<>> \/ s.preceding # <<>> \/ a > MinImports)
  BY <1>2 DEF Droppable
<1> HIDE DEF a, b, c, d
<1>6. a = 0 /\ b = 0 /\ c = 0 /\ d = 0
  BY <1>2, <1>3
<1> QED
  BY <1>4, <1>5, <1>6, ContextNumbers

LEMMA PrefixByItems ==
    ASSUME NEW S, NEW kept \in Seq(S), NEW all \in Seq(S), Len(kept) <= Len(all),
           \A i \in 1..Len(kept) : kept[i] = all[i]
    PROVE  IsPrefix(kept, all)
<1> DEFINE m == Len(kept)
           a == SubSeq(kept, 1, m)
           b == SubSeq(all, 1, m)
<1>1. m \in Nat /\ m \in Int /\ 1 \in Int /\ m - 1 + 1 = m /\ Len(all) \in Nat
  OBVIOUS
<1>2. \A i \in 1..m : kept[i] \in S /\ all[i] \in S /\ 1 + i - 1 = i
  BY <1>1
<1> HIDE DEF m
<1>3. /\ a \in Seq(S) /\ Len(a) = (IF 1 <= m THEN m - 1 + 1 ELSE 0)
      /\ \A i \in 1..m - 1 + 1 : a[i] = kept[1 + i - 1]
  BY <1>1, <1>2, SubSeqProperties
<1>4. /\ b \in Seq(S) /\ Len(b) = (IF 1 <= m THEN m - 1 + 1 ELSE 0)
      /\ \A i \in 1..m - 1 + 1 : b[i] = all[1 + i - 1]
  BY <1>1, <1>2, SubSeqProperties
<1> HIDE DEF a, b
<1>5. Len(a) = m /\ Len(b) = m /\ \A i \in 1..m : a[i] = b[i]
  BY <1>1, <1>2, <1>3, <1>4 DEF m
<1>6. a = b
  BY <1>3, <1>4, <1>5, SeqEqual
<1> QED
  BY <1>6 DEF IsPrefix, a, b, m

\* Whatever the notebook, the request and the budget: what is sent is what matters most of
\* what was collected, as much as fits and no more, and of the cells before the active one
\* the nearest relevant ones. It holds of every request, so in whatever state.
THEOREM ContextAlwaysFits == ContextTypeOK => ContextFits
<1> SUFFICES ASSUME ContextTypeOK PROVE ContextFits
  OBVIOUS
<1> DEFINE sent == Cut(Collected)
           all == Expendable(Collected)
           kept == Expendable(sent)
<1>1. Collected \in Contexts /\ NearestRelevant(Collected.preceding)
  BY CollectedIs
<1>2. PICK n \in Nat : AfterRounds(sent, all, n, n)
  BY <1>1, CutIs
<1>3. Stopped(sent)
  BY <1>2, CutStops
<1>4. /\ sent \in Contexts /\ NearestRelevant(sent.preceding)
      /\ Len(kept) <= Len(all) /\ \A i \in 1..Len(kept) : kept[i] = all[i]
      /\ kept = all \/ Total(sent) + Weight(all[Len(kept) + 1]) > request.budget
  BY <1>2 DEF AfterRounds
<1>5. kept \in Seq(Item) /\ all \in Seq(Item)
  BY <1>1, <1>4, ExpendableType
<1>6. IsPrefix(kept, all)
  <2> HIDE DEF kept, all
  <2> QED
    BY <1>4, <1>5, PrefixByItems
<1>7. kept = <<>> \/ Total(sent) <= request.budget
  <2>1. CASE ~Droppable(sent)
    BY <1>4, <2>1, NothingToDrop
  <2>2. CASE Droppable(sent)
    <3>1. ~(Total(sent) > request.budget)
      BY <1>3, <2>2 DEF Stopped
    <3>2. Total(sent) \in Nat /\ request.budget \in Nat
      BY <1>4, TotalIs, RequestFacts
    <3> HIDE DEF sent, kept
    <3> QED
      BY <3>1, <3>2
  <2> QED
    BY <2>1, <2>2
<1> QED
  BY <1>4, <1>6, <1>7 DEF ContextFits
==============================================================================
