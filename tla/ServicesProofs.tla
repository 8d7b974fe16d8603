-------------------------- MODULE ServicesProofs ---------------------------
(***************************************************************************)
(* The theorems about the smaller parts, for any number of handlers, rows, *)
(* requests and failures, and that the composition Services keeps what     *)
(* each of its parts promises by itself.                                   *)
(***************************************************************************)
EXTENDS Services, PricingProofs, SessionsProofs, ValueObjectsProofs

-----------------------------------------------------------------------------
(* Event details and their copy.                                           *)

(* Who looks for the row in order to write it is not a reader.             *)
WritersEdit == \A x \in Editor : editor[x].pc \in {"find", "write"} => editor[x].op # "find"

EventShape == EventTypeOK /\ WritersEdit
CacheInv == EventShape /\ StaleOnlyByLateFill

LEMMA Copies ==
    /\ NoCopy \in Copy
    /\ \A x \in Editor : IdleEditor \in EditorState
    /\ EventTypeOK => CurrentCopy \in Copy
BY EventAssumption DEF NoCopy, Copy, IdleEditor, EditorState, EventTypeOK, EventRow, CurrentCopy

LEMMA EventStarts == EventInit => CacheInv
<1> SUFFICES ASSUME EventInit PROVE CacheInv
    OBVIOUS
<1> USE DEF EventInit
<1>1. eventRow \in EventRow /\ venueVersion \in 1..MaxVersions /\ cacheFailures \in 0..MaxCacheFailures
    BY EventAssumption DEF EventRow
<1>2. eventCache \in Copy /\ editor \in [Editor -> EditorState] /\ late \in BOOLEAN
    BY Copies
<1>3. StaleOnlyByLateFill /\ WritersEdit
    BY DEF StaleOnlyByLateFill, Outdated, WritersEdit, IdleEditor
<1> QED BY <1>1, <1>2, <1>3 DEF CacheInv, EventShape, EventTypeOK

LEMMA EditorMoves ==
    ASSUME EventTypeOK, NEW x \in Editor
    PROVE  /\ \A pc \in {"get", "load", "set", "find", "write", "del"} :
                 EditorGoto(x, pc) => editor' \in [Editor -> EditorState]
           /\ EndEditor(x) => editor' \in [Editor -> EditorState]
           /\ editor[x] \in EditorState
BY Copies DEF EventTypeOK, EditorGoto, EndEditor, EditorState

LEMMA WrittenRow ==
    ASSUME EventShape, NEW x \in Editor, MayWrite(x)
    PROVE  Written(editor[x].op) \in EventRow
<1>1. editor[x].op \in {"find", "update", "remove"} /\ eventRow \in EventRow
    BY DEF EventShape, EventTypeOK, EditorState
<1>2. CASE editor[x].op = "remove"
    BY <1>1, <1>2 DEF Written, EventRow
<1>3. CASE editor[x].op # "remove"
    <2>1. editor[x].op = "update" /\ eventRow.version < MaxVersions
        BY <1>1, <1>3 DEF MayWrite, EventShape, WritersEdit
    <2> QED BY <1>1, <1>3, <2>1, EventAssumption DEF Written, EventRow
<1> QED BY <1>2, <1>3

LEMMA EventTypeStep == EventShape /\ [EventNext]_eventVars => EventTypeOK'
<1> SUFFICES ASSUME EventShape, EventTypeOK, [EventNext]_eventVars PROVE EventTypeOK'
    BY DEF EventShape
<1>1. CASE CreateEvent
    BY <1>1, EventAssumption DEF CreateEvent, EventTypeOK, EventRow
<1>2. CASE UpdateVenue
    BY <1>2, EventAssumption DEF UpdateVenue, EventTypeOK
<1>3. CASE CopyExpires
    BY <1>3, Copies DEF CopyExpires, EventTypeOK
<1>4. ASSUME NEW x \in Editor,
             FindById(x) \/ EditEvent(x, "update") \/ EditEvent(x, "remove") \/ GetCopy(x) \/ LoadDetail(x) \/ FindRow(x)
      PROVE  EventTypeOK'
    <2>1. editor' \in [Editor -> EditorState]
        <3>1. CASE LoadDetail(x)
            BY <3>1, EditorMoves, Copies DEF LoadDetail, EventTypeOK, EditorState
        <3>2. CASE EditEvent(x, "update") \/ EditEvent(x, "remove")
            BY <3>2 DEF EditEvent, EventTypeOK, EditorState
        <3>3. CASE FindById(x) \/ GetCopy(x) \/ FindRow(x)
            BY <3>3, EditorMoves DEF FindById, GetCopy, FindRow
        <3> QED BY <1>4, <3>1, <3>2, <3>3
    <2>2. UNCHANGED <<eventRow, venueVersion, eventCache, late, cacheFailures>>
        BY <1>4 DEF FindById, EditEvent, GetCopy, LoadDetail, FindRow
    <2> QED BY <2>1, <2>2 DEF EventTypeOK
<1>5. ASSUME NEW x \in Editor, StoreCopy(x) PROVE EventTypeOK'
    BY <1>5, EditorMoves, Copies DEF StoreCopy, EventTypeOK, EditorState
<1>6. ASSUME NEW x \in Editor, WriteRow(x) PROVE EventTypeOK'
    BY <1>6, EditorMoves, WrittenRow DEF WriteRow, EventTypeOK
<1>7. ASSUME NEW x \in Editor, DeleteCopy(x) PROVE EventTypeOK'
    BY <1>7, EditorMoves, Copies DEF DeleteCopy, EventTypeOK
<1>8. ASSUME NEW x \in Editor, EditorFails(x) PROVE EventTypeOK'
    <2>1. editor' \in [Editor -> EditorState] /\ UNCHANGED venueVersion
        BY <1>8, EditorMoves DEF EditorFails
    <2>2. eventRow' \in EventRow
        BY <1>8, WrittenRow DEF EditorFails, EventTypeOK
    <2>3. eventCache' \in Copy
        BY <1>8, Copies, EditorMoves DEF EditorFails, EventTypeOK, EditorState
    <2>4. late' \in BOOLEAN
        BY <1>8 DEF EditorFails
    <2>5. cacheFailures' \in 0..MaxCacheFailures
        BY <1>8, EventAssumption DEF EditorFails, EventTypeOK
    <2> QED BY <2>1, <2>2, <2>3, <2>4, <2>5 DEF EventTypeOK
<1>9. CASE UNCHANGED eventVars
    BY <1>9 DEF eventVars, EventTypeOK
<1> QED BY <1>1, <1>2, <1>3, <1>4, <1>5, <1>6, <1>7, <1>8, <1>9 DEF EventNext, ServeEditor

LEMMA EventShapeStep == EventShape /\ [EventNext]_eventVars => EventShape'
<1> SUFFICES ASSUME EventTypeOK, WritersEdit, [EventNext]_eventVars PROVE WritersEdit'
    BY EventTypeStep DEF EventShape
<1> USE DEF WritersEdit
<1>1. CASE UNCHANGED editor
    BY <1>1
<1>2. ASSUME NEW x \in Editor,
             EditorGoto(x, "get") \/ EditorGoto(x, "load") \/ EditorGoto(x, "del") \/ EndEditor(x)
      PROVE  WritersEdit'
    BY <1>2 DEF EditorGoto, EndEditor, IdleEditor, EventTypeOK, EditorState
<1>3. ASSUME NEW x \in Editor, LoadDetail(x) PROVE WritersEdit'
    BY <1>3 DEF LoadDetail, EndEditor, IdleEditor, EventTypeOK, EditorState
<1>4. ASSUME NEW x \in Editor, EditEvent(x, "update") \/ EditEvent(x, "remove") PROVE WritersEdit'
    BY <1>4 DEF EditEvent, EventTypeOK, EditorState
<1>5. ASSUME NEW x \in Editor, FindRow(x) PROVE WritersEdit'
    BY <1>5 DEF FindRow, EditorGoto, EndEditor, IdleEditor, EventTypeOK, EditorState
<1> QED
    BY <1>1, <1>2, <1>3, <1>4, <1>5
    DEF EventNext, ServeEditor, CreateEvent, UpdateVenue, CopyExpires, FindById, GetCopy, StoreCopy,
        WriteRow, DeleteCopy, EditorFails, eventVars

LEMMA EventStep == CacheInv /\ [EventNext]_eventVars => CacheInv'
<1> SUFFICES ASSUME EventTypeOK, StaleOnlyByLateFill, [EventNext]_eventVars PROVE StaleOnlyByLateFill'
    BY EventShapeStep DEF CacheInv, EventShape
<1>1. CASE CreateEvent
    BY <1>1 DEF CreateEvent, EventTypeOK, StaleOnlyByLateFill, Outdated, EventLive, WillDelete
<1>2. CASE UpdateVenue
    BY <1>2 DEF UpdateVenue, StaleOnlyByLateFill, Outdated, EventLive, WillDelete
<1>3. CASE CopyExpires
    BY <1>3 DEF CopyExpires, StaleOnlyByLateFill, Outdated
<1>4. ASSUME NEW x \in Editor,
             FindById(x) \/ EditEvent(x, "update") \/ EditEvent(x, "remove") \/ GetCopy(x) \/ LoadDetail(x) \/ FindRow(x)
      PROVE  StaleOnlyByLateFill'
    <2>1. ~WillDelete(x)
        BY <1>4 DEF FindById, EditEvent, GetCopy, LoadDetail, FindRow, WillDelete
    <2>2. \A y \in Editor \ {x} : editor'[y] = editor[y]
        BY <1>4 DEF FindById, EditEvent, GetCopy, LoadDetail, FindRow, EditorGoto, EndEditor, EventTypeOK
    <2>3. UNCHANGED <<eventRow, venueVersion, eventCache, late>>
        BY <1>4 DEF FindById, EditEvent, GetCopy, LoadDetail, FindRow
    <2> QED BY <2>1, <2>2, <2>3 DEF StaleOnlyByLateFill, Outdated, EventLive, WillDelete
<1>5. ASSUME NEW x \in Editor, StoreCopy(x) PROVE StaleOnlyByLateFill'
    <2>1. \A y \in Editor : WillDelete(y) => WillDelete(y)'
        BY <1>5 DEF StoreCopy, EndEditor, IdleEditor, EventTypeOK, WillDelete
    <2>2. UNCHANGED <<eventRow, venueVersion>> /\ eventCache' = editor[x].copy
        BY <1>5 DEF StoreCopy
    <2>3. Outdated(eventCache)' <=> Outdated(editor[x].copy)
        BY <2>2 DEF Outdated, EventLive
    <2> QED BY <1>5, <2>1, <2>2, <2>3 DEF StoreCopy, StaleOnlyByLateFill
<1>6. ASSUME NEW x \in Editor, WriteRow(x) PROVE StaleOnlyByLateFill'
    <2>1. WillDelete(x)'
        BY <1>6 DEF WriteRow, EditorGoto, EventTypeOK, EditorState, WillDelete
    <2> QED BY <2>1 DEF StaleOnlyByLateFill
<1>7. ASSUME NEW x \in Editor, DeleteCopy(x) PROVE StaleOnlyByLateFill'
    BY <1>7 DEF DeleteCopy, StaleOnlyByLateFill, Outdated
<1>8. ASSUME NEW x \in Editor, EditorFails(x) PROVE StaleOnlyByLateFill'
    <2>1. \A y \in Editor \ {x} : WillDelete(y)' <=> WillDelete(y)
        BY <1>8 DEF EditorFails, EndEditor, EventTypeOK, WillDelete
    <2>2. late' = (Outdated(eventCache)' /\ \A y \in Editor \ {x} : ~WillDelete(y))
        BY <1>8 DEF EditorFails
    <2> QED BY <2>1, <2>2 DEF StaleOnlyByLateFill
<1>9. CASE UNCHANGED eventVars
    BY <1>9 DEF eventVars, StaleOnlyByLateFill, Outdated, EventLive, WillDelete
<1> QED BY <1>1, <1>2, <1>3, <1>4, <1>5, <1>6, <1>7, <1>8, <1>9 DEF EventNext, ServeEditor

(* The rows, the copies and the handlers keep to their types               *)
(* (events.service.ts, cache.ts).                                          *)
THEOREM EventTypes == EventSpec => []EventTypeOK
<1>1. EventInit => EventShape
    BY EventStarts DEF CacheInv
<1>2. EventShape => EventTypeOK
    BY DEF EventShape
<1> QED BY <1>1, <1>2, EventShapeStep, PTL DEF EventSpec

(* An outdated copy is about to be deleted by the handler that outdated    *)
(* it, or was stored late, or outlived a failed call (getOrSet, update,    *)
(* remove).                                                                *)
THEOREM StaleCopiesHaveACause == EventSpec => []StaleOnlyByLateFill
<1>1. CacheInv => StaleOnlyByLateFill
    BY DEF CacheInv
<1> QED BY EventStarts, EventStep, <1>1, PTL DEF EventSpec

-----------------------------------------------------------------------------
(* Lists, page by page.                                                    *)

(* The order of the rows, and what Top takes from it.                      *)

LEMMA BeforeIsTotal ==
    ASSUME NEW x \in Item, NEW y \in Item, NEW z \in Item
    PROVE  /\ ~Before(x, x)
           /\ Before(x, y) /\ Before(y, z) => Before(x, z)
           /\ x = y \/ Before(x, y) \/ Before(y, x)
<1>1. x.at \in Nat /\ y.at \in Nat /\ z.at \in Nat /\ x.id \in Nat /\ y.id \in Nat /\ z.id \in Nat
    BY ListingAssumption DEF Item
<1>2. x = [id |-> x.id, at |-> x.at] /\ y = [id |-> y.id, at |-> y.at]
    BY DEF Item
<1> QED BY <1>1, <1>2 DEF Before

(* A set of rows has a last one.                                           *)
LEMMA LastRow ==
    ASSUME NEW T, T \subseteq Item, T # {}
    PROVE  \E x \in T : \A y \in T : y = x \/ Before(y, x)
<1> DEFINE Times == {y.at : y \in T}
<1>1. Times \subseteq Nat /\ Times # {}
    BY ListingAssumption DEF Item
<1>2. PICK at \in Times : \A b \in Times : at <= b
    BY <1>1, LeastNatural
<1> DEFINE Oldest == {y \in T : y.at = at}
<1> DEFINE Ids == {y.id : y \in Oldest}
<1>3. Ids \subseteq Nat /\ Ids # {}
    BY <1>2, ListingAssumption DEF Item
<1>4. PICK id \in Ids : \A b \in Ids : id <= b
    BY <1>3, LeastNatural
<1>5. PICK x \in Oldest : x.id = id
    BY <1>4
<1>6. ASSUME NEW y \in T, y # x PROVE Before(y, x)
    <2>1. x.at \in Nat /\ y.at \in Nat /\ x.id \in Nat /\ y.id \in Nat /\ x.at = at /\ at <= y.at
        BY <1>2, <1>5, ListingAssumption DEF Item
    <2>2. y.at = at => id <= y.id
        BY <1>4
    <2>3. y.id # x.id \/ y.at # x.at
        BY <1>6, <1>5 DEF Item
    <2> QED BY <2>1, <2>2, <2>3, <1>5 DEF Before
<1> QED BY <1>5, <1>6

Ahead(S, x) == {y \in S : Before(y, x)}

(* What comes before a row of the top is in the top.                       *)
LEMMA AheadGrows ==
    ASSUME NEW S, IsFiniteSet(S), S \subseteq Item, NEW x \in S, NEW y \in S, Before(y, x)
    PROVE  /\ Cardinality(Ahead(S, y)) \in Nat /\ Cardinality(Ahead(S, x)) \in Nat
           /\ Cardinality(Ahead(S, y)) < Cardinality(Ahead(S, x))
<1>1. Ahead(S, y) \subseteq Ahead(S, x) /\ y \in Ahead(S, x) /\ y \notin Ahead(S, y)
    BY BeforeIsTotal DEF Ahead
<1>2. IsFiniteSet(Ahead(S, x)) /\ IsFiniteSet(Ahead(S, y))
    BY FS_Subset DEF Ahead
<1> QED BY <1>1, <1>2, FS_Subset, FS_CardinalityType

LEMMA TopIsClosed ==
    ASSUME NEW S, IsFiniteSet(S), S \subseteq Item, NEW n \in Nat,
           NEW x \in Top(S, n), NEW y \in S, Before(y, x)
    PROVE  y \in Top(S, n)
<1>1. x \in S /\ Cardinality(Ahead(S, x)) < n
    BY DEF Top, Ahead
<1>2. Cardinality(Ahead(S, y)) < n
    BY <1>1, AheadGrows
<1> QED BY <1>2 DEF Top, Ahead

(* When not even n rows are taken there were not more.                     *)
LEMMA ShortTopIsAll ==
    ASSUME NEW S, IsFiniteSet(S), S \subseteq Item, NEW n \in Nat, Cardinality(Top(S, n)) < n
    PROVE  Top(S, n) = S
<1> SUFFICES ASSUME S \ Top(S, n) # {} PROVE FALSE
    BY DEF Top
<1> DEFINE Counts == {Cardinality(Ahead(S, x)) : x \in S \ Top(S, n)}
<1>1. \A x \in S : IsFiniteSet(Ahead(S, x)) /\ Cardinality(Ahead(S, x)) \in Nat
    BY FS_Subset, FS_CardinalityType DEF Ahead
<1>2. Counts \subseteq Nat /\ Counts # {}
    BY <1>1
<1>3. PICK c \in Counts : \A b \in Counts : c <= b
    BY <1>2, LeastNatural
<1>4. PICK x \in S \ Top(S, n) : Cardinality(Ahead(S, x)) = c
    BY <1>3
<1>5. Ahead(S, x) \subseteq Top(S, n)
    <2> SUFFICES ASSUME NEW y \in Ahead(S, x), y \notin Top(S, n) PROVE FALSE
        OBVIOUS
    <2>1. y \in S /\ Before(y, x)
        BY DEF Ahead
    <2>2. Cardinality(Ahead(S, y)) < c /\ Cardinality(Ahead(S, y)) \in Nat
        BY <2>1, <1>4, AheadGrows
    <2>3. c <= Cardinality(Ahead(S, y))
        BY <2>1, <1>3
    <2> QED BY <2>2, <2>3, <1>2, <1>3
<1>6. IsFiniteSet(Top(S, n)) /\ Cardinality(Top(S, n)) \in Nat
    BY FS_Subset, FS_CardinalityType DEF Top
<1>7. Cardinality(Ahead(S, x)) <= Cardinality(Top(S, n))
    BY <1>5, <1>6, FS_Subset
<1>8. ~(Cardinality(Ahead(S, x)) < n)
    BY Zenon DEF Top, Ahead
<1>9. Cardinality(Ahead(S, x)) \in Nat
    BY <1>1
<1> QED BY <1>6, <1>7, <1>8, <1>9

(* A top of at least one row, of rows that are there, has one.             *)
LEMMA TopHasFirst ==
    ASSUME NEW S, IsFiniteSet(S), S \subseteq Item, S # {}, NEW n \in Nat \ {0}
    PROVE  Top(S, n) # {}
<1>1. SUFFICES ASSUME Top(S, n) = {} PROVE FALSE
    OBVIOUS
<1>2. Cardinality(Top(S, n)) < n
    BY <1>1, FS_EmptySet
<1> QED BY <1>1, <1>2, ShortTopIsAll

-----------------------------------------------------------------------------
(* One page.                                                               *)

Browser ==
    [pc : {"idle", "browsing", "done"}, limit : Nat, cursor : Item \cup {NoCursor},
     first : SUBSET Item, shown : SUBSET Item, repeated : BOOLEAN]

(* What earlier pages have shown lies before the cursor, or is the row it  *)
(* points to; what they have not shown, of the rows from the beginning     *)
(* that are still there, lies behind it.                                   *)
ListingInv ==
    /\ rows \subseteq Item /\ IsFiniteSet(rows)
    /\ visible \subseteq rows
    /\ browser \in Browser
    /\ browser.first \subseteq rows /\ browser.shown \subseteq rows
    /\ BrowsesAreExact
    /\ browser.pc = "browsing" =>
          /\ browser.limit \in Limit
          /\ \A x \in browser.shown : ~AfterCursor(x)
          /\ \A x \in browser.first \cap visible : x \in browser.shown \/ AfterCursor(x)

LEMMA NoRowIsNoCursor == NoCursor \notin Item
BY ListingAssumption DEF NoCursor, Item

(* The page is taken from the rows behind the cursor; when there is more   *)
(* it is not empty and nothing is left out before its last row; otherwise  *)
(* it has all of them.                                                     *)
LEMMA PageIsNext ==
    ASSUME ListingInv, browser.pc = "browsing"
    PROVE  /\ Page \subseteq {x \in visible : AfterCursor(x)}
           /\ HasMore => Page # {}
           /\ Page # {} => /\ LastShown \in Page
                          /\ \A x \in Page : x = LastShown \/ Before(x, LastShown)
           /\ \A x \in visible : AfterCursor(x) =>
                 x \in Page \/ (HasMore /\ Before(LastShown, x))
<1> DEFINE S == {x \in visible : AfterCursor(x)}
<1> DEFINE limit == browser.limit
<1>1. S \subseteq Item /\ IsFiniteSet(S) /\ limit \in Nat \ {0} /\ limit + 1 \in Nat
    <2>1. S \subseteq rows /\ rows \subseteq Item /\ IsFiniteSet(rows) /\ limit \in Limit
        BY DEF ListingInv
    <2>2. limit \in Nat \ {0}
        BY <2>1, ListingAssumption
    <2>3. limit + 1 \in Nat
        BY <2>2
    <2> QED BY <2>1, <2>2, <2>3, FS_Subset
<1>2. Fetched = Top(S, limit + 1) /\ Fetched \subseteq S
    BY DEF Fetched, Top
<1>3. IsFiniteSet(Fetched) /\ Fetched \subseteq Item /\ Cardinality(Fetched) \in Nat
    BY <1>1, <1>2, FS_Subset, FS_CardinalityType
<1>4. Page \subseteq Fetched
    BY DEF Page, Top
<1>5. HasMore => Page # {}
    <2> SUFFICES ASSUME HasMore PROVE Page # {}
        OBVIOUS
    <2>1. Cardinality(Fetched) # 0
        BY <1>1, <1>3 DEF HasMore
    <2>2. Fetched # {}
        BY <2>1, FS_EmptySet
    <2> QED BY <2>2, <1>1, <1>3, TopHasFirst DEF Page
<1>6. ASSUME Page # {}
      PROVE  LastShown \in Page /\ \A x \in Page : x = LastShown \/ Before(x, LastShown)
    <2>1. PICK x \in Page : \A y \in Page : y = x \/ Before(y, x)
        BY <1>3, <1>4, <1>6, LastRow
    <2> QED BY <2>1, <1>6 DEF LastShown
<1>7. ASSUME NEW x \in S PROVE x \in Page \/ (HasMore /\ Before(LastShown, x))
    <2>1. CASE ~HasMore
        <3>1. Cardinality(Fetched) < limit + 1
            BY <2>1, <1>1, <1>3 DEF HasMore
        <3>2. Fetched = S
            BY <3>1, <1>1, <1>2, ShortTopIsAll
        <3> QED BY <3>2, <2>1 DEF Page
    <2>2. CASE HasMore
        <3> DEFINE last == LastShown
        <3>1. last \in Page /\ last \in Fetched /\ last \in S /\ Page = Top(Fetched, limit)
            BY <2>2, <1>2, <1>4, <1>5, <1>6 DEF Page
        <3>2. x = last \/ Before(last, x) \/ Before(x, last)
            BY <3>1, <1>1, BeforeIsTotal
        <3>3. ASSUME Before(x, last) PROVE x \in Page
            <4>1. x \in Fetched
                BY <3>1, <3>3, <1>1, <1>2, TopIsClosed
            <4> QED BY <4>1, <3>1, <3>3, <1>1, <1>3, TopIsClosed
        <3> QED BY <2>2, <3>1, <3>2, <3>3
    <2> QED BY <2>1, <2>2
<1> QED BY <1>2, <1>4, <1>5, <1>6, <1>7

-----------------------------------------------------------------------------
LEMMA ListingStarts == ListingInit => ListingInv
BY FS_EmptySet DEF ListingInit, ListingInv, Browser, Idle, BrowsesAreExact

LEMMA PageStep == ASSUME ListingInv, NextPage PROVE ListingInv'
<1> DEFINE last == LastShown
<1>1. /\ browser.pc = "browsing" /\ UNCHANGED <<rows, visible>>
      /\ rows \subseteq Item /\ visible \subseteq rows /\ browser \in Browser
    BY DEF NextPage, ListingInv
<1>2. Page \subseteq Item
    BY <1>1, PageIsNext
<1>3. last \in Item \cup {NoCursor}
    BY <1>1, <1>2, PageIsNext DEF LastShown
<1>4. /\ browser' \in Browser
      /\ browser'.pc = (IF HasMore THEN "browsing" ELSE "done")
      /\ browser'.cursor = last
      /\ browser'.shown = browser.shown \cup Page
      /\ browser'.limit = browser.limit
      /\ browser'.first = browser.first
      /\ browser'.repeated = (browser.repeated \/ Page \cap browser.shown # {})
    BY <1>1, <1>2, <1>3 DEF NextPage, Browser
<1>s. browser'.shown \subseteq rows
    BY <1>1, <1>4, PageIsNext DEF ListingInv
<1>5. ~browser'.repeated
    <2>1. Page \cap browser.shown = {} /\ ~browser.repeated
        BY <1>1, PageIsNext DEF ListingInv, BrowsesAreExact
    <2> QED BY <1>4, <2>1
<1>6. CASE ~HasMore
    <2>1. browser.first \cap visible \subseteq browser'.shown
        BY <1>1, <1>4, <1>6, PageIsNext DEF ListingInv
    <2> QED BY <1>1, <1>4, <1>s, <1>5, <1>6, <2>1 DEF ListingInv, BrowsesAreExact
<1>7. CASE HasMore
    <2>1. last \in Page /\ last \in Item /\ AfterCursor(last) /\ last # NoCursor
        BY <1>1, <1>2, <1>7, PageIsNext, NoRowIsNoCursor
    <2>2. ASSUME NEW x \in Item PROVE AfterCursor(x)' <=> Before(last, x)
        BY <1>4, <2>1 DEF AfterCursor
    <2>3. ASSUME NEW x \in browser'.shown PROVE ~AfterCursor(x)'
        <3>1. x \in Item /\ last \in Item
            BY <1>1, <1>2, <1>4, <2>1 DEF Browser
        <3>2. CASE x \in Page
            <4>1. x = last \/ Before(x, last)
                BY <1>1, <3>2, PageIsNext
            <4>2. ~Before(last, x)
                BY <3>1, <4>1, BeforeIsTotal
            <4> QED BY <2>2, <3>1, <4>2
        <3>3. CASE x \in browser.shown
            <4>1. browser.cursor \in Item /\ ~Before(browser.cursor, x) /\ Before(browser.cursor, last)
                BY <1>1, <2>1, <3>3 DEF ListingInv, AfterCursor, Browser
            <4>2. ~Before(last, x)
                BY <3>1, <4>1, BeforeIsTotal
            <4> QED BY <2>2, <3>1, <4>2
        <3> QED BY <1>4, <3>2, <3>3
    <2>4. ASSUME NEW x \in browser'.first \cap visible' PROVE x \in browser'.shown \/ AfterCursor(x)'
        <3>1. x \in browser.first \cap visible /\ x \in Item
            BY <1>1, <1>4
        <3>2. x \in browser.shown \/ AfterCursor(x)
            BY <1>1, <3>1 DEF ListingInv
        <3>3. AfterCursor(x) => x \in Page \/ Before(last, x)
            BY <1>1, <3>1, PageIsNext
        <3> QED BY <1>4, <2>2, <3>1, <3>2, <3>3
    <2> QED BY <1>1, <1>4, <1>s, <1>5, <1>7, <2>3, <2>4 DEF ListingInv, BrowsesAreExact
<1> QED BY <1>6, <1>7

LEMMA ListingStep == ListingInv /\ [ListingNext]_listingVars => ListingInv'
<1> SUFFICES ASSUME ListingInv, [ListingNext]_listingVars PROVE ListingInv'
    OBVIOUS
<1>1. ASSUME NEW x \in Item, InsertRow(x) PROVE ListingInv'
    <2>1. IsFiniteSet(rows')
        BY <1>1, FS_AddElement DEF InsertRow, ListingInv
    <2>2. x \notin rows
        BY <1>1 DEF InsertRow
    <2> QED BY <1>1, <2>1, <2>2 DEF InsertRow, ListingInv, BrowsesAreExact, AfterCursor
<1>2. ASSUME NEW x \in visible, DeleteRow(x) PROVE ListingInv'
    BY <1>2 DEF DeleteRow, ListingInv, BrowsesAreExact, AfterCursor
<1>3. ASSUME NEW limit \in Limit, Browse(limit) PROVE ListingInv'
    <2>1. browser' = [pc |-> "browsing", limit |-> limit, cursor |-> NoCursor, first |-> visible,
                      shown |-> {}, repeated |-> FALSE]
        BY <1>3 DEF Browse, Idle
    <2>2. browser' \in Browser
        BY <2>1, ListingAssumption DEF Browser, ListingInv
    <2>3. /\ browser'.pc = "browsing" /\ browser'.limit = limit /\ browser'.cursor = NoCursor
          /\ browser'.first = visible /\ browser'.shown = {} /\ browser'.repeated = FALSE
        BY <2>1
    <2>4. UNCHANGED <<rows, visible>>
        BY <1>3 DEF Browse
    <2>5. BrowsesAreExact'
        BY <2>3 DEF BrowsesAreExact
    <2>6. \A x : AfterCursor(x)'
        BY <2>3 DEF AfterCursor
    <2> QED BY <2>2, <2>3, <2>4, <2>5, <2>6 DEF ListingInv
<1>4. CASE NextPage
    BY <1>4, PageStep
<1>5. CASE UNCHANGED listingVars
    BY <1>5 DEF listingVars, ListingInv, BrowsesAreExact, AfterCursor
<1> QED BY <1>1, <1>2, <1>3, <1>4, <1>5 DEF ListingNext

(* The inductive invariant holds in every state.                           *)
THEOREM ListingCorrect == ListingSpec => []ListingInv
BY ListingStarts, ListingStep, PTL DEF ListingSpec

(* The rows and the one who browses them keep to their types.              *)
LEMMA ListingTypes == ListingSpec => []ListingTypeOK
<1>1. ListingInv => ListingTypeOK
    BY DEF ListingInv, ListingTypeOK, Browser
<1> QED BY <1>1, ListingCorrect, PTL

(* No row is shown twice, and none that stayed is missed, whatever is      *)
(* inserted and deleted between two pages (findMany,                       *)
(* buildPaginatedResponse).                                                *)
THEOREM BrowsingIsExact == ListingSpec => []BrowsesAreExact
<1>1. ListingInv => BrowsesAreExact
    BY DEF ListingInv
<1> QED BY <1>1, ListingCorrect, PTL

-----------------------------------------------------------------------------
(* The checkout page.                                                      *)

(* s is t, or what t may become.                                           *)
NotBefore(s, t) == s = t \/ <<t, s>> \in Later

(* The answer that is wanted, when it is there, is not before the copy,    *)
(* and the reservation itself is not before either of them.                *)
CheckoutInv ==
    /\ copy \in BookedStatus /\ booked \in BookedStatus
    /\ fetch \in [Fetch -> {"none", "sent", "failed"} \cup BookedStatus]
    /\ NotBefore(booked, copy)
    /\ wanted \subseteq Fetch
    /\ \A f \in wanted : fetch[f] \in BookedStatus =>
          NotBefore(fetch[f], copy) /\ NotBefore(booked, fetch[f])
    /\ \A f, g \in wanted : f = g

(* What moves only the reservation moves it forward.                       *)
LEMMA ForwardIsTransitive ==
    ASSUME NEW r \in BookedStatus, NEW s \in BookedStatus, NEW t \in BookedStatus,
           NotBefore(t, s), NotBefore(s, r)
    PROVE  NotBefore(t, r)
BY DEF NotBefore, Later, Moves, BookedStatus

LEMMA CheckoutStarts == CheckoutInit => CheckoutInv
BY DEF CheckoutInit, CheckoutInv, NotBefore, BookedStatus

(* A step that changes of this part of the state at most the reservation,  *)
(* and that forward, keeps the invariant.                                  *)
LEMMA ReservationMoves ==
    ASSUME CheckoutInv, booked' \in BookedStatus, NotBefore(booked', booked),
           UNCHANGED <<copy, fetch, wanted>>
    PROVE  CheckoutInv'
<1>1. NotBefore(booked', copy)
    BY ForwardIsTransitive DEF CheckoutInv
<1>2. ASSUME NEW f \in wanted, fetch[f] \in BookedStatus PROVE NotBefore(booked', fetch[f])
    BY <1>2, ForwardIsTransitive DEF CheckoutInv
<1> QED BY <1>1, <1>2 DEF CheckoutInv, NotBefore

(* Asking: the request that was wanted before is not wanted any more.      *)
LEMMA Asking == ASSUME NEW f \in Fetch, CheckoutInv, Ask(f) PROVE CheckoutInv' /\ copy' = copy
BY DEF CheckoutInv, Ask, NotBefore, BookedStatus

LEMMA Serving ==
    ASSUME NEW f \in Fetch, CheckoutInv, ServeFetch(f) PROVE CheckoutInv' /\ copy' = copy
<1> USE DEF CheckoutInv, ServeFetch
<1>1. fetch' \in [Fetch -> {"none", "sent", "failed"} \cup BookedStatus]
    BY DEF BookedStatus
<1>2. ASSUME NEW g \in wanted, fetch'[g] \in BookedStatus
      PROVE  NotBefore(fetch'[g], copy) /\ NotBefore(booked, fetch'[g])
    BY <1>2 DEF NotBefore, BookedStatus
<1> QED BY <1>1, <1>2 DEF NotBefore

(* Only here the copy moves: to the one answer that is wanted.             *)
LEMMA Answered ==
    ASSUME NEW f \in Fetch, CheckoutInv, FetchAnswered(f)
    PROVE  CheckoutInv' /\ NotBefore(copy', copy)
<1> USE DEF CheckoutInv, FetchAnswered, NewCopy
<1>1. CASE f \in wanted
    <2>1. wanted' = {}
        BY <1>1
    <2>2. copy' \in BookedStatus /\ NotBefore(copy', copy) /\ NotBefore(booked, copy')
        BY <1>1 DEF NotBefore
    <2> QED BY <2>1, <2>2 DEF NotBefore
<1>2. CASE f \notin wanted
    BY <1>2 DEF NotBefore
<1> QED BY <1>1, <1>2

LEMMA CheckoutStep ==
    ASSUME CheckoutInv, [CheckoutNext]_checkoutVars
    PROVE  CheckoutInv' /\ NotBefore(copy', copy)
<1> DEFINE Good == CheckoutInv' /\ NotBefore(copy', copy)
<1>1. ASSUME NEW s \in Spot, Toggle(s) PROVE Good
    BY <1>1 DEF Toggle, CheckoutInv, NotBefore
<1>2. CASE Continue \/ GoToPayment \/ Cancel \/ TimePasses
    BY <1>2 DEF Continue, GoToPayment, Cancel, TimePasses, CheckoutInv, NotBefore
<1>3. CASE HoldAnswered \/ CancelAnswered
    BY <1>3 DEF HoldAnswered, CancelAnswered, CheckoutInv, NotBefore
<1>4. CASE Move \/ ServeHold \/ ServeCancel
    <2>1. booked' \in BookedStatus /\ NotBefore(booked', booked) /\ UNCHANGED <<copy, fetch, wanted>>
        BY <1>4 DEF Move, ServeHold, ServeCancel, NotBefore, Later, Moves, BookedStatus, CheckoutInv
    <2> QED BY <2>1, ReservationMoves DEF NotBefore
<1>5. ASSUME NEW page \in {"event", "checkout", "payment"}, Navigate(page) PROVE Good
    BY <1>5 DEF Navigate, CheckoutInv, NotBefore
<1>6. ASSUME NEW f \in Fetch, Poll(f) \/ CountdownOver(f) PROVE Good
    BY <1>6, Asking DEF Poll, CountdownOver, NotBefore
<1>7. ASSUME NEW f \in Fetch, ServeFetch(f) PROVE Good
    BY <1>7, Serving DEF NotBefore
<1>8. ASSUME NEW f \in Fetch, FetchAnswered(f) PROVE Good
    BY <1>8, Answered
<1>9. CASE UNCHANGED checkoutVars
    BY <1>9 DEF checkoutVars, CheckoutInv, NotBefore
<1> QED BY <1>1, <1>2, <1>3, <1>4, <1>5, <1>6, <1>7, <1>8, <1>9 DEF CheckoutNext, ServeCheckout

(* The inductive invariant holds in every state.                           *)
THEOREM CheckoutCorrect == CheckoutSpec => []CheckoutInv
<1>1. CheckoutInv /\ [CheckoutNext]_checkoutVars => CheckoutInv'
    BY CheckoutStep
<1> QED BY CheckoutStarts, <1>1, PTL DEF CheckoutSpec

LEMMA CheckoutTypeStep ==
    CheckoutTypeOK /\ CheckoutInv' /\ [CheckoutNext]_checkoutVars => CheckoutTypeOK'
<1> SUFFICES ASSUME CheckoutTypeOK, CheckoutInv', [CheckoutNext]_checkoutVars PROVE CheckoutTypeOK'
    OBVIOUS
<1> USE CheckoutAssumption DEF CheckoutTypeOK
<1>1. Cardinality(wanted') <= 1
    <2>1. CASE wanted' = {}
        BY <2>1, FS_EmptySet
    <2>2. ASSUME NEW f \in wanted' PROVE Cardinality(wanted') <= 1
        <3>1. wanted' = {f}
            BY DEF CheckoutInv
        <3>2. Cardinality(wanted') = 1
            BY <3>1, FS_Singleton
        <3> QED BY <3>2
    <2> QED BY <2>1, <2>2
<1>2. copy' \in BookedStatus /\ booked' \in BookedStatus /\ wanted' \subseteq Fetch
      /\ fetch' \in [Fetch -> {"none", "sent", "failed"} \cup BookedStatus]
    BY DEF CheckoutInv
<1>3. /\ picked' \subseteq Spot /\ view' \in {"event", "checkout", "payment"}
      /\ holding' \in {"none", "sent", "held", "refused"}
      /\ timeUp' \in BOOLEAN /\ errorShown' \in BOOLEAN
      /\ cancelling' \in {"none", "sent", "done", "refused"} /\ lost' \in 0..MaxLost
    <2>1. CASE \E s \in Spot : Toggle(s)
        BY <2>1 DEF Toggle
    <2>2. CASE Continue \/ GoToPayment \/ Cancel \/ Move \/ TimePasses
        BY <2>2 DEF Continue, GoToPayment, Cancel, Move, TimePasses
    <2>3. CASE \E page \in {"event", "checkout", "payment"} : Navigate(page)
        BY <2>3 DEF Navigate
    <2>4. CASE \E f \in Fetch : Poll(f) \/ CountdownOver(f)
        BY <2>4 DEF Poll, CountdownOver, Ask
    <2>5. CASE ServeHold \/ ServeCancel
        BY <2>5 DEF ServeHold, ServeCancel, Lose
    <2>6. CASE HoldAnswered \/ CancelAnswered
        BY <2>6 DEF HoldAnswered, CancelAnswered
    <2>7. ASSUME NEW f \in Fetch, ServeFetch(f) \/ FetchAnswered(f) 
          PROVE  /\ picked' \subseteq Spot /\ view' \in {"event", "checkout", "payment"}
                 /\ holding' \in {"none", "sent", "held", "refused"}
                 /\ timeUp' \in BOOLEAN /\ errorShown' \in BOOLEAN
                 /\ cancelling' \in {"none", "sent", "done", "refused"} /\ lost' \in 0..MaxLost
        <3>1. CASE ServeFetch(f)
            BY <3>1 DEF ServeFetch, Lose
        <3>2. CASE FetchAnswered(f)
            BY <3>2 DEF FetchAnswered
        <3> QED BY <2>7, <3>1, <3>2
    <2>8. CASE UNCHANGED checkoutVars
        BY <2>8 DEF checkoutVars
    <2> QED BY <2>1, <2>2, <2>3, <2>4, <2>5, <2>6, <2>7, <2>8 DEF CheckoutNext, ServeCheckout
<1> QED BY <1>1, <1>2, <1>3

(* The pages, the mutations and the query keep to their types, in          *)
(* particular the query wants one answer at most.                          *)
THEOREM CheckoutTypes == CheckoutSpec => []CheckoutTypeOK
<1>1. CheckoutInit => CheckoutTypeOK
    <2> SUFFICES ASSUME CheckoutInit PROVE CheckoutTypeOK
        OBVIOUS
    <2>1. wanted \subseteq Fetch /\ Cardinality(wanted) = 0
        BY FS_EmptySet DEF CheckoutInit
    <2>2. fetch \in [Fetch -> {"none", "sent", "failed"} \cup BookedStatus]
        BY DEF CheckoutInit
    <2>3. lost \in 0..MaxLost
        BY CheckoutAssumption DEF CheckoutInit
    <2>4. Cardinality(wanted) <= 1
        BY <2>1
    <2>5. /\ picked \subseteq Spot /\ view = "event" /\ holding = "none" /\ booked = "NONE" /\ copy = "NONE"
          /\ timeUp = FALSE /\ errorShown = FALSE /\ cancelling = "none"
        BY DEF CheckoutInit
    <2> QED BY <2>1, <2>2, <2>3, <2>4, <2>5 DEF CheckoutTypeOK, BookedStatus
<1> QED BY <1>1, CheckoutTypeStep, CheckoutCorrect, PTL DEF CheckoutSpec

(* No answer that comes late takes the page back to what the reservation   *)
(* was before (CheckoutPage.tsx: query, handleExpired).                    *)
THEOREM PageNeverGoesBack == CheckoutSpec => CopyNeverGoesBack
<1>1. CheckoutInv /\ [CheckoutNext]_checkoutVars => [copy' = copy \/ <<copy, copy'>> \in Later]_checkoutVars
    BY CheckoutStep DEF NotBefore
<1> QED BY <1>1, CheckoutCorrect, PTL DEF CheckoutSpec, CopyNeverGoesBack

-----------------------------------------------------------------------------
(* The life of a process.                                                  *)

(* Nothing is worked on that shutdown waits for. *)
Quiet == \A t \in Task : task[t] \in {"none", "abandoned"}

(* What every run of shutdown that has come to a step has behind it.       *)
Behind(step) ==
    CASE step = "queues" -> {"workers"}
      [] step = "database" -> {"workers", "queues"}
      [] step = "redis" -> {"workers", "queues", "database"}
      [] OTHER -> {}

(* The server is closed before the workers are told, and they are done     *)
(* before anything else is closed.                                         *)
ShutdownInv ==
    /\ ShutdownTypeOK
    /\ server = "closed" => ~Working("request")
    /\ \A a \in Alarm :
          /\ shutdown[a] \in Resource => server = "closed" /\ ~taking
          /\ shutdown[a] \in {"queues", "database", "redis"} => Quiet
          /\ Behind(shutdown[a]) \cap open = {}
    /\ open # Resource => server = "closed" /\ ~taking /\ Quiet
    /\ exit = "clean" => Quiet /\ open = {}

LEMMA ShutdownStarts == ShutdownInit => ShutdownInv
BY DEF ShutdownInit, ShutdownInv, ShutdownTypeOK, Resource, Step, Working, Quiet, Behind

(* While anything is closed already, or its closing has begun, no task is  *)
(* taken: that is what keeps Quiet.                                        *)
LEMMA ShutdownStep == ShutdownInv /\ [ShutdownNext]_processVars => ShutdownInv'
<1> SUFFICES ASSUME ShutdownInv, [ShutdownNext]_processVars PROVE ShutdownInv'
    OBVIOUS
<1> USE DEF ShutdownInv, ShutdownTypeOK, Resource, Step, Working, Quiet, Behind
<1>1. CASE Listen
    BY <1>1 DEF Listen, Running
<1>2. CASE ListenFails
    BY <1>2 DEF ListenFails, Running
<1>3. ASSUME NEW t \in Task, AcceptRequest(t) \/ ClientLeaves(t) \/ TakeJob(t) \/ EndTask(t)
      PROVE  ShutdownInv'
    <2>1. CASE AcceptRequest(t)
        BY <2>1 DEF AcceptRequest, Running, Work
    <2>2. CASE TakeJob(t)
        BY <2>2 DEF TakeJob, Running, Work
    <2>3. CASE EndTask(t)
        BY <2>3 DEF EndTask, Running, Work
    <2>4. CASE ClientLeaves(t)
        BY <2>4 DEF ClientLeaves, Running, Work
    <2> QED BY <1>3, <2>1, <2>2, <2>3, <2>4
<1>4. ASSUME NEW a \in Alarm, BeginShutdown(a) PROVE ShutdownInv'
    BY <1>4 DEF BeginShutdown, Reached, Running, Proceed
<1>5. ASSUME NEW a \in Alarm, GoOn(a) PROVE ShutdownInv'
    <2>1. CASE ServerClosed(a)
        BY <2>1 DEF ServerClosed, Reached, Running, Proceed
    <2>2. CASE WorkersClosed(a)
        <3>1. Quiet
            BY <2>2 DEF WorkersClosed, Closed, Reached, Running
        <3> QED BY <2>2, <3>1 DEF WorkersClosed, Closed, Reached, Running, Proceed
    <2>3. CASE QueuesClosed(a)
        BY <2>3 DEF QueuesClosed, Closed, Reached, Running, Proceed
    <2>4. CASE DatabaseClosed(a)
        BY <2>4 DEF DatabaseClosed, Closed, Reached, Running, Proceed
    <2>5. CASE RedisClosed(a)
        BY <2>5 DEF RedisClosed, Reached, Running
    <2> QED BY <1>5, <2>1, <2>2, <2>3, <2>4, <2>5 DEF GoOn
<1>6. ASSUME NEW a \in Alarm, ShutdownFails(a) PROVE ShutdownInv'
    BY <1>6 DEF ShutdownFails, Running
<1>7. CASE UNCHANGED processVars
    BY <1>7 DEF processVars
<1> QED BY <1>1, <1>2, <1>3, <1>4, <1>5, <1>6, <1>7 DEF ShutdownNext

(* The inductive invariant holds in every state.                           *)
THEOREM ShutdownCorrect == ShutdownSpec => []ShutdownInv
BY ShutdownStarts, ShutdownStep, PTL DEF ShutdownSpec

(* The server, its tasks and the runs of shutdown keep to their types.     *)
LEMMA ShutdownTypes == ShutdownSpec => []ShutdownTypeOK
<1>1. ShutdownInv => ShutdownTypeOK
    BY DEF ShutdownInv
<1> QED BY <1>1, ShutdownCorrect, PTL

(* Nothing that a job or a request with a waiting client needs is closed   *)
(* under it, and exit code 0 means that all is closed and none of them is  *)
(* half done (main.ts: shutdown).                                          *)
THEOREM NothingEverCutOff == ShutdownSpec => []NothingIsCutOff
<1>1. ShutdownInv => NothingIsCutOff
    BY DEF ShutdownInv, Quiet, NothingIsCutOff
<1> QED BY <1>1, ShutdownCorrect, PTL

-----------------------------------------------------------------------------
(* The breaker.                                                            *)

GatewayInv == GatewayTypeOK /\ ClosedMeansFewFailures

LEMMA GatewayStarts == GatewayInit => GatewayInv
BY ThresholdAssumption, CallFailuresAssumption
DEF GatewayInit, GatewayInv, GatewayTypeOK, ClosedMeansFewFailures, Breaker!Init, Breaker!TypeOK,
    Breaker!CircuitState, Breaker!ClosedMeansFewFailures

(* Whatever state a call began in: a success clears the count and closes,  *)
(* a failure counts and opens at the threshold.                            *)
LEMMA GatewayStep == GatewayInv /\ [GatewayNext]_gatewayVars => GatewayInv'
<1> SUFFICES ASSUME GatewayInv, [GatewayNext]_gatewayVars PROVE GatewayInv'
    OBVIOUS
<1> USE ThresholdAssumption, CallFailuresAssumption
    DEF GatewayInv, GatewayTypeOK, ClosedMeansFewFailures, Breaker!TypeOK, Breaker!CircuitState,
        Breaker!ClosedMeansFewFailures
<1>1. ASSUME NEW x \in Caller, BeginCall(x) PROVE GatewayInv'
    BY <1>1 DEF BeginCall, Breaker!Enter, Breaker!Refuses
<1>2. ASSUME NEW x \in Caller, CallSucceeds(x) PROVE GatewayInv'
    BY <1>2 DEF CallSucceeds, Breaker!OnSuccess
<1>3. ASSUME NEW x \in Caller, CallRejects(x) PROVE GatewayInv'
    <2>1. failureCount \in Nat /\ failureCount' = failureCount + 1
        BY <1>3 DEF CallRejects, Breaker!OnFailure
    <2>2. /\ cooledDown' = FALSE
          /\ circuit' = IF failureCount' >= FailureThreshold \/ circuit = "HALF_OPEN"
                        THEN "OPEN" ELSE circuit
        BY <1>3 DEF CallRejects, Breaker!OnFailure
    <2>3. circuit \in Breaker!CircuitState /\ (circuit = "CLOSED" <=> failureCount < FailureThreshold)
        OBVIOUS
    <2>4. circuit' \in Breaker!CircuitState /\ (circuit' = "CLOSED" <=> failureCount' < FailureThreshold)
        BY <2>1, <2>2, <2>3
    <2>5. failureCount' \in Nat
        BY <2>1
    <2>6. cooledDown' \in BOOLEAN
        BY <2>2, Zenon
    <2>7. calling' \subseteq Caller /\ callFailures' \in 0..MaxCallFailures
        BY <1>3 DEF CallRejects
    <2> QED BY <2>4, <2>5, <2>6, <2>7, Zenon
<1>4. CASE CooldownEnds
    BY <1>4 DEF CooldownEnds, Breaker!CooldownPasses
<1>5. CASE ProcessRestarts
    BY <1>5 DEF ProcessRestarts, Breaker!Restart
<1>6. CASE UNCHANGED gatewayVars
    BY <1>6 DEF gatewayVars
<1> QED BY <1>1, <1>2, <1>3, <1>4, <1>5, <1>6 DEF GatewayNext, EndCall

LEMMA GatewayTypes == GatewaySpec => []GatewayTypeOK
<1>1. GatewayInv => GatewayTypeOK
    BY DEF GatewayInv
<1> QED BY <1>1, GatewayStarts, GatewayStep, PTL DEF GatewaySpec

(* For every threshold and any number of overlapping calls the breaker is  *)
(* closed exactly while fewer calls have failed since the last success     *)
(* (circuit-breaker.ts: onSuccess, onFailure).                             *)
THEOREM ClosedWhileFewFail == GatewaySpec => []ClosedMeansFewFailures
<1>1. GatewayInv => ClosedMeansFewFailures
    BY DEF GatewayInv
<1> QED BY <1>1, GatewayStarts, GatewayStep, PTL DEF GatewaySpec

-----------------------------------------------------------------------------
(* The composition.                                                        *)

LEMMA PartsStart ==
    Init => /\ PricingInit /\ EventInit /\ ListingInit
            /\ SessionInit /\ CheckoutInit /\ ShutdownInit /\ GatewayInit
BY DEF Init

(* A step of the composition is a step of one part and leaves the others   *)
(* as they are.                                                            *)
LEMMA PartsStep ==
    [Next]_serviceVars =>
       /\ [PricingNext]_pricingVars /\ [EventNext]_eventVars /\ [ListingNext]_listingVars
       /\ [SessionNext]_sessionVars /\ [CheckoutNext]_checkoutVars /\ [ShutdownNext]_processVars
       /\ [GatewayNext]_gatewayVars
BY DEF Next, InPricing, InEvent, InListing, InSessions, InCheckout, InProcess, InGateway, serviceVars

(* Each part behaves in the composition as it does by itself, so that all  *)
(* that is proved of a part holds of the composition.                      *)
THEOREM PartsBehave ==
    Spec => /\ PricingSpec /\ EventSpec /\ ListingSpec /\ SessionSpec /\ CheckoutSpec
            /\ ShutdownSpec /\ GatewaySpec
BY PartsStart, PartsStep, PTL
DEF Spec, PricingSpec, EventSpec, ListingSpec, SessionSpec, CheckoutSpec, ShutdownSpec, GatewaySpec

(* Every variable of every part keeps to its type.                         *)
THEOREM ServiceTypes == Spec => []TypeOK
<1>1. PriceShape => PricingTypeOK
    BY DEF PriceShape
<1> QED
    BY <1>1, PartsBehave, PricingTypes, EventTypes, ListingTypes, SessionTypes, CheckoutTypes, ShutdownTypes,
       GatewayTypes, PTL
    DEF TypeOK

LEMMA ValuesBehave == Spec => []ValuesKeepLaws
<1>1. Init => ValuesKeepLaws
    <2>1. sample = NoSample => ValuesKeepLaws
        BY DEF NoSample, ValuesKeepLaws
    <2> QED BY <2>1, SampleKeepsLaws DEF Init
<1>2. ValuesKeepLaws /\ [Next]_serviceVars => ValuesKeepLaws'
    <2>1. [Next]_serviceVars => UNCHANGED sample
        BY DEF Next, InPricing, InEvent, InListing, InSessions, InCheckout, InProcess, InGateway, serviceVars
    <2>2. ValuesKeepLaws /\ UNCHANGED sample => ValuesKeepLaws'
        BY DEF ValuesKeepLaws, MoneyLaw
    <2> QED BY <2>1, <2>2
<1> QED BY <1>1, <1>2, PTL DEF Spec

(* What the parts promise holds of the composition: prices that were true  *)
(* and are current and do not compound, copies that are outdated for a     *)
(* cause, lists without repetition or omission, sessions that end without  *)
(* a false alarm or a forgotten token, a page that does not go back, a     *)
(* shutdown that cuts nothing off, a breaker that counts right and values  *)
(* that keep their laws.                                                   *)
THEOREM ServicesKeepTheirPromises ==
    Spec => /\ [](PricesWereTrue /\ CleanPricesAreCurrent /\ SurgesNeverCompound)
            /\ [](StaleOnlyByLateFill /\ BrowsesAreExact)
            /\ [](AlarmsHaveACause /\ LiveTokensAreHeld /\ NothingIsCutOff /\ ClosedMeansFewFailures)
            /\ CopyNeverGoesBack /\ []ValuesKeepLaws
BY PartsBehave, ValuesBehave, PricesAlwaysWereTrue, CleanPricesStayCurrent, SurgesDoNotCompound, StaleCopiesHaveACause,
   BrowsingIsExact, NoFalseAlarm, NoForgottenToken, NothingEverCutOff, ClosedWhileFewFail,
   PageNeverGoesBack, PTL
=============================================================================
