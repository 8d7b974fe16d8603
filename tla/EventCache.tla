----------------------------- MODULE EventCache -----------------------------
(***************************************************************************)
(* The details of one event: its row, the venue it is shown with, and the  *)
(* copy in Redis that findById fills and update and remove delete          *)
(* (events.service.ts, cache.ts).  The database and the cache are two      *)
(* stores; a handler goes from one to the other by separate calls.         *)
(***************************************************************************)
EXTENDS Naturals

CONSTANTS
    Editor,             \* requests about the event that may overlap
    MaxVersions,        \* bound on changes of the event and of its venue
    MaxCacheFailures    \* bound on rejected calls

ASSUME EventAssumption == MaxVersions \in Nat \ {0} /\ MaxCacheFailures \in Nat

VARIABLES
    eventRow,           \* the row, by the number of its changes
    venueVersion,       \* changes of the venue's name or city
    eventCache,         \* event:<id>
    editor,             \* the handlers
    late,               \* is an outdated copy there that nobody will delete?
    cacheFailures

eventVars == <<eventRow, venueVersion, eventCache, editor, late, cacheFailures>>

-----------------------------------------------------------------------------
NoCopy == [event |-> 0, venue |-> 0]
IdleEditor == [pc |-> "idle", op |-> "find", copy |-> NoCopy]

EventRow == [state : {"none", "live", "deleted"}, version : 0..MaxVersions]
Copy == [event : 0..MaxVersions, venue : 0..MaxVersions]
EditorState ==
    [pc : {"idle", "get", "load", "set", "find", "write", "del"},
     op : {"find", "update", "remove"}, copy : Copy]

EventTypeOK ==
    /\ eventRow \in EventRow
    /\ venueVersion \in 1..MaxVersions
    /\ eventCache \in Copy
    /\ editor \in [Editor -> EditorState]
    /\ late \in BOOLEAN
    /\ cacheFailures \in 0..MaxCacheFailures

EventInit ==
    /\ eventRow = [state |-> "none", version |-> 0]
    /\ venueVersion = 1
    /\ eventCache = NoCopy
    /\ editor = [x \in Editor |-> IdleEditor]
    /\ late = FALSE
    /\ cacheFailures = 0

EventLive == eventRow.state = "live"
CurrentCopy == [event |-> eventRow.version, venue |-> venueVersion]

(* A copy is outdated when the event has changed since, or is deleted.     *)
Outdated(copy) == copy # NoCopy /\ (~EventLive \/ copy.event # eventRow.version)

WillDelete(x) == editor[x].pc = "del"

EditorGoto(x, pc) == editor' = [editor EXCEPT ![x].pc = pc]
EndEditor(x) == editor' = [editor EXCEPT ![x] = IdleEditor]

-----------------------------------------------------------------------------
(* events.service.create, and venues.service.update, which does not know   *)
(* of the copies that show the venue.                                      *)

CreateEvent ==
    /\ eventRow.state = "none"
    /\ eventRow' = [state |-> "live", version |-> 1]
    /\ UNCHANGED <<venueVersion, eventCache, editor, late, cacheFailures>>

UpdateVenue ==
    /\ venueVersion < MaxVersions
    /\ venueVersion' = venueVersion + 1
    /\ UNCHANGED <<eventRow, eventCache, editor, late, cacheFailures>>

-----------------------------------------------------------------------------
(* findById: getOrSet.                                                     *)

FindById(x) ==
    /\ editor[x].pc = "idle"
    /\ eventRow.state # "none"
    /\ EditorGoto(x, "get")
    /\ UNCHANGED <<eventRow, venueVersion, eventCache, late, cacheFailures>>

GetCopy(x) ==
    /\ editor[x].pc = "get"
    /\ IF eventCache # NoCopy THEN EndEditor(x) ELSE EditorGoto(x, "load")
    /\ UNCHANGED <<eventRow, venueVersion, eventCache, late, cacheFailures>>

(* The factory; an event that is not there is an error and is not stored.  *)
LoadDetail(x) ==
    /\ editor[x].pc = "load"
    /\ IF EventLive THEN editor' = [editor EXCEPT ![x].pc = "set", ![x].copy = CurrentCopy] ELSE EndEditor(x)
    /\ UNCHANGED <<eventRow, venueVersion, eventCache, late, cacheFailures>>

StoreCopy(x) ==
    /\ editor[x].pc = "set"
    /\ eventCache' = editor[x].copy
    /\ late' = (Outdated(editor[x].copy) /\ \A y \in Editor : ~WillDelete(y))
    /\ EndEditor(x)
    /\ UNCHANGED <<eventRow, venueVersion, cacheFailures>>

-----------------------------------------------------------------------------
(* update and remove.  Nobody but the organizer and admins gets past the   *)
(* row; the write itself asks for nothing but the id, so that an update    *)
(* may still change a row that was deleted meanwhile.                      *)

EditEvent(x, op) ==
    /\ editor[x].pc = "idle"
    /\ eventRow.state # "none"
    /\ editor' = [editor EXCEPT ![x].pc = "find", ![x].op = op]
    /\ UNCHANGED <<eventRow, venueVersion, eventCache, late, cacheFailures>>

FindRow(x) ==
    /\ editor[x].pc = "find"
    /\ \/ EventLive /\ EditorGoto(x, "write")
       \/ EndEditor(x)                       \* not found, or forbidden
    /\ UNCHANGED <<eventRow, venueVersion, eventCache, late, cacheFailures>>

Written(op) ==
    IF op = "remove" THEN [eventRow EXCEPT !.state = "deleted"]
    ELSE [eventRow EXCEPT !.version = @ + 1]

MayWrite(x) == editor[x].pc = "write" /\ (editor[x].op = "update" => eventRow.version < MaxVersions)

(* Variant: a removal leaves the copy alone. *)
WriteOrForget(x) ==
    /\ MayWrite(x)
    /\ eventRow' = Written(editor[x].op)
    /\ IF editor[x].op = "remove" THEN EndEditor(x) ELSE EditorGoto(x, "del")
    /\ UNCHANGED <<venueVersion, eventCache, late, cacheFailures>>

WriteRow(x) ==
    /\ MayWrite(x)
    /\ eventRow' = Written(editor[x].op)
    /\ EditorGoto(x, "del")
    /\ UNCHANGED <<venueVersion, eventCache, late, cacheFailures>>

DeleteCopy(x) ==
    /\ WillDelete(x)
    /\ eventCache' = NoCopy
    /\ late' = FALSE
    /\ EndEditor(x)
    /\ UNCHANGED <<eventRow, venueVersion, cacheFailures>>

-----------------------------------------------------------------------------
(* Variant: copies are kept until somebody deletes them. *)
NeverExpires == eventCache # NoCopy /\ UNCHANGED eventVars

(* CACHE_TTL.EVENT_DETAIL after the copy was stored; reading it does not   *)
(* prolong it.                                                             *)
CopyExpires ==
    /\ eventCache # NoCopy
    /\ eventCache' = NoCopy
    /\ late' = FALSE
    /\ UNCHANGED <<eventRow, venueVersion, editor, cacheFailures>>

(* A call rejects, before or after it had its effect, or the process dies. *)
EditorFails(x) ==
    /\ cacheFailures < MaxCacheFailures
    /\ cacheFailures' = cacheFailures + 1
    /\ editor[x].pc # "idle"
    /\ EndEditor(x)
    /\ \/ UNCHANGED <<eventRow, eventCache>>
       \/ MayWrite(x) /\ eventRow' = Written(editor[x].op) /\ UNCHANGED eventCache
       \/ editor[x].pc = "set" /\ eventCache' = editor[x].copy /\ UNCHANGED eventRow
       \/ WillDelete(x) /\ eventCache' = NoCopy /\ UNCHANGED eventRow
    /\ late' = (Outdated(eventCache)' /\ \A y \in Editor \ {x} : ~WillDelete(y))
    /\ UNCHANGED venueVersion

-----------------------------------------------------------------------------
ServeEditor(x) ==
    \/ GetCopy(x) \/ LoadDetail(x) \/ StoreCopy(x)
    \/ FindRow(x) \/ WriteRow(x) \/ DeleteCopy(x)

EventNext ==
    \/ CreateEvent \/ UpdateVenue \/ CopyExpires
    \/ \E x \in Editor :
          FindById(x) \/ EditEvent(x, "update") \/ EditEvent(x, "remove") \/ ServeEditor(x) \/ EditorFails(x)

EventSpec == EventInit /\ [][EventNext]_eventVars

-----------------------------------------------------------------------------
(* Properties.                                                             *)

(* An outdated copy has one of three causes: the handler that made it      *)
(* outdated has still to delete it, a read that began before the change    *)
(* stored its copy after the deletion, or a call failed (getOrSet, update, *)
(* remove).  In particular no change that was answered leaves the copy of  *)
(* an earlier read behind.                                                 *)
StaleOnlyByLateFill ==
    Outdated(eventCache) => late \/ \E x \in Editor : WillDelete(x)

(* Whatever overlapped or failed, once the event and its venue change no   *)
(* more, what readers are shown is finally what the tables say; of a venue *)
(* that is due to the TTL alone.                                           *)
EventuallyFresh == <>[](eventCache = NoCopy \/ (EventLive /\ eventCache = CurrentCopy))
=============================================================================
