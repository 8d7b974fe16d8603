------------------------------ MODULE Listing -------------------------------
(***************************************************************************)
(* Browsing a list page by page, newest first, while it changes: findMany  *)
(* of events and of venues and buildPaginatedResponse.  Of a row only what *)
(* orders it matters: createdAt, then the id.                              *)
(***************************************************************************)
EXTENDS Naturals, FiniteSets

CONSTANTS
    RowId,              \* ids, which are compared like numbers
    Stamp,              \* values of createdAt
    Limit               \* limits that a query may ask for

ASSUME ListingAssumption == RowId \subseteq Nat \ {0} /\ Stamp \subseteq Nat /\ Limit \subseteq Nat \ {0}

VARIABLES
    rows,               \* every row there ever was
    visible,            \* those that are not deleted
    browser             \* somebody who asks for one page after the other

listingVars == <<rows, visible, browser>>

Item == [id : RowId, at : Stamp]
NoCursor == [id |-> 0, at |-> 0]

Idle ==
    [pc |-> "idle", limit |-> 0, cursor |-> NoCursor, first |-> {}, shown |-> {}, repeated |-> FALSE]

ListingTypeOK ==
    /\ rows \subseteq Item
    /\ visible \subseteq rows
    /\ browser.pc \in {"idle", "browsing", "done"}
    /\ browser.cursor \in Item \cup {NoCursor}
    /\ browser.first \subseteq rows
    /\ browser.shown \subseteq rows
    /\ browser.repeated \in BOOLEAN

ListingInit ==
    /\ rows = {}
    /\ visible = {}
    /\ browser = Idle

(* orderBy createdAt desc, id desc: does x come before y?                  *)
Before(x, y) == x.at > y.at \/ (x.at = y.at /\ x.id > y.id)

(* Variant: only createdAt is compared with the cursor. *)
AfterStamp(x) == browser.cursor = NoCursor \/ x.at < browser.cursor.at

AfterCursor(x) == browser.cursor = NoCursor \/ Before(browser.cursor, x)

-----------------------------------------------------------------------------
(* Rows come with any stamp: it is drawn before the row is inserted, by    *)
(* whichever server process inserts it.                                    *)
InsertRow(x) ==
    /\ \A y \in rows : y.id # x.id
    /\ rows' = rows \cup {x}
    /\ visible' = visible \cup {x}
    /\ UNCHANGED browser

(* Variant: the row is gone, and with it what refers to it. *)
HardDelete(x) ==
    /\ rows' = rows \ {x}
    /\ visible' = visible \ {x}
    /\ UNCHANGED browser

DeleteRow(x) ==
    /\ visible' = visible \ {x}
    /\ UNCHANGED <<rows, browser>>

Browse(limit) ==
    /\ browser.pc # "browsing"
    /\ browser' = [Idle EXCEPT !.pc = "browsing", !.limit = limit, !.first = visible]
    /\ UNCHANGED <<rows, visible>>

(* The first n of the rows, or all of them.                                *)
Top(S, n) == {x \in S : Cardinality({y \in S : Before(y, x)}) < n}

(* One row more than the limit is fetched; it tells whether there is more. *)
Fetched == Top({x \in visible : AfterCursor(x)}, browser.limit + 1)

HasMore == Cardinality(Fetched) > browser.limit

Page == IF HasMore THEN Top(Fetched, browser.limit) ELSE Fetched

LastShown == IF Page = {} THEN NoCursor ELSE CHOOSE x \in Page : \A y \in Page : y = x \/ Before(y, x)

NextPage ==
    /\ browser.pc = "browsing"
    /\ browser' = [browser EXCEPT !.pc = IF HasMore THEN "browsing" ELSE "done",
                                  !.cursor = LastShown,
                                  !.shown = @ \cup Page,
                                  !.repeated = @ \/ Page \cap browser.shown # {}]
    /\ UNCHANGED <<rows, visible>>

-----------------------------------------------------------------------------
ListingNext ==
    \/ \E x \in Item : InsertRow(x)
    \/ \E x \in visible : DeleteRow(x)
    \/ \E limit \in Limit : Browse(limit)
    \/ NextPage

ListingSpec == ListingInit /\ [][ListingNext]_listingVars

-----------------------------------------------------------------------------
(* Properties.                                                             *)

(* While rows are inserted and deleted anywhere in the list, no page shows *)
(* a row again that an earlier page has shown, and whoever has read to the *)
(* end has seen every row that was there from the first page to the last   *)
(* (findMany, buildPaginatedResponse: the cursor is the last row of the    *)
(* page, the extra row only says whether to go on).                        *)
BrowsesAreExact ==
    /\ ~browser.repeated
    /\ browser.pc = "done" => browser.first \cap visible \subseteq browser.shown
=============================================================================
