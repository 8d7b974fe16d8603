------------------------------ MODULE Sessions ------------------------------
(***************************************************************************)
(* The sessions of one user: registration, login, refresh-token rotation   *)
(* with its reuse alarm, and logout (users.service.ts), and the tabs of a  *)
(* browser that hold the tokens, send requests, refresh on 401 and try     *)
(* once more (client.ts, authStore.ts, Header.tsx).                        *)
(*                                                                         *)
(* An access token and the refresh token issued with it are a pair, and    *)
(* pairs are numbered; 0 is no pair.  Every tab keeps its pair in memory   *)
(* and in the localStorage that the tabs share; only a tab that is opened  *)
(* reads it.                                                               *)
(***************************************************************************)
EXTENDS Naturals, FiniteSets

CONSTANTS
    Tab,                \* tabs of one browser
    Call,               \* requests that the tabs send
    MaxLogins,          \* bound on registrations and logins
    MaxSessionFailures  \* bound on rejected calls and closed tabs

ASSUME SessionAssumption ==
    /\ IsFiniteSet(Tab) /\ Tab # {}
    /\ IsFiniteSet(Call) /\ Tab \cap Call = {}
    /\ MaxLogins \in Nat /\ MaxSessionFailures \in Nat

VARIABLES
    registered,         \* does the user's row exist?
    token,              \* refresh_tokens
    tab, stored,        \* what tabs hold, and localStorage
    call,               \* the requests
    job,                \* what the server does for a tab
    logins, sessionFailures,
    alarms,             \* tokens whose reuse was reported
    excused,            \* tokens that somebody may present twice
    strays              \* tokens that nobody knows any more

serverVars == <<registered, token>>
browserVars == <<tab, stored, call>>
historyVars == <<alarms, excused, strays>>
sessionVars == <<serverVars, browserVars, job, logins, sessionFailures, historyVars>>

-----------------------------------------------------------------------------
(* Every login and every request makes at most one new pair.               *)
Pair == 1..(MaxLogins + Cardinality(Call))

TabState == [open : BOOLEAN, pair : Pair \cup {0}]
ClosedTab == [open |-> FALSE, pair |-> 0]

CallState == [pc : {"unsent", "sent", "waiting", "ended"}, tab : Tab, retried : BOOLEAN]
EndedCall == [pc |-> "ended", tab |-> CHOOSE t \in Tab : TRUE, retried |-> FALSE]

JobState ==
    [pc : {"idle", "find", "insert", "alarm", "revoke", "create", "answer", "reject"},
     op : {"none", "register", "login", "refresh", "logout"},
     pair : Pair \cup {0}, new : Pair \cup {0}, heard : BOOLEAN]
NoJob == [pc |-> "idle", op |-> "none", pair |-> 0, new |-> 0, heard |-> TRUE]

(* A refresh belongs to the request that began it, the rest to its tab.    *)
Job == Tab \cup Call

SessionTypeOK ==
    /\ registered \in BOOLEAN
    /\ token \in [Pair -> {"none", "live", "expired", "revoked"}]
    /\ tab \in [Tab -> TabState]
    /\ stored \in Pair \cup {0}
    /\ call \in [Call -> CallState]
    /\ job \in [Job -> JobState]
    /\ logins \in 0..MaxLogins
    /\ sessionFailures \in 0..MaxSessionFailures
    /\ alarms \subseteq Pair /\ excused \subseteq Pair /\ strays \subseteq Pair

SessionInit ==
    /\ registered \in BOOLEAN
    /\ token = [n \in Pair |-> "none"]
    /\ tab = [t \in Tab |-> ClosedTab]
    /\ stored = 0
    /\ call = [c \in Call |-> [EndedCall EXCEPT !.pc = "unsent"]]
    /\ job = [j \in Job |-> NoJob]
    /\ logins = 0
    /\ sessionFailures = 0
    /\ alarms = {} /\ excused = {} /\ strays = {}

Doing(j) == job[j].pc # "idle"
Owner(j) == IF j \in Tab THEN j ELSE call[j].tab
Start(j, op, pc, n) == job' = [job EXCEPT ![j] = [NoJob EXCEPT !.pc = pc, !.op = op, !.pair = n]]

(* A job goes on; an answer that nobody hears is the end of it.            *)
Over(j, pc) == ~job[j].heard /\ pc \in {"answer", "reject"}
Goto(j, pc) == job' = [job EXCEPT ![j] = IF Over(j, pc) THEN NoJob ELSE [@ EXCEPT !.pc = pc]]

At(j, op, pc) == job[j].op = op /\ job[j].pc = pc

Holders(n) == {t \in Tab : tab[t].pair = n}
Presented(n) == \E j \in Job : Doing(j) /\ job[j].pair = n
Refreshing(t) == \E c \in Call : call[c].tab = t /\ Doing(c) /\ job[c].heard

-----------------------------------------------------------------------------
(* Tabs.                                                                   *)

OpenTab(t) ==
    /\ ~tab[t].open
    /\ tab' = [tab EXCEPT ![t] = [open |-> TRUE, pair |-> stored]]
    /\ excused' = IF Holders(stored) # {} \/ Presented(stored) THEN excused \cup ({stored} \ {0}) ELSE excused
    /\ UNCHANGED <<serverVars, stored, call, job, logins, sessionFailures, alarms, strays>>

(* The requests of a tab end, and nobody hears the answers to its jobs.    *)
CallsLost(t) ==
    [c \in Call |-> IF call[c].tab = t /\ call[c].pc \in {"sent", "waiting"}
                    THEN EndedCall ELSE call[c]]

Mine(t) == {j \in Job : Doing(j) /\ job[j].heard /\ Owner(j) = t}
Unheard(t) ==
    [j \in Job |-> IF j \notin Mine(t) THEN job[j]
                   ELSE IF job[j].pc \in {"answer", "reject"} THEN NoJob
                   ELSE [job[j] EXCEPT !.heard = FALSE]]
PairsOf(t) == {job[j].pair : j \in Mine(t)} \ {0}
NewPairsOf(t) == {job[j].new : j \in Mine(t)} \ {0}

CloseTab(t) ==
    /\ tab[t].open
    /\ sessionFailures < MaxSessionFailures
    /\ sessionFailures' = sessionFailures + 1
    /\ tab' = [tab EXCEPT ![t] = ClosedTab]
    /\ call' = CallsLost(t)
    /\ job' = Unheard(t)
    /\ strays' = strays \cup ({tab[t].pair} \ {0}) \cup NewPairsOf(t)
    /\ excused' = excused \cup PairsOf(t)
    /\ UNCHANGED <<serverVars, stored, logins, alarms>>

-----------------------------------------------------------------------------
(* RegisterPage, LoginPage, Header.                                        *)

Enter(t, op) ==
    /\ tab[t].open /\ tab[t].pair = 0
    /\ logins < MaxLogins
    /\ ~Doing(t)
    /\ logins' = logins + 1
    /\ Start(t, op, "find", 0)
    /\ UNCHANGED <<serverVars, browserVars, sessionFailures, historyVars>>

Logout(t) ==
    /\ tab[t].open /\ tab[t].pair # 0
    /\ ~Doing(t)
    /\ Start(t, "logout", "revoke", tab[t].pair)
    /\ excused' = IF Presented(tab[t].pair) THEN excused \cup {tab[t].pair} ELSE excused
    /\ UNCHANGED <<serverVars, browserVars, logins, sessionFailures, alarms, strays>>

-----------------------------------------------------------------------------
(* Requests: the access token is attached when one is sent.                *)

Send(c, t) ==
    /\ call[c].pc = "unsent"
    /\ tab[t].open /\ tab[t].pair # 0
    /\ call' = [call EXCEPT ![c] = [pc |-> "sent", tab |-> t, retried |-> FALSE]]
    /\ UNCHANGED <<serverVars, tab, stored, job, logins, sessionFailures, historyVars>>

(* authPlugin lets it through, or turns it away a second time.             *)
CallEnds(c) ==
    /\ call[c].pc = "sent"
    /\ call' = [call EXCEPT ![c] = EndedCall]
    /\ UNCHANGED <<serverVars, tab, stored, job, logins, sessionFailures, historyVars>>

(* Any access token may have expired by the time it is looked at.  A 401   *)
(* waits for the refresh that is under way, or starts one.                 *)
Unauthorized(c) == call[c].pc = "sent" /\ ~call[c].retried

Wait(c) == call' = [call EXCEPT ![c].pc = "waiting", ![c].retried = TRUE]

JoinRefresh(c) ==
    /\ Unauthorized(c)
    /\ Refreshing(call[c].tab)
    /\ Wait(c)
    /\ UNCHANGED <<serverVars, tab, stored, job, logins, sessionFailures, historyVars>>

(* Variant: every 401 starts a refresh of its own. *)
MayAlwaysRefresh(t) == TRUE

MayRefresh(t) == ~Refreshing(t)

StartRefresh(c) ==
    LET n == tab[call[c].tab].pair
    IN  /\ Unauthorized(c)
        /\ MayRefresh(call[c].tab)
        /\ n # 0
        /\ Wait(c)
        /\ Start(c, "refresh", "find", n)
        /\ excused' = IF \E t \in Tab : Doing(t) /\ job[t].pair = n THEN excused \cup {n} ELSE excused
        /\ UNCHANGED <<serverVars, tab, stored, logins, sessionFailures, alarms, strays>>

(* The tab forgets its tokens and goes to the login page, which loads the  *)
(* application anew.  A pair that it forgets without having handed it in   *)
(* is a stray.                                                             *)
Forget(t, n) == strays \cup ({tab[t].pair} \ {0, n})

Reload(t, n) ==
    /\ tab' = [tab EXCEPT ![t].pair = 0]
    /\ stored' = 0
    /\ call' = CallsLost(t)
    /\ strays' = Forget(t, n) \cup NewPairsOf(t)
    /\ excused' = excused \cup PairsOf(t)

NothingToRefresh(c) ==
    /\ Unauthorized(c)
    /\ ~Refreshing(call[c].tab)
    /\ tab[call[c].tab].pair = 0
    /\ Reload(call[c].tab, 0)
    /\ job' = Unheard(call[c].tab)
    /\ UNCHANGED <<serverVars, logins, sessionFailures, alarms>>

-----------------------------------------------------------------------------
(* The server.  The next pair is the first that does not exist yet.        *)

(* register: the e-mail is looked up, the password hashed, then the user   *)
(* inserted, whose e-mail is unique; login: a wrong password is refused.   *)
FindUser(j) ==
    /\ job[j].pc = "find"
    /\ \/ job[j].op = "register" /\ Goto(j, IF registered THEN "reject" ELSE "insert")
       \/ job[j].op = "login" /\ registered /\ Goto(j, "create")
       \/ job[j].op = "login" /\ Goto(j, "reject")
    /\ UNCHANGED <<serverVars, browserVars, logins, sessionFailures, historyVars>>

InsertUser(j) ==
    /\ At(j, "register", "insert")
    /\ registered' = TRUE
    /\ Goto(j, IF registered THEN "reject" ELSE "create")
    /\ UNCHANGED <<token, browserVars, logins, sessionFailures, historyVars>>

(* A token may turn out to be older than its seven days.                   *)
FindToken(j) ==
    /\ At(j, "refresh", "find")
    /\ \/ token[job[j].pair] = "revoked" /\ Goto(j, "alarm") /\ UNCHANGED token
       \/ token[job[j].pair] = "live" /\ Goto(j, "revoke") /\ UNCHANGED token
       \/ /\ token[job[j].pair] \in {"live", "expired"}
          /\ token' = [token EXCEPT ![job[j].pair] = "expired"]
          /\ Goto(j, "reject")
    /\ UNCHANGED <<registered, browserVars, logins, sessionFailures, historyVars>>

Issued == {n \in Pair : token[n] # "none"}

(* Every token of the user is revoked, those of other tabs too, whose next *)
(* refresh is then a reuse as well.                                        *)
RaiseAlarm(j) ==
    /\ At(j, "refresh", "alarm")
    /\ token' = [n \in Pair |-> IF n \in Issued THEN "revoked" ELSE "none"]
    /\ alarms' = alarms \cup {job[j].pair}
    /\ excused' = excused \cup (Issued \ {job[j].pair})
    /\ Goto(j, "reject")
    /\ UNCHANGED <<registered, browserVars, logins, sessionFailures, strays>>

(* Variant: a refresh leaves the old token alone.                          *)
RevokedByLogoutOnly(j) == IF job[j].op = "logout" THEN [token EXCEPT ![job[j].pair] = "revoked"] ELSE token

Revoked(j) == [token EXCEPT ![job[j].pair] = "revoked"]

RevokeToken(j) ==
    /\ job[j].pc = "revoke"
    /\ token' = Revoked(j)
    /\ Goto(j, IF job[j].op = "logout" THEN "answer" ELSE "create")
    /\ UNCHANGED <<registered, browserVars, logins, sessionFailures, historyVars>>

CreateToken(j) ==
    LET n == Cardinality(Issued) + 1
    IN  /\ job[j].pc = "create"
        /\ token' = [token EXCEPT ![n] = "live"]
        /\ job' = [job EXCEPT ![j] = IF @.heard THEN [@ EXCEPT !.pc = "answer", !.new = n] ELSE NoJob]
        /\ strays' = IF job[j].heard THEN strays ELSE strays \cup {n}
        /\ UNCHANGED <<registered, browserVars, logins, sessionFailures, alarms, excused>>

-----------------------------------------------------------------------------
(* Answers.                                                                *)

Take(j) ==
    /\ tab' = [tab EXCEPT ![Owner(j)].pair = job[j].new]
    /\ stored' = job[j].new
    /\ strays' = Forget(Owner(j), job[j].pair)

EnterAnswer(t) ==
    /\ job[t].op \in {"register", "login"}
    /\ \/ job[t].pc = "answer" /\ Take(t)
       \/ job[t].pc = "reject" /\ UNCHANGED <<tab, stored, strays>>
    /\ job' = [job EXCEPT ![t] = NoJob]
    /\ UNCHANGED <<serverVars, call, logins, sessionFailures, alarms, excused>>

(* clear; the page stays as it is, and so do requests that are under way.  *)
LogoutAnswer(t) ==
    /\ job[t].op = "logout" /\ job[t].pc \in {"answer", "reject"}
    /\ tab' = [tab EXCEPT ![t].pair = 0]
    /\ stored' = 0
    /\ strays' = Forget(t, job[t].pair)
    /\ job' = [job EXCEPT ![t] = NoJob]
    /\ UNCHANGED <<serverVars, call, logins, sessionFailures, alarms, excused>>

(* Variant: only the request that began the refresh goes on. *)
FirstAgain(c) == [call EXCEPT ![c].pc = "sent"]

(* All requests that waited are sent again.                                *)
Again(c) ==
    [d \in Call |-> IF call[d].pc = "waiting" /\ call[d].tab = call[c].tab
                    THEN [call[d] EXCEPT !.pc = "sent"] ELSE call[d]]

RefreshAnswer(c) ==
    /\ At(c, "refresh", "answer")
    /\ Take(c)
    /\ call' = Again(c)
    /\ job' = [job EXCEPT ![c] = NoJob]
    /\ UNCHANGED <<serverVars, logins, sessionFailures, alarms, excused>>

RefreshRejected(c) ==
    /\ At(c, "refresh", "reject")
    /\ Reload(Owner(c), job[c].pair)
    /\ job' = [Unheard(Owner(c)) EXCEPT ![c] = NoJob]
    /\ UNCHANGED <<serverVars, logins, sessionFailures, alarms>>

-----------------------------------------------------------------------------
(* Failures.                                                               *)

(* A call of PostgreSQL rejects, with or without its effect, or the answer *)
(* gets lost: the tab takes either for a refusal.                          *)
JobFails(j) ==
    /\ sessionFailures < MaxSessionFailures
    /\ sessionFailures' = sessionFailures + 1
    /\ job[j].pc \in {"find", "insert", "alarm", "revoke", "create", "answer"}
    /\ Goto(j, "reject")
    /\ \/ UNCHANGED <<registered, token, alarms>>
       \/ job[j].pc = "insert" /\ registered' = TRUE /\ UNCHANGED <<token, alarms>>
       \/ job[j].pc = "revoke" /\ token' = Revoked(j) /\ UNCHANGED <<registered, alarms>>
    /\ excused' = excused \cup ({job[j].pair} \ {0})
    /\ strays' = strays \cup ({job[j].pair, job[j].new} \ {0})
    /\ UNCHANGED <<browserVars, logins, alarms>>

-----------------------------------------------------------------------------
Serve(j) ==
    \/ FindUser(j) \/ InsertUser(j) \/ FindToken(j) \/ RaiseAlarm(j) \/ RevokeToken(j) \/ CreateToken(j)
    \/ j \in Tab /\ (EnterAnswer(j) \/ LogoutAnswer(j))
    \/ /\ j \in Call
       /\ \/ CallEnds(j) \/ JoinRefresh(j) \/ StartRefresh(j) \/ NothingToRefresh(j)
          \/ RefreshAnswer(j) \/ RefreshRejected(j)

SessionNext ==
    \/ \E t \in Tab :
          \/ OpenTab(t) \/ CloseTab(t) \/ Logout(t)
          \/ Enter(t, "register") \/ Enter(t, "login")
          \/ \E c \in Call : Send(c, t)
    \/ \E j \in Job : Serve(j) \/ JobFails(j)

SessionSpec == SessionInit /\ [][SessionNext]_sessionVars

-----------------------------------------------------------------------------
(* Properties.                                                             *)

(* The reuse alarm rings for no token that only one tab has handed in once:*)
(* requests of one tab that are turned away together share a refresh.  It  *)
(* may ring for a token that two tabs hold, whose refresh or logout nobody *)
(* heard the end of, that is refreshed and logged out at the same time, or *)
(* that an earlier alarm has revoked (refresh, client.ts).                 *)
AlarmsHaveACause == alarms \subseteq excused

(* A token that is still good is held by a tab, kept in localStorage or on *)
(* its way, unless its tab was closed, an answer was lost, or the tab took *)
(* or dropped a pair that it had not handed in: rotation and logout leave  *)
(* nothing behind.                                                         *)
LiveTokensAreHeld ==
    \A n \in Pair : token[n] = "live" =>
        \/ Holders(n) # {} \/ stored = n \/ n \in strays
        \/ \E j \in Job : job[j].pc = "answer" /\ job[j].new = n

(* Every request ends: one that is turned away waits for a refresh that is *)
(* answered or rejected, and is tried once more but not again.             *)
(* That every refresh is answered, or its connection lost, is assumed of   *)
(* the network (Fairness of Services): performRefresh sets no timeout.     *)
CallsEnd == \A c \in Call : []<>(call[c].pc \notin {"sent", "waiting"})
=============================================================================
