--------------------------- MODULE SessionsProofs ---------------------------
(***************************************************************************)
(* What holds of sessions for any number of tabs, requests, logins and     *)
(* failures.                                                               *)
(***************************************************************************)
EXTENDS Sessions, FiniteSetTheorems, TLAPS

-----------------------------------------------------------------------------
(* Which states jobs and requests can be in.                               *)

Entry == {"register", "login"}

(* A job that nobody hears has no answer to give.                          *)
Legal(j, r) ==
    /\ r.op = "none" <=> r.pc = "idle"
    /\ r.pc = "idle" => r = NoJob
    /\ r.op \in Entry => j \in Tab /\ r.pc \in {"find", "insert", "create", "answer", "reject"}
    /\ r.op = "logout" => j \in Tab /\ r.pc \in {"revoke", "answer", "reject"}
    /\ r.op = "refresh" => j \in Call /\ r.pc \in {"find", "alarm", "revoke", "create", "answer", "reject"}
    /\ r.pair # 0 <=> r.op \in {"refresh", "logout"}
    /\ r.new # 0 => r.pc \in {"answer", "reject"}
    /\ r.op = "logout" => r.new = 0
    /\ ~r.heard => r.pc \notin {"answer", "reject"}

JobControl == \A j \in Job : Legal(j, job[j])

(* A refresh that a tab hears is the only one of the tab; the request that *)
(* began it waits, and what is under way belongs to a tab that is open.    *)
CallControl ==
    /\ \A c \in Call : Doing(c) => call[c].pc = IF job[c].heard THEN "waiting" ELSE "ended"
    /\ \A c, d \in Call :
          Doing(c) /\ Doing(d) /\ job[c].heard /\ job[d].heard /\ call[c].tab = call[d].tab => c = d
    /\ \A c \in Call : call[c].pc \in {"sent", "waiting"} => tab[call[c].tab].open
    /\ \A t \in Tab : Doing(t) /\ job[t].heard => tab[t].open
    /\ \A t \in Tab : ~tab[t].open => tab[t].pair = 0

(* The pairs that exist are the first ones, and what is held, stored, or   *)
(* handed in is one of them.                                               *)
Real == Issued \cup {0}

Known ==
    /\ stored \in Real /\ alarms \subseteq Issued
    /\ \A t \in Tab : tab[t].pair \in Real
    /\ \A j \in Job : job[j].pair \in Real /\ job[j].new \in Real

(* Whoever may still make a pair has used up a login, or a request.        *)
Spent == {c \in Call : call[c].retried \/ call[c].pc = "ended"}

Pending == {j \in Job : job[j].op # "logout" /\ job[j].pc \in {"find", "insert", "alarm", "revoke", "create"}}

Numbered ==
    /\ Issued = 1..Cardinality(Issued)
    /\ Cardinality(Issued) + Cardinality(Pending) <= logins + Cardinality(Spent)
    /\ \A c \in Call : call[c].pc = "unsent" => ~call[c].retried

SessionShape == SessionTypeOK /\ JobControl /\ CallControl /\ Known

-----------------------------------------------------------------------------

LEMMA PairFacts == 0 \notin Pair /\ Pair \subseteq Nat /\ IsFiniteSet(Pair) /\ IsFiniteSet(Job)
<1>1. MaxLogins + Cardinality(Call) \in Nat
    BY SessionAssumption, FS_CardinalityType
<1>2. 0 \notin Pair /\ Pair \subseteq Nat
    BY <1>1 DEF Pair
<1>3. IsFiniteSet(Pair)
    BY <1>1, FS_Interval DEF Pair
<1>4. IsFiniteSet(Job)
    BY SessionAssumption, FS_Union DEF Job
<1> QED BY <1>2, <1>3, <1>4

LEMMA ConstantFacts ==
    /\ ClosedTab \in TabState /\ EndedCall \in CallState /\ NoJob \in JobState
    /\ [EndedCall EXCEPT !.pc = "unsent"] \in CallState
    /\ Tab \subseteq Job /\ Call \subseteq Job /\ \A j \in Job : j \in Tab <=> j \notin Call
<1>1. (CHOOSE t \in Tab : TRUE) \in Tab
    BY SessionAssumption
<1> QED
    BY <1>1, SessionAssumption
    DEF ClosedTab, TabState, EndedCall, CallState, NoJob, JobState, Job

LEMMA NoJobLegal == \A j : Legal(j, NoJob)
BY DEF Legal, NoJob, Entry

LEMMA SessionStarts == SessionInit => SessionShape /\ Numbered
<1> SUFFICES ASSUME SessionInit PROVE SessionShape /\ Numbered
    OBVIOUS
<1>1. SessionTypeOK
    BY ConstantFacts, SessionAssumption DEF SessionInit, SessionTypeOK
<1>2. Issued = {} /\ Pending = {}
    BY DEF SessionInit, Issued, Pending, NoJob
<1>3. Cardinality({}) = 0 /\ Cardinality(Spent) \in Nat
    BY SessionAssumption, FS_EmptySet, FS_Subset, FS_CardinalityType DEF Spent
<1>4. Numbered
    <2>1. \A c \in Call : ~call[c].retried
        BY DEF SessionInit, EndedCall
    <2>2. Issued = 1..Cardinality(Issued)
        BY <1>2, <1>3
    <2> QED BY <1>2, <1>3, <2>1, <2>2 DEF Numbered, SessionInit
<1>5. JobControl /\ Known
    BY <1>2, NoJobLegal DEF SessionInit, JobControl, Known, Real, NoJob, ClosedTab
<1>6. CallControl
    BY ConstantFacts DEF SessionInit, CallControl, NoJob, Doing, ClosedTab, EndedCall
<1> QED BY <1>1, <1>4, <1>5, <1>6 DEF SessionShape

-----------------------------------------------------------------------------
(* What may happen to one job in a step.                                   *)

Pc == {"idle", "find", "insert", "alarm", "revoke", "create", "answer", "reject"}
Op == {"none", "register", "login", "refresh", "logout"}

Went(j, pc) ==
    /\ job'[j] \in JobState /\ job'[j].pc = pc
    /\ job'[j].op = job[j].op /\ job'[j].pair = job[j].pair
    /\ job'[j].new = job[j].new /\ job'[j].heard = job[j].heard

Deaf(j) ==
    /\ job'[j] \in JobState /\ job'[j].pc = job[j].pc
    /\ job'[j].op = job[j].op /\ job'[j].pair = job[j].pair
    /\ job'[j].new = job[j].new /\ ~job'[j].heard

Began(j, op, pc, n) ==
    /\ job'[j] \in JobState /\ job'[j].pc = pc
    /\ job'[j].op = op /\ job'[j].pair = n /\ job'[j].new = 0 /\ job'[j].heard

Alike(i) == job'[i] = job[i]
Gone(i) == job'[i] = NoJob

LEMMA JobMoves ==
    ASSUME job \in [Job -> JobState], NEW j \in Job, NEW pc \in Pc, Goto(j, pc)
    PROVE  /\ job' \in [Job -> JobState] /\ \A i \in Job \ {j} : Alike(i)
           /\ \/ Went(j, pc) /\ ~Over(j, pc)
              \/ Gone(j) /\ Over(j, pc)
<1>1. job[j] \in JobState
    OBVIOUS
<1>2. CASE Over(j, pc)
    BY <1>2, ConstantFacts DEF Goto, Alike, Gone
<1>3. CASE ~Over(j, pc)
    <2> DEFINE r == [job[j] EXCEPT !.pc = pc]
    <2>1. /\ r \in JobState /\ r.pc = pc /\ r.op = job[j].op /\ r.pair = job[j].pair
          /\ r.new = job[j].new /\ r.heard = job[j].heard
        BY <1>1 DEF JobState, Pc
    <2>2. job' = [job EXCEPT ![j] = r]
        BY <1>3 DEF Goto
    <2> HIDE DEF r
    <2> QED BY <1>3, <2>1, <2>2 DEF Alike, Went
<1> QED BY <1>2, <1>3

LEMMA JobBegins ==
    ASSUME job \in [Job -> JobState], NEW j \in Job, NEW op \in Op, NEW pc \in Pc, NEW n \in Pair \cup {0},
           Start(j, op, pc, n)
    PROVE  /\ job' \in [Job -> JobState] /\ \A i \in Job \ {j} : Alike(i)
           /\ Began(j, op, pc, n)
<1> DEFINE r == [NoJob EXCEPT !.pc = pc, !.op = op, !.pair = n]
<1>1. r \in JobState /\ r.pc = pc /\ r.op = op /\ r.pair = n /\ r.new = 0 /\ r.heard
    BY DEF NoJob, JobState, Pc, Op
<1>2. job' = [job EXCEPT ![j] = r]
    BY DEF Start
<1> HIDE DEF r
<1> QED BY <1>1, <1>2 DEF Alike, Began

LEMMA JobEnds ==
    ASSUME job \in [Job -> JobState], NEW j \in Job, job' = [job EXCEPT ![j] = NoJob]
    PROVE  job' \in [Job -> JobState] /\ Gone(j) /\ \A i \in Job \ {j} : Alike(i)
BY ConstantFacts DEF Gone, Alike

(* The jobs of a tab that goes away.                                       *)
Silenced(t, i) ==
    /\ i \notin Mine(t) => Alike(i)
    /\ i \in Mine(t) => IF job[i].pc \in {"answer", "reject"} THEN Gone(i) ELSE Deaf(i)

LEMMA JobsSilenced ==
    ASSUME job \in [Job -> JobState], NEW t \in Tab
    PROVE  /\ Unheard(t) \in [Job -> JobState]
           /\ job' = Unheard(t) => \A i \in Job : Silenced(t, i)
<1> DEFINE r(i) == [job[i] EXCEPT !.heard = FALSE]
<1>1. ASSUME NEW i \in Job
      PROVE  /\ r(i) \in JobState /\ r(i).pc = job[i].pc /\ r(i).op = job[i].op /\ r(i).pair = job[i].pair
             /\ r(i).new = job[i].new /\ r(i).heard = FALSE
    <2>1. job[i] \in JobState
        OBVIOUS
    <2> QED BY <2>1 DEF JobState
<1>2. Unheard(t) = [i \in Job |-> IF i \notin Mine(t) THEN job[i]
                                   ELSE IF job[i].pc \in {"answer", "reject"} THEN NoJob ELSE r(i)]
    BY DEF Unheard
<1> HIDE DEF r
<1>3. ASSUME NEW i \in Job
      PROVE  /\ i \notin Mine(t) => Unheard(t)[i] = job[i]
             /\ i \in Mine(t) /\ job[i].pc \in {"answer", "reject"} => Unheard(t)[i] = NoJob
             /\ i \in Mine(t) /\ job[i].pc \notin {"answer", "reject"} => Unheard(t)[i] = r(i)
    BY <1>2
<1>4. \A i \in Job : Unheard(t)[i] \in JobState
    BY <1>1, <1>3, ConstantFacts
<1>5. Unheard(t) \in [Job -> JobState]
    BY <1>2, <1>4
<1>6. ASSUME job' = Unheard(t), NEW i \in Job PROVE Silenced(t, i)
    BY <1>1, <1>3, <1>6 DEF Silenced, Alike, Gone, Deaf
<1> QED BY <1>5, <1>6

Allowed(op, pc) ==
    /\ pc # "idle" /\ op # "none"
    /\ op \in Entry => pc \in {"find", "insert", "create", "answer", "reject"}
    /\ op = "logout" => pc \in {"revoke", "answer", "reject"}
    /\ op = "refresh" => pc \in {"find", "alarm", "revoke", "create", "answer", "reject"}

LEMMA WentLegal ==
    ASSUME NEW j, NEW pc, Legal(j, job[j]), Went(j, pc), ~Over(j, pc), Allowed(job[j].op, pc),
           job[j].new = 0 \/ pc \in {"answer", "reject"}
    PROVE  Legal(j, job'[j])
BY DEF Legal, Went, Over, Allowed

LEMMA DeafLegal ==
    ASSUME NEW j, Legal(j, job[j]), Doing(j), job[j].pc \notin {"answer", "reject"}, Deaf(j)
    PROVE  Legal(j, job'[j])
BY DEF Legal, Deaf, Doing

LEMMA BeganLegal ==
    ASSUME NEW j \in Job, NEW op, NEW pc, NEW n, Began(j, op, pc, n),
           \/ op \in Entry /\ pc = "find" /\ n = 0 /\ j \in Tab
           \/ op = "logout" /\ pc = "revoke" /\ n # 0 /\ j \in Tab
           \/ op = "refresh" /\ pc = "find" /\ n # 0 /\ j \in Call
    PROVE  Legal(j, job'[j])
BY DEF Legal, Began, Entry

LEMMA SilencedLegal ==
    ASSUME JobControl, NEW t \in Tab, NEW i \in Job, Silenced(t, i)
    PROVE  Legal(i, job'[i])
<1>1. CASE i \notin Mine(t)
    BY <1>1 DEF Silenced, Alike, JobControl
<1>2. CASE i \in Mine(t) /\ job[i].pc \in {"answer", "reject"}
    BY <1>2, NoJobLegal DEF Silenced, Gone
<1>3. CASE i \in Mine(t) /\ job[i].pc \notin {"answer", "reject"}
    BY <1>3, DeafLegal DEF Silenced, JobControl, Mine
<1> QED BY <1>1, <1>2, <1>3

(* Steps that start nothing for a tab, and leave requests alone.           *)
LEMMA CallsQuiet ==
    ASSUME CallControl, UNCHANGED call,
           \A t \in Tab : tab'[t].open = tab[t].open /\ (~tab[t].open => tab'[t].pair = 0),
           \A i \in Job : Doing(i)' => Doing(i) /\ job'[i].heard = job[i].heard,
           call \in [Call -> CallState]
    PROVE  CallControl'
<1>1. \A c \in Call : call[c].tab \in Tab
    BY DEF CallState
<1>2. Tab \subseteq Job /\ Call \subseteq Job
    BY ConstantFacts
<1> QED BY <1>1, <1>2 DEF CallControl

LEMMA OneWent ==
    ASSUME job \in [Job -> JobState], JobControl, NEW j \in Job, \A i \in Job \ {j} : Alike(i),
           \/ Gone(j)
           \/ \E pc \in Pc : Went(j, pc) /\ Doing(j)
    PROVE  \A i \in Job : Doing(i)' => Doing(i) /\ job'[i].heard = job[i].heard
BY DEF Alike, Gone, Went, Doing, NoJob

(* A token that exists and changes its state goes on to exist.             *)
TokenState == {"none", "live", "expired", "revoked"}

LEMMA TokenChanges ==
    ASSUME token \in [Pair -> TokenState], NEW n \in Issued, NEW s \in {"expired", "revoked"},
           token' = [token EXCEPT ![n] = s]
    PROVE  token' \in [Pair -> TokenState] /\ Issued' = Issued
BY DEF Issued, TokenState

LEMMA ServerFacts ==
    ASSUME SessionShape
    PROVE  /\ registered \in BOOLEAN /\ token \in [Pair -> TokenState] /\ job \in [Job -> JobState]
           /\ sessionFailures \in 0..MaxSessionFailures /\ logins \in 0..MaxLogins
           /\ alarms \subseteq Issued /\ alarms \subseteq Pair /\ excused \subseteq Pair /\ strays \subseteq Pair
           /\ Issued \subseteq Pair
           /\ \A j \in Job : Legal(j, job[j])
           /\ \A j \in Job : job[j].pair \in Pair \cup {0} /\ job[j].new \in Pair \cup {0}
BY DEF SessionShape, SessionTypeOK, TokenState, Known, JobControl, Issued, JobState

-----------------------------------------------------------------------------
(* There is always room for the next pair.                                 *)

(* Nobody becomes able to make a pair.                                     *)
Calm(i) ==
    \/ Alike(i) \/ Gone(i) \/ Deaf(i) \/ job'[i].op = "logout"
    \/ \E pc \in Pc : Went(i, pc) /\ (i \in Pending \/ pc \in {"answer", "reject"})

Worn(c) ==
    /\ c \in Spent => c \in Spent'
    /\ call'[c].pc = "unsent" => call'[c] = call[c]

LEMMA NobodyBegins ==
    ASSUME NEW S \in SUBSET Job, \A i \in Job \ S : Calm(i)
    PROVE  Pending' \subseteq Pending \cup S
BY DEF Pending, Calm, Alike, Gone, Deaf, Went, NoJob

LEMMA OneBegins ==
    ASSUME NEW j \in Job, \A i \in Job \ {j} : Calm(i)
    PROVE  Pending' \subseteq Pending \cup {j}
<1>1. {j} \in SUBSET Job
    OBVIOUS
<1> QED BY <1>1, NobodyBegins

LEMMA SizesAreFinite ==
    /\ IsFiniteSet(Pending) /\ IsFiniteSet(Spent) /\ IsFiniteSet(Issued)
    /\ IsFiniteSet(Pending)' /\ IsFiniteSet(Spent)' /\ IsFiniteSet(Issued)'
    /\ Cardinality(Pending) \in Nat /\ Cardinality(Spent) \in Nat /\ Cardinality(Issued) \in Nat
    /\ Cardinality(Pending)' \in Nat /\ Cardinality(Spent)' \in Nat /\ Cardinality(Issued)' \in Nat
    /\ Cardinality(Spent) <= Cardinality(Call)
<1>1. /\ Pending \subseteq Job /\ Pending' \subseteq Job /\ Issued \subseteq Pair /\ Issued' \subseteq Pair
      /\ Spent \subseteq Call /\ Spent' \subseteq Call
    BY DEF Pending, Spent, Issued
<1>2. /\ IsFiniteSet(Pending) /\ IsFiniteSet(Spent) /\ IsFiniteSet(Issued)
      /\ IsFiniteSet(Pending') /\ IsFiniteSet(Spent') /\ IsFiniteSet(Issued')
      /\ Cardinality(Spent) <= Cardinality(Call)
    BY <1>1, PairFacts, SessionAssumption, FS_Subset
<1> QED BY <1>2, FS_CardinalityType

LEMMA OneMorePending ==
    ASSUME NEW j \in Job, \A i \in Job \ {j} : Calm(i)
    PROVE  Cardinality(Pending') <= Cardinality(Pending) + 1
<1> DEFINE P == Pending
<1> DEFINE Q == Pending'
<1>1. IsFiniteSet(P) /\ Cardinality(P) \in Nat /\ Q \subseteq P \cup {j}
    BY SizesAreFinite, OneBegins
<1> SUFFICES Cardinality(Q) <= Cardinality(P) + 1
    OBVIOUS
<1> HIDE DEF P, Q
<1>2. IsFiniteSet(P \cup {j}) /\ (Cardinality(P \cup {j}) = IF j \in P THEN Cardinality(P) ELSE Cardinality(P) + 1)
    BY <1>1, FS_AddElement
<1>3. Cardinality(Q) <= Cardinality(P \cup {j}) /\ IsFiniteSet(Q)
    BY <1>1, <1>2, FS_Subset
<1>4. Cardinality(Q) \in Nat
    BY <1>3, FS_CardinalityType
<1> QED BY <1>1, <1>2, <1>3, <1>4

LEMMA SameCallsWorn == ASSUME UNCHANGED call PROVE \A c \in Call : Worn(c)
BY DEF Worn, Spent

LEMMA StaysNumbered ==
    ASSUME Numbered, logins \in Nat, UNCHANGED logins, Issued' = Issued,
           \A i \in Job : Calm(i), \A c \in Call : Worn(c)
    PROVE  Numbered'
<1>1. Pending' \subseteq Pending /\ Spent \subseteq Spent'
    BY NobodyBegins, SessionAssumption DEF Worn, Spent
<1>2. Cardinality(Pending') <= Cardinality(Pending) /\ Cardinality(Spent) <= Cardinality(Spent')
    BY <1>1, SizesAreFinite, FS_Subset
<1>3. \A c \in Call : call'[c].pc = "unsent" => ~call'[c].retried
    BY DEF Worn, Numbered
<1> QED BY <1>2, <1>3, SizesAreFinite DEF Numbered

LEMMA MoreLoginsNumbered ==
    ASSUME Numbered, logins \in Nat, logins' = logins + 1, Issued' = Issued,
           NEW j \in Job, \A i \in Job \ {j} : Calm(i), \A c \in Call : Worn(c)
    PROVE  Numbered'
<1>1. Spent \subseteq Spent'
    BY DEF Worn, Spent
<1>2. Cardinality(Pending') <= Cardinality(Pending) + 1
    BY OneMorePending
<1>3. Cardinality(Spent) <= Cardinality(Spent')
    BY <1>1, SizesAreFinite, FS_Subset
<1>4. \A c \in Call : call'[c].pc = "unsent" => ~call'[c].retried
    BY DEF Worn, Numbered
<1> QED BY <1>2, <1>3, <1>4, SizesAreFinite DEF Numbered

LEMMA MoreRetriesNumbered ==
    ASSUME Numbered, logins \in Nat, UNCHANGED logins, Issued' = Issued,
           NEW j \in Job, \A i \in Job \ {j} : Calm(i), \A c \in Call : Worn(c),
           j \in Call, j \notin Spent, j \in Spent'
    PROVE  Numbered'
<1>1. Spent \cup {j} \subseteq Spent'
    BY DEF Worn, Spent
<1>2. Cardinality(Pending') <= Cardinality(Pending) + 1
    BY OneMorePending
<1>3. Cardinality(Spent) + 1 <= Cardinality(Spent')
    <2>1. Cardinality(Spent \cup {j}) = Cardinality(Spent) + 1
        BY SizesAreFinite, FS_AddElement
    <2> QED BY <1>1, <2>1, SizesAreFinite, FS_Subset
<1>4. \A c \in Call : call'[c].pc = "unsent" => ~call'[c].retried
    BY DEF Worn, Numbered
<1> QED BY <1>2, <1>3, <1>4, SizesAreFinite DEF Numbered

LEMMA RoomForOneMore ==
    ASSUME SessionShape, Numbered, NEW j \in Job, job[j].pc = "create"
    PROVE  Cardinality(Issued) + 1 \in Pair
<1>1. j \in Pending
    BY ServerFacts DEF Legal, Pending
<1>2. Cardinality(Pending) >= 1
    BY <1>1, SizesAreFinite, FS_EmptySet
<1>3. logins \in 0..MaxLogins /\ MaxLogins \in Nat /\ Cardinality(Call) \in Nat
    BY ServerFacts, SessionAssumption, FS_CardinalityType
<1>4. Cardinality(Issued) + Cardinality(Pending) <= logins + Cardinality(Spent)
    BY DEF Numbered
<1>5. /\ Cardinality(Issued) \in Nat /\ Cardinality(Pending) \in Nat /\ Cardinality(Spent) \in Nat
      /\ Cardinality(Spent) <= Cardinality(Call)
    BY SizesAreFinite
<1>6. Cardinality(Issued) + 1 \in 1..(MaxLogins + Cardinality(Call))
    BY <1>2, <1>3, <1>4, <1>5
<1> QED BY <1>6 DEF Pair

LEMMA CreatedNumbered ==
    ASSUME Numbered, logins \in Nat, UNCHANGED <<logins, call>>, Issued' = Issued \cup {Cardinality(Issued) + 1},
           NEW j \in Pending, job'[j].pc \in {"idle", "answer"}, \A i \in Job \ {j} : Alike(i)
    PROVE  Numbered'
<1>1. Pending' \subseteq Pending \ {j} /\ Spent' = Spent
    BY DEF Pending, Alike, Spent
<1>2. Cardinality(Pending') <= Cardinality(Pending) - 1
    <2>1. IsFiniteSet(Pending \ {j}) /\ Cardinality(Pending \ {j}) = Cardinality(Pending) - 1
        BY SizesAreFinite, FS_RemoveElement
    <2> QED BY <1>1, <2>1, FS_Subset
<1>3. Issued' = 1..(Cardinality(Issued) + 1)
    BY SizesAreFinite DEF Numbered
<1>4. Cardinality(Issued') = Cardinality(Issued) + 1
    <2>1. ASSUME NEW n \in Nat PROVE Cardinality(1..(n + 1)) = n + 1
        <3>1. n + 1 \in Int /\ 1 \in Int /\ ~(1 > n + 1) /\ (n + 1) - 1 + 1 = n + 1
            OBVIOUS
        <3>2. Cardinality(1..(n + 1)) = IF 1 > n + 1 THEN 0 ELSE (n + 1) - 1 + 1
            BY <3>1, FS_Interval
        <3> QED BY <3>1, <3>2
    <2>2. Cardinality(Issued) \in Nat
        BY SizesAreFinite
    <2> QED BY <1>3, <2>1, <2>2
<1>5. Issued' = 1..Cardinality(Issued')
    BY <1>3, <1>4
<1>6. Cardinality(Issued') + Cardinality(Pending') <= logins' + Cardinality(Spent')
    <2>1. /\ Cardinality(Issued') \in Nat /\ Cardinality(Pending') \in Nat
          /\ Cardinality(Issued) \in Nat /\ Cardinality(Pending) \in Nat /\ Cardinality(Spent) \in Nat
        BY SizesAreFinite
    <2>2. Cardinality(Issued) + Cardinality(Pending) <= logins + Cardinality(Spent)
        BY DEF Numbered
    <2> QED BY <1>1, <1>2, <1>4, <2>1, <2>2
<1>7. \A c \in Call : call'[c].pc = "unsent" => ~call'[c].retried
    BY DEF Numbered
<1> QED BY <1>5, <1>6, <1>7 DEF Numbered

-----------------------------------------------------------------------------
(* What the server does.                                                   *)

LEMMA HandedInIsReal ==
    ASSUME SessionShape, NEW j \in Job, job[j].op \in {"refresh", "logout"}
    PROVE  job[j].pair \in Issued
BY DEF SessionShape, JobControl, Legal, Known, Real

(* What the server does with one job.                                      *)
LEMMA ServerStep ==
    ASSUME SessionShape, NEW j \in Job, Doing(j), UNCHANGED <<browserVars, logins>>,
           registered' \in BOOLEAN, token' \in [Pair -> TokenState], Issued' = Issued,
           sessionFailures' \in 0..MaxSessionFailures,
           alarms' \subseteq Issued, excused' \subseteq Pair, strays' \subseteq Pair,
           NEW pc \in Pc, Goto(j, pc), Allowed(job[j].op, pc), job[j].new = 0 \/ pc \in {"answer", "reject"},
           j \in Pending \/ pc \in {"answer", "reject"}
    PROVE  SessionShape' /\ (Numbered => Numbered')
<1>1. job \in [Job -> JobState] /\ call \in [Call -> CallState] /\ JobControl /\ CallControl /\ Known
    BY DEF SessionShape, SessionTypeOK
<1>2. /\ job' \in [Job -> JobState] /\ \A i \in Job \ {j} : Alike(i)
      /\ \/ Went(j, pc) /\ ~Over(j, pc)
         \/ Gone(j)
    BY <1>1, JobMoves
<1>3. SessionTypeOK'
    BY <1>2, <1>1 DEF SessionShape, SessionTypeOK, browserVars, TokenState, Issued
<1>4. JobControl'
    <2>1. Legal(j, job[j])
        BY <1>1 DEF JobControl
    <2>2. Legal(j, job'[j])
        BY <1>2, <2>1, WentLegal, NoJobLegal DEF Gone
    <2> QED BY <1>1, <1>2, <2>2 DEF JobControl, Alike
<1>5. CallControl'
    <2>1. \A i \in Job : Doing(i)' => Doing(i) /\ job'[i].heard = job[i].heard
        BY <1>1, <1>2, OneWent
    <2>2. \A t \in Tab : tab'[t].open = tab[t].open /\ (~tab[t].open => tab'[t].pair = 0)
        BY <1>1 DEF CallControl, browserVars
    <2> QED BY <1>1, <2>1, <2>2, CallsQuiet DEF browserVars
<1>6. Known'
    <2>1. \A i \in Job : job'[i].pair \in Real /\ job'[i].new \in Real
        BY <1>1, <1>2 DEF Known, Alike, Gone, Went, NoJob, Real
    <2> QED BY <1>1, <2>1 DEF Known, Real, browserVars
<1>7. Numbered => Numbered'
    <2>1. \A i \in Job : Calm(i)
        BY <1>2 DEF Calm
    <2>2. \A c \in Call : Worn(c)
        BY DEF Worn, Spent, browserVars
    <2> QED BY <2>1, <2>2, ServerFacts, SessionAssumption, StaysNumbered
<1> QED BY <1>3, <1>4, <1>5, <1>6, <1>7 DEF SessionShape

LEMMA FindingUser == ASSUME SessionShape, NEW j \in Job, FindUser(j) PROVE SessionShape' /\ (Numbered => Numbered')
<1>1. Doing(j) /\ job[j].op \in Entry /\ job[j].new = 0
    BY ServerFacts DEF FindUser, Doing, Legal, Entry
<1>2. UNCHANGED <<browserVars, logins, serverVars, sessionFailures, historyVars>>
    BY DEF FindUser
<1>3. PICK pc \in {"reject", "insert", "create"} : Goto(j, pc)
    BY DEF FindUser
<1>4. Allowed(job[j].op, pc) /\ pc \in Pc
    BY <1>1 DEF Allowed, Entry, Pc
<1>5. Issued' = Issued
    BY <1>2 DEF Issued, serverVars
<1>6. j \in Pending
    BY <1>1 DEF Pending, Entry, FindUser
<1> QED BY <1>1, <1>2, <1>3, <1>4, <1>5, <1>6, ServerFacts, ServerStep DEF serverVars, historyVars

LEMMA InsertingUser == ASSUME SessionShape, NEW j \in Job, InsertUser(j) PROVE SessionShape' /\ (Numbered => Numbered')
<1>1. Doing(j) /\ job[j].op \in Entry /\ job[j].new = 0
    BY ServerFacts DEF InsertUser, At, Doing, Legal, Entry
<1>2. registered' = TRUE /\ UNCHANGED <<token, browserVars, logins, sessionFailures, historyVars>>
    BY DEF InsertUser
<1>3. PICK pc \in {"reject", "create"} : Goto(j, pc)
    BY DEF InsertUser
<1>4. Allowed(job[j].op, pc) /\ pc \in Pc
    BY <1>1 DEF Allowed, Entry, Pc
<1>5. Issued' = Issued
    BY <1>2 DEF Issued
<1>6. j \in Pending
    BY <1>1 DEF Pending, Entry, InsertUser, At
<1> QED BY <1>1, <1>2, <1>3, <1>4, <1>5, <1>6, ServerFacts, ServerStep DEF historyVars

LEMMA FindingToken == ASSUME SessionShape, NEW j \in Job, FindToken(j) PROVE SessionShape' /\ (Numbered => Numbered')
<1>1. Doing(j) /\ job[j].op = "refresh" /\ job[j].new = 0 /\ job[j].pair \in Issued
    BY ServerFacts, HandedInIsReal DEF FindToken, At, Doing, Legal
<1>2. UNCHANGED <<registered, browserVars, logins, sessionFailures, historyVars>>
    BY DEF FindToken
<1>3. PICK pc \in {"alarm", "revoke", "reject"} : Goto(j, pc)
    BY DEF FindToken
<1>4. Allowed(job[j].op, pc) /\ pc \in Pc
    BY <1>1 DEF Allowed, Entry, Pc
<1>5. token' \in [Pair -> TokenState] /\ Issued' = Issued
    <2>1. CASE UNCHANGED token
        BY <2>1, ServerFacts DEF Issued
    <2>2. CASE token' = [token EXCEPT ![job[j].pair] = "expired"]
        BY <1>1, <2>2, ServerFacts, TokenChanges
    <2> QED BY <2>1, <2>2 DEF FindToken
<1>6. j \in Pending
    BY <1>1 DEF Pending, Entry, FindToken, At
<1> QED BY <1>1, <1>2, <1>3, <1>4, <1>5, <1>6, ServerFacts, ServerStep DEF historyVars

LEMMA RaisingAlarm == ASSUME SessionShape, NEW j \in Job, RaiseAlarm(j) PROVE SessionShape' /\ (Numbered => Numbered')
<1>1. Doing(j) /\ job[j].op = "refresh" /\ job[j].new = 0 /\ job[j].pair \in Issued
    BY ServerFacts, HandedInIsReal DEF RaiseAlarm, At, Doing, Legal
<1>2. UNCHANGED <<registered, browserVars, logins, sessionFailures, strays>> /\ Goto(j, "reject")
    BY DEF RaiseAlarm
<1>3. Allowed(job[j].op, "reject") /\ "reject" \in Pc
    BY <1>1 DEF Allowed, Entry, Pc
<1>4. token' \in [Pair -> TokenState] /\ Issued' = Issued
    BY DEF RaiseAlarm, Issued, TokenState
<1>5. alarms' \subseteq Issued /\ excused' \subseteq Pair
    BY <1>1, ServerFacts DEF RaiseAlarm
<1> QED BY <1>1, <1>2, <1>3, <1>4, <1>5, ServerFacts, ServerStep

LEMMA RevokingToken == ASSUME SessionShape, NEW j \in Job, RevokeToken(j) PROVE SessionShape' /\ (Numbered => Numbered')
<1>1. Doing(j) /\ job[j].op \in {"refresh", "logout"} /\ job[j].new = 0
    BY ServerFacts DEF RevokeToken, Doing, Legal, Entry, SessionShape, SessionTypeOK, JobState
<1>2. UNCHANGED <<registered, browserVars, logins, sessionFailures, historyVars>>
    BY DEF RevokeToken
<1>3. PICK pc \in {"answer", "create"} : Goto(j, pc) /\ Allowed(job[j].op, pc) /\ (pc = "create" => j \in Pending)
    BY <1>1 DEF RevokeToken, Allowed, Entry, Pending
<1>4. token' \in [Pair -> TokenState] /\ Issued' = Issued
    BY <1>1, ServerFacts, HandedInIsReal, TokenChanges DEF RevokeToken, Revoked
<1>5. pc \in Pc
    BY DEF Pc
<1> QED BY <1>1, <1>2, <1>3, <1>4, <1>5, ServerFacts, ServerStep DEF historyVars

LEMMA FailingJob == ASSUME SessionShape, NEW j \in Job, JobFails(j) PROVE SessionShape' /\ (Numbered => Numbered')
<1>1. Doing(j) /\ job[j].op # "none"
    BY ServerFacts DEF JobFails, Doing, Legal
<1>2. UNCHANGED <<browserVars, logins, alarms>> /\ Goto(j, "reject")
    BY DEF JobFails
<1>3. Allowed(job[j].op, "reject") /\ "reject" \in Pc
    BY <1>1 DEF Allowed, Pc
<1>4. registered' \in BOOLEAN /\ token' \in [Pair -> TokenState] /\ Issued' = Issued
    <2>1. CASE UNCHANGED token
        BY <2>1, ServerFacts DEF Issued, JobFails
    <2>2. CASE job[j].pc = "revoke" /\ token' = Revoked(j) /\ UNCHANGED registered
        <3>1. job[j].op \in {"refresh", "logout"}
            BY <2>2, ServerFacts DEF Legal, Entry, SessionShape, SessionTypeOK, JobState
        <3> QED BY <2>2, <3>1, ServerFacts, HandedInIsReal, TokenChanges DEF Revoked
    <2> QED BY <2>1, <2>2 DEF JobFails
<1>5. excused' \subseteq Pair /\ strays' \subseteq Pair
    BY ServerFacts DEF JobFails
<1>6. sessionFailures' \in 0..MaxSessionFailures
    BY ServerFacts, SessionAssumption DEF JobFails
<1> QED BY <1>1, <1>2, <1>3, <1>4, <1>5, <1>6, ServerFacts, ServerStep

(* The next pair is real from now on; a job that nobody hears is over.     *)
Created(j, n) ==
    /\ job'[j] \in JobState /\ job'[j].pc = "answer" /\ job'[j].new = n
    /\ job'[j].op = job[j].op /\ job'[j].pair = job[j].pair /\ job'[j].heard

LEMMA JobCreates ==
    ASSUME job \in [Job -> JobState], NEW j \in Job, NEW n \in Pair,
           job' = [job EXCEPT ![j] = IF @.heard THEN [@ EXCEPT !.pc = "answer", !.new = n] ELSE NoJob]
    PROVE  /\ job' \in [Job -> JobState] /\ \A i \in Job \ {j} : Alike(i)
           /\ \/ job[j].heard /\ Created(j, n)
              \/ ~job[j].heard /\ Gone(j)
<1>1. job[j] \in JobState
    OBVIOUS
<1>2. CASE job[j].heard
    <2> DEFINE r == [job[j] EXCEPT !.pc = "answer", !.new = n]
    <2>1. /\ r \in JobState /\ r.pc = "answer" /\ r.op = job[j].op /\ r.pair = job[j].pair
          /\ r.new = n /\ r.heard = job[j].heard
        BY <1>1 DEF JobState
    <2>2. job' = [job EXCEPT ![j] = r]
        BY <1>2
    <2> HIDE DEF r
    <2> QED BY <1>2, <2>1, <2>2 DEF Alike, Created
<1>3. CASE ~job[j].heard
    BY <1>3, ConstantFacts DEF Gone, Alike
<1> QED BY <1>2, <1>3

LEMMA TokenAppears ==
    ASSUME token \in [Pair -> TokenState], NEW n \in Pair, token' = [token EXCEPT ![n] = "live"]
    PROVE  token' \in [Pair -> TokenState] /\ Issued' = Issued \cup {n}
BY DEF Issued, TokenState

LEMMA CreatingToken ==
    ASSUME SessionShape, Numbered, NEW j \in Job, CreateToken(j)
    PROVE  SessionShape' /\ Numbered'
<1> DEFINE n == Cardinality(Issued) + 1
<1>1. /\ job[j].pc = "create" /\ token' = [token EXCEPT ![n] = "live"]
      /\ job' = [job EXCEPT ![j] = IF @.heard THEN [@ EXCEPT !.pc = "answer", !.new = n] ELSE NoJob]
      /\ strays' = (IF job[j].heard THEN strays ELSE strays \cup {n})
      /\ UNCHANGED <<registered, browserVars, logins, sessionFailures, alarms, excused>>
    BY DEF CreateToken
<1>2. n \in Pair
    BY <1>1, RoomForOneMore
<1> HIDE DEF n
<1>3. token' \in [Pair -> TokenState] /\ Issued' = Issued \cup {n}
    BY <1>1, <1>2, ServerFacts, TokenAppears
<1>4. /\ job' \in [Job -> JobState] /\ \A i \in Job \ {j} : Alike(i)
      /\ \/ job[j].heard /\ Created(j, n)
         \/ ~job[j].heard /\ Gone(j)
    BY <1>1, <1>2, ServerFacts, JobCreates
<1>5. SessionTypeOK'
    BY <1>1, <1>2, <1>3, <1>4 DEF SessionShape, SessionTypeOK, browserVars, TokenState
<1>6. JobControl'
    <2>1. Legal(j, job[j])
        BY ServerFacts
    <2>2. Legal(j, job'[j])
        BY <1>1, <1>4, <2>1, NoJobLegal DEF Gone, Legal, Created, Entry
    <2> QED BY <1>4, <2>2, ServerFacts DEF JobControl, Alike
<1>7. CallControl'
    <2>1. \A i \in Job : Doing(i)' => Doing(i) /\ job'[i].heard = job[i].heard
        <3>1. job[j].heard \in BOOLEAN /\ job'[j].heard \in BOOLEAN
            BY <1>4, ServerFacts DEF JobState
        <3>2. Doing(j) /\ (Doing(j)' => job'[j].heard = job[j].heard)
            BY <1>1, <1>4, <3>1 DEF Doing, Created, Gone, NoJob
        <3> QED BY <1>4, <3>2 DEF Doing, Alike
    <2>2. \A t \in Tab : tab'[t].open = tab[t].open /\ (~tab[t].open => tab'[t].pair = 0)
        BY <1>1 DEF SessionShape, CallControl, browserVars
    <2> QED BY <1>1, <2>1, <2>2, CallsQuiet DEF browserVars, SessionShape, SessionTypeOK
<1>8. Known'
    <2>1. \A i \in Job : job'[i].pair \in Real' /\ job'[i].new \in Real'
        BY <1>3, <1>4 DEF SessionShape, Known, Alike, Gone, Created, NoJob, Real
    <2>2. stored' \in Real' /\ alarms' \subseteq Issued' /\ \A t \in Tab : tab'[t].pair \in Real'
        BY <1>1, <1>3 DEF SessionShape, Known, Real, browserVars
    <2> QED BY <2>1, <2>2 DEF Known
<1>9. Numbered'
    <2>1. j \in Pending
        BY <1>1, ServerFacts DEF Pending, Legal
    <2>2. job'[j].pc \in {"idle", "answer"}
        BY <1>4 DEF Gone, Created, NoJob
    <2>3. logins \in Nat /\ UNCHANGED <<logins, call>>
        BY <1>1, ServerFacts, SessionAssumption DEF browserVars
    <2>4. Issued' = Issued \cup {Cardinality(Issued) + 1}
        BY <1>3 DEF n
    <2> QED BY <1>4, <2>1, <2>2, <2>3, <2>4, CreatedNumbered
<1> QED BY <1>5, <1>6, <1>7, <1>8, <1>9 DEF SessionShape

-----------------------------------------------------------------------------
(* What the tabs do.                                                       *)

LEMMA BrowserFacts ==
    ASSUME SessionShape
    PROVE  /\ tab \in [Tab -> TabState] /\ call \in [Call -> CallState] /\ stored \in Real
           /\ \A c \in Call : call[c].tab \in Tab
           /\ \A t \in Tab : tab[t].pair \in Real
           /\ \A j \in Job : job[j].pair \in Real /\ job[j].new \in Real
           /\ Real \subseteq Pair \cup {0}
BY DEF SessionShape, SessionTypeOK, Known, CallState, Real, Issued

LEMMA BrowserStep ==
    ASSUME SessionShape, UNCHANGED <<serverVars, alarms>>,
           excused' \subseteq Pair, strays' \subseteq Pair,
           sessionFailures' \in 0..MaxSessionFailures, logins' \in 0..MaxLogins,
           tab' \in [Tab -> TabState], stored' \in Real, \A t \in Tab : tab'[t].pair \in Real,
           call' \in [Call -> CallState], job' \in [Job -> JobState],
           \A i \in Job : Legal(i, job'[i]) /\ job'[i].pair \in Real /\ job'[i].new \in Real,
           CallControl',
           Numbered => Numbered' \/ (logins' = logins /\ (\A i \in Job : Calm(i)) /\ \A c \in Call : Worn(c))
    PROVE  SessionShape' /\ (Numbered => Numbered')
<1>1. Issued' = Issued
    BY DEF serverVars, Issued
<1>2. SessionTypeOK'
    BY DEF SessionShape, SessionTypeOK, serverVars, Real, Issued
<1>3. JobControl' /\ Known'
    BY <1>1 DEF JobControl, Known, SessionShape, Real
<1>4. Numbered => Numbered'
    BY <1>1, StaysNumbered, ServerFacts, SessionAssumption
<1> QED BY <1>2, <1>3, <1>4 DEF SessionShape

(* One job that begins or ends, or none.                                   *)
LEMMA JobsStayReal ==
    ASSUME SessionShape, \A i \in Job : Alike(i) \/ Gone(i) \/ Went(i, job'[i].pc) \/ Deaf(i)
    PROVE  \A i \in Job : job'[i].pair \in Real /\ job'[i].new \in Real
BY BrowserFacts DEF Alike, Gone, Went, Deaf, NoJob, Real

LEMMA OpeningTab == ASSUME SessionShape, NEW t \in Tab, OpenTab(t) PROVE SessionShape' /\ (Numbered => Numbered')
<1>1. /\ ~tab[t].open /\ tab' = [tab EXCEPT ![t] = [open |-> TRUE, pair |-> stored]]
      /\ UNCHANGED <<serverVars, stored, call, job, logins, sessionFailures, alarms, strays>>
    BY DEF OpenTab
<1>2. [open |-> TRUE, pair |-> stored] \in TabState
    BY BrowserFacts DEF TabState
<1>3. /\ tab' \in [Tab -> TabState] /\ tab'[t].open /\ tab'[t].pair = stored
      /\ \A u \in Tab \ {t} : tab'[u] = tab[u]
    BY <1>1, <1>2, BrowserFacts
<1>4. CallControl'
    BY <1>1, <1>3, BrowserFacts DEF CallControl, SessionShape, Doing
<1>5. excused' \subseteq Pair /\ strays' \subseteq Pair
    BY <1>1, ServerFacts, BrowserFacts DEF OpenTab
<1>6. \A u \in Tab : tab'[u].pair \in Real
    BY <1>3, BrowserFacts
<1>7. (\A i \in Job : Calm(i)) /\ \A c \in Call : Worn(c)
    BY <1>1, SameCallsWorn DEF Calm, Alike
<1> QED BY <1>7, <1>1, <1>3, <1>4, <1>5, <1>6, ServerFacts, BrowserFacts, BrowserStep

LEMMA LostCalls ==
    ASSUME call \in [Call -> CallState], NEW t \in Tab
    PROVE  /\ CallsLost(t) \in [Call -> CallState]
           /\ \A c \in Call : IF call[c].tab = t /\ call[c].pc \in {"sent", "waiting"}
                              THEN CallsLost(t)[c] = EndedCall ELSE CallsLost(t)[c] = call[c]
BY ConstantFacts DEF CallsLost

LEMMA LostCallsWorn ==
    ASSUME SessionShape, NEW t \in Tab, call' = CallsLost(t)
    PROVE  \A c \in Call : Worn(c)
<1>1. EndedCall.pc = "ended"
    BY DEF EndedCall
<1> QED BY <1>1, LostCalls, BrowserFacts DEF Worn, Spent

(* A tab goes away, or to the login page.                                  *)
LEMMA CallsOfTabLost ==
    ASSUME SessionShape, NEW t \in Tab, call' = CallsLost(t),
           \A i \in Job : Silenced(t, i) \/ Gone(i),
           \A u \in Tab \ {t} : tab'[u] = tab[u], ~tab'[t].open => tab'[t].pair = 0
    PROVE  CallControl'
<1>1. \A c \in Call : /\ call[c].tab = t /\ call[c].pc \in {"sent", "waiting"} => call'[c] = EndedCall
                      /\ ~(call[c].tab = t /\ call[c].pc \in {"sent", "waiting"}) => call'[c] = call[c]
    BY LostCalls, BrowserFacts
<1>2. \A c \in Call : call[c].tab \in Tab /\ c \in Job /\ c \notin Tab
    BY BrowserFacts, ConstantFacts
<1>3. ASSUME NEW i \in Job, Doing(i)' 
      PROVE  /\ Doing(i)
             /\ i \notin Mine(t) => job'[i] = job[i]
             /\ i \in Mine(t) => ~job'[i].heard
    BY <1>3 DEF Silenced, Alike, Gone, Deaf, Doing, NoJob, Mine
<1>4. \A c \in Call : Doing(c)' => call'[c].pc = IF job'[c].heard THEN "waiting" ELSE "ended"
    <2> SUFFICES ASSUME NEW c \in Call, Doing(c)' PROVE call'[c].pc = IF job'[c].heard THEN "waiting" ELSE "ended"
        OBVIOUS
    <2>1. Doing(c) /\ call[c].pc = IF job[c].heard THEN "waiting" ELSE "ended"
        BY <1>2, <1>3 DEF SessionShape, CallControl
    <2>2. c \in Mine(t) <=> job[c].heard /\ call[c].tab = t
        BY <1>2, <2>1 DEF Mine, Owner
    <2>3. CASE c \in Mine(t)
        <3>1. call[c].pc = "waiting" /\ call[c].tab = t
            BY <2>1, <2>2, <2>3
        <3>2. call'[c] = EndedCall /\ EndedCall.pc = "ended"
            BY <1>1, <3>1 DEF EndedCall
        <3>3. ~job'[c].heard
            BY <1>2, <1>3, <2>3
        <3> QED BY <3>2, <3>3
    <2>4. CASE c \notin Mine(t)
        <3>1. job'[c] = job[c]
            BY <1>2, <1>3, <2>4
        <3>2. ~(call[c].tab = t /\ call[c].pc \in {"sent", "waiting"})
            <4>1. CASE job[c].heard
                BY <2>2, <2>4, <4>1
            <4>2. CASE ~job[c].heard
                BY <2>1, <4>2
            <4> QED BY <4>1, <4>2
        <3>3. call'[c] = call[c]
            BY <1>1, <3>2
        <3> QED BY <2>1, <3>1, <3>3
    <2> QED BY <2>3, <2>4
<1>5. ASSUME NEW c \in Call, Doing(c)', job'[c].heard
      PROVE  Doing(c) /\ job[c].heard /\ call'[c].tab = call[c].tab
    <2>1. Doing(c) /\ c \notin Mine(t) /\ job'[c] = job[c]
        BY <1>2, <1>3, <1>5
    <2>2. call[c].tab # t
        BY <1>2, <1>5, <2>1 DEF Mine, Owner
    <2> QED BY <1>1, <1>5, <2>1, <2>2
<1>6. \A c, d \in Call : Doing(c)' /\ Doing(d)' /\ job'[c].heard /\ job'[d].heard /\ call'[c].tab = call'[d].tab => c = d
    BY <1>5 DEF SessionShape, CallControl
<1>7. \A c \in Call : call'[c].pc \in {"sent", "waiting"} => tab'[call'[c].tab].open
    <2> SUFFICES ASSUME NEW c \in Call, call'[c].pc \in {"sent", "waiting"} PROVE tab'[call'[c].tab].open
        OBVIOUS
    <2>1. EndedCall.pc = "ended"
        BY DEF EndedCall
    <2>2. ~(call[c].tab = t /\ call[c].pc \in {"sent", "waiting"})
        BY <1>1, <2>1
    <2>3. call'[c] = call[c] /\ call[c].tab # t
        BY <1>1, <2>2
    <2>4. tab[call[c].tab].open
        BY <2>3 DEF SessionShape, CallControl
    <2> QED BY <1>2, <2>3, <2>4
<1>8. \A u \in Tab : Doing(u)' /\ job'[u].heard => tab'[u].open
    <2> SUFFICES ASSUME NEW u \in Tab, Doing(u)', job'[u].heard PROVE tab'[u].open
        OBVIOUS
    <2>1. u \in Job /\ Doing(u) /\ u \notin Mine(t) /\ job'[u] = job[u]
        BY <1>3, ConstantFacts
    <2>2. u # t
        BY <2>1 DEF Mine, Owner
    <2> QED BY <2>1, <2>2 DEF SessionShape, CallControl
<1>9. \A u \in Tab : ~tab'[u].open => tab'[u].pair = 0
    BY DEF SessionShape, CallControl
<1> QED BY <1>4, <1>6, <1>7, <1>8, <1>9 DEF CallControl

(* The jobs that go on, or are not heard any more, are what they were.     *)
LEMMA SilencedJobs ==
    ASSUME SessionShape, NEW t \in Tab, \A i \in Job : Silenced(t, i) \/ Gone(i)
    PROVE  \A i \in Job : Legal(i, job'[i]) /\ job'[i].pair \in Real /\ job'[i].new \in Real
<1> SUFFICES ASSUME NEW i \in Job PROVE Legal(i, job'[i]) /\ job'[i].pair \in Real /\ job'[i].new \in Real
    OBVIOUS
<1>1. CASE Gone(i)
    BY <1>1, NoJobLegal DEF Gone, NoJob, Real
<1>2. CASE Silenced(t, i)
    <2>1. Legal(i, job'[i])
        BY <1>2, SilencedLegal DEF SessionShape
    <2> QED BY <1>2, <2>1, BrowserFacts DEF Silenced, Alike, Gone, Deaf, NoJob, Real
<1> QED BY <1>1, <1>2

LEMMA SilencedCalm ==
    ASSUME NEW t \in Tab, \A i \in Job : Silenced(t, i) \/ Gone(i)
    PROVE  \A i \in Job : Calm(i)
BY DEF Silenced, Calm

LEMMA HandedIn == ASSUME SessionShape, NEW t \in Tab PROVE PairsOf(t) \subseteq Issued /\ NewPairsOf(t) \subseteq Issued
BY BrowserFacts DEF PairsOf, NewPairsOf, Mine, Real

LEMMA ClosingTab == ASSUME SessionShape, NEW t \in Tab, CloseTab(t) PROVE SessionShape' /\ (Numbered => Numbered')
<1>1. /\ tab' = [tab EXCEPT ![t] = ClosedTab] /\ call' = CallsLost(t) /\ job' = Unheard(t)
      /\ UNCHANGED <<serverVars, stored, logins, alarms>>
    BY DEF CloseTab
<1>2. tab' \in [Tab -> TabState] /\ tab'[t] = ClosedTab /\ \A u \in Tab \ {t} : tab'[u] = tab[u]
    BY <1>1, ConstantFacts, BrowserFacts
<1>3. job' \in [Job -> JobState] /\ \A i \in Job : Silenced(t, i)
    BY <1>1, JobsSilenced, ServerFacts
<1>4. call' \in [Call -> CallState]
    BY <1>1, LostCalls, BrowserFacts
<1>5. CallControl'
    BY <1>1, <1>2, <1>3, CallsOfTabLost DEF ClosedTab
<1>6. excused' \subseteq Pair /\ strays' \subseteq Pair
    BY HandedIn, ServerFacts, BrowserFacts DEF CloseTab
<1>7. sessionFailures' \in 0..MaxSessionFailures
    BY ServerFacts, SessionAssumption DEF CloseTab
<1>8. \A u \in Tab : tab'[u].pair \in Real
    BY <1>2, BrowserFacts DEF ClosedTab, Real
<1>9. \A i \in Job : Legal(i, job'[i]) /\ job'[i].pair \in Real /\ job'[i].new \in Real
    BY <1>3, SilencedJobs
<1>10. (\A i \in Job : Calm(i)) /\ \A c \in Call : Worn(c)
    BY <1>1, <1>3, SilencedCalm, LostCallsWorn
<1> QED BY <1>10, <1>1, <1>2, <1>3, <1>4, <1>5, <1>6, <1>7, <1>8, <1>9, ServerFacts, BrowserFacts, BrowserStep

LEMMA Entering ==
    ASSUME SessionShape, NEW t \in Tab, NEW op \in Entry, Enter(t, op)
    PROVE  SessionShape' /\ (Numbered => Numbered')
<1>1. /\ tab[t].open /\ logins < MaxLogins /\ logins' = logins + 1 /\ Start(t, op, "find", 0)
      /\ UNCHANGED <<serverVars, browserVars, sessionFailures, historyVars>>
    BY DEF Enter
<1>2. t \in Job /\ t \notin Call
    BY ConstantFacts
<1>3. job' \in [Job -> JobState] /\ (\A i \in Job \ {t} : Alike(i)) /\ Began(t, op, "find", 0)
    BY <1>1, <1>2, ServerFacts, JobBegins DEF Entry, Op, Pc
<1>4. logins' \in 0..MaxLogins
    BY <1>1, ServerFacts, SessionAssumption
<1>5. \A i \in Job : Legal(i, job'[i]) /\ job'[i].pair \in Real /\ job'[i].new \in Real
    <2>1. Legal(t, job'[t]) /\ job'[t].pair \in Real /\ job'[t].new \in Real
        BY <1>2, <1>3, BeganLegal DEF Began, Real
    <2> QED BY <1>3, <2>1, ServerFacts, BrowserFacts DEF Alike
<1>6. CallControl'
    <2>1. \A i \in Job \ {t} : Doing(i)' = Doing(i) /\ job'[i] = job[i]
        BY <1>3 DEF Alike, Doing
    <2>2. UNCHANGED <<tab, call>>
        BY <1>1 DEF browserVars
    <2>3. \A c \in Call : c \in Job \ {t}
        BY <1>2, ConstantFacts
    <2>4. \A u \in Tab : u = t \/ u \in Job \ {t}
        BY ConstantFacts
    <2> QED BY <1>1, <2>1, <2>2, <2>3, <2>4 DEF CallControl, SessionShape
<1>7. Numbered => Numbered'
    <2>1. \A i \in Job \ {t} : Calm(i)
        BY <1>3 DEF Calm
    <2>2. \A c \in Call : Worn(c)
        BY <1>1, SameCallsWorn DEF browserVars
    <2>3. Issued' = Issued /\ logins \in Nat
        BY <1>1, ServerFacts, SessionAssumption DEF serverVars, Issued
    <2> QED BY <1>1, <1>2, <2>1, <2>2, <2>3, MoreLoginsNumbered
<1> QED BY <1>7, <1>1, <1>3, <1>4, <1>5, <1>6, ServerFacts, BrowserFacts, BrowserStep DEF browserVars, historyVars

LEMMA LoggingOut == ASSUME SessionShape, NEW t \in Tab, Logout(t) PROVE SessionShape' /\ (Numbered => Numbered')
<1> DEFINE n == tab[t].pair
<1>1. /\ tab[t].open /\ n # 0 /\ Start(t, "logout", "revoke", n)
      /\ UNCHANGED <<serverVars, browserVars, logins, sessionFailures, alarms, strays>>
    BY DEF Logout
<1>2. t \in Job /\ t \notin Call /\ n \in Real /\ n \in Pair
    BY <1>1, ConstantFacts, BrowserFacts
<1>3. excused' \subseteq Pair
    BY <1>2, ServerFacts DEF Logout
<1> HIDE DEF n
<1>4. job' \in [Job -> JobState] /\ (\A i \in Job \ {t} : Alike(i)) /\ Began(t, "logout", "revoke", n)
    BY <1>1, <1>2, ServerFacts, JobBegins DEF Op, Pc
<1>5. \A i \in Job : Legal(i, job'[i]) /\ job'[i].pair \in Real /\ job'[i].new \in Real
    <2>1. Legal(t, job'[t]) /\ job'[t].pair \in Real /\ job'[t].new \in Real
        BY <1>1, <1>2, <1>4, BeganLegal DEF Began, Real
    <2> QED BY <1>4, <2>1, ServerFacts, BrowserFacts DEF Alike
<1>6. CallControl'
    <2>1. \A i \in Job \ {t} : Doing(i)' = Doing(i) /\ job'[i] = job[i]
        BY <1>4 DEF Alike, Doing
    <2>2. UNCHANGED <<tab, call>>
        BY <1>1 DEF browserVars
    <2>3. \A c \in Call : c \in Job \ {t}
        BY <1>2, ConstantFacts
    <2>4. \A u \in Tab : u = t \/ u \in Job \ {t}
        BY ConstantFacts
    <2> QED BY <1>1, <2>1, <2>2, <2>3, <2>4 DEF CallControl, SessionShape
<1>7. (\A i \in Job : Calm(i)) /\ \A c \in Call : Worn(c)
    BY <1>1, <1>4, SameCallsWorn DEF Calm, Began, browserVars
<1> QED BY <1>7, <1>1, <1>3, <1>4, <1>5, <1>6, ServerFacts, BrowserFacts, BrowserStep DEF browserVars

(* A request changes its state.                                            *)
CallWent(c, pc, t) ==
    /\ call' \in [Call -> CallState]
    /\ call'[c].pc = pc /\ call'[c].tab = t
    /\ \A d \in Call \ {c} : call'[d] = call[d]

LEMMA OneCallChanges ==
    ASSUME SessionShape, NEW c \in Call, NEW pc, NEW t \in Tab, CallWent(c, pc, t),
           UNCHANGED <<tab, job>>, ~Doing(c),
           pc \in {"sent", "waiting"} => tab[t].open
    PROVE  CallControl'
<1>1. \A i : Doing(i)' = Doing(i)
    BY DEF Doing
<1>2. \A d \in Call : Doing(d) => call'[d] = call[d]
    BY DEF CallWent
<1>3. \A d \in Call : call'[d].pc \in {"sent", "waiting"} => tab[call'[d].tab].open
    BY DEF CallWent, SessionShape, CallControl
<1> QED BY <1>1, <1>2, <1>3 DEF SessionShape, CallControl

LEMMA CallStep ==
    ASSUME SessionShape, NEW c \in Call, NEW pc, NEW t \in Tab, CallWent(c, pc, t),
           UNCHANGED <<serverVars, tab, stored, job, logins, sessionFailures, historyVars>>, ~Doing(c),
           pc \in {"sent", "waiting"} => tab[t].open,
           Numbered => \A d \in Call : Worn(d)
    PROVE  SessionShape' /\ (Numbered => Numbered')
<1>1. CallControl' /\ call' \in [Call -> CallState]
    BY OneCallChanges DEF CallWent
<1>2. \A i \in Job : Calm(i)
    BY DEF Calm, Alike
<1> QED BY <1>2, <1>1, ServerFacts, BrowserFacts, BrowserStep DEF historyVars

LEMMA IdleCall ==
    ASSUME SessionShape, NEW c \in Call, call[c].pc \in {"unsent", "sent"}
    PROVE  ~Doing(c)
BY DEF SessionShape, CallControl

LEMMA Waits ==
    ASSUME SessionShape, NEW c \in Call, Wait(c)
    PROVE  CallWent(c, "waiting", call[c].tab) /\ call'[c].retried
<1> DEFINE r == [call[c] EXCEPT !.pc = "waiting", !.retried = TRUE]
<1>1. call[c] \in CallState /\ call \in [Call -> CallState]
    BY BrowserFacts
<1>2. r \in CallState /\ r.pc = "waiting" /\ r.tab = call[c].tab /\ r.retried
    BY <1>1 DEF CallState
<1>3. call' = [call EXCEPT ![c] = r]
    BY <1>1 DEF Wait
<1> HIDE DEF r
<1> QED BY <1>1, <1>2, <1>3 DEF CallWent

LEMMA Sending ==
    ASSUME SessionShape, NEW t \in Tab, NEW c \in Call, Send(c, t)
    PROVE  SessionShape' /\ (Numbered => Numbered')
<1> DEFINE r == [pc |-> "sent", tab |-> t, retried |-> FALSE]
<1>1. r \in CallState /\ r.pc = "sent" /\ r.tab = t
    BY DEF CallState
<1>2. call[c].pc = "unsent" /\ tab[t].open /\ call' = [call EXCEPT ![c] = r]
      /\ UNCHANGED <<serverVars, tab, stored, job, logins, sessionFailures, historyVars>>
    BY DEF Send
<1> HIDE DEF r
<1>3. CallWent(c, "sent", t)
    BY <1>1, <1>2, BrowserFacts DEF CallWent
<1>4. Numbered => \A d \in Call : Worn(d)
    BY <1>2, <1>3 DEF CallWent, Worn, Spent, Numbered
<1> QED BY <1>4, <1>2, <1>3, IdleCall, CallStep

LEMMA EndingCall == ASSUME SessionShape, NEW c \in Call, CallEnds(c) PROVE SessionShape' /\ (Numbered => Numbered')
<1>1. call[c].pc = "sent" /\ call' = [call EXCEPT ![c] = EndedCall]
      /\ UNCHANGED <<serverVars, tab, stored, job, logins, sessionFailures, historyVars>>
    BY DEF CallEnds
<1>2. EndedCall \in CallState /\ EndedCall.pc = "ended" /\ EndedCall.tab \in Tab
    BY ConstantFacts DEF EndedCall, CallState
<1>3. CallWent(c, "ended", EndedCall.tab)
    BY <1>1, <1>2, BrowserFacts DEF CallWent
<1>4. \A d \in Call : Worn(d)
    BY <1>3 DEF CallWent, Worn, Spent
<1> QED BY <1>4, <1>1, <1>2, <1>3, IdleCall, CallStep

LEMMA JoiningRefresh == ASSUME SessionShape, NEW c \in Call, JoinRefresh(c) PROVE SessionShape' /\ (Numbered => Numbered')
<1>1. call[c].pc = "sent" /\ Wait(c)
      /\ UNCHANGED <<serverVars, tab, stored, job, logins, sessionFailures, historyVars>>
    BY DEF JoinRefresh, Unauthorized
<1>2. CallWent(c, "waiting", call[c].tab) /\ call[c].tab \in Tab
    BY <1>1, Waits, BrowserFacts
<1>3. tab[call[c].tab].open
    BY <1>1 DEF SessionShape, CallControl
<1>4. \A d \in Call : Worn(d)
    BY <1>1, <1>2, Waits DEF CallWent, Worn, Spent
<1> QED BY <1>4, <1>1, <1>2, <1>3, IdleCall, CallStep

LEMMA StartingRefresh == ASSUME SessionShape, NEW c \in Call, StartRefresh(c) PROVE SessionShape' /\ (Numbered => Numbered')
<1> DEFINE n == tab[call[c].tab].pair
<1>1. /\ call[c].pc = "sent" /\ Wait(c) /\ n # 0 /\ Start(c, "refresh", "find", n)
      /\ UNCHANGED <<serverVars, tab, stored, logins, sessionFailures, alarms, strays>>
    BY DEF StartRefresh, Unauthorized
<1>2. c \in Job /\ c \notin Tab /\ call[c].tab \in Tab /\ n \in Real /\ n \in Pair
    BY <1>1, ConstantFacts, BrowserFacts
<1>3. excused' \subseteq Pair
    BY <1>2, ServerFacts DEF StartRefresh
<1>4. \A d \in Call : call[d].tab = call[c].tab /\ Doing(d) => ~job[d].heard
    BY DEF StartRefresh, MayRefresh, Refreshing
<1> HIDE DEF n
<1>5. job' \in [Job -> JobState] /\ (\A i \in Job \ {c} : Alike(i)) /\ Began(c, "refresh", "find", n)
    BY <1>1, <1>2, ServerFacts, JobBegins DEF Op, Pc
<1>6. \A i \in Job : Legal(i, job'[i]) /\ job'[i].pair \in Real /\ job'[i].new \in Real
    <2>1. Legal(c, job'[c]) /\ job'[c].pair \in Real /\ job'[c].new \in Real
        BY <1>1, <1>2, <1>5, BeganLegal DEF Began, Real
    <2> QED BY <1>5, <2>1, ServerFacts, BrowserFacts DEF Alike
<1>7. CallWent(c, "waiting", call[c].tab)
    BY <1>1, Waits
<1>8. CallControl'
    <2>1. \A i \in Job \ {c} : Doing(i)' = Doing(i) /\ job'[i] = job[i]
        BY <1>5 DEF Alike, Doing
    <2>2. \A d \in Call \ {c} : call'[d] = call[d] /\ d \in Job \ {c}
        BY <1>7, ConstantFacts DEF CallWent
    <2>3. call'[c].pc = "waiting" /\ call'[c].tab = call[c].tab /\ tab' = tab
        BY <1>1, <1>7 DEF CallWent
    <2>4. job'[c].heard /\ tab[call[c].tab].open
        BY <1>1, <1>5 DEF Began, SessionShape, CallControl
    <2>5. \A u \in Tab : u \in Job \ {c}
        BY <1>2, ConstantFacts
    <2>6. \A d \in Call : Doing(d)' => call'[d].pc = IF job'[d].heard THEN "waiting" ELSE "ended"
        BY <2>1, <2>2, <2>3, <2>4 DEF SessionShape, CallControl
    <2>7. \A d, e \in Call : Doing(d)' /\ Doing(e)' /\ job'[d].heard /\ job'[e].heard
                              /\ call'[d].tab = call'[e].tab => d = e
        BY <1>4, <2>1, <2>2, <2>3 DEF SessionShape, CallControl
    <2>8. \A d \in Call : call'[d].pc \in {"sent", "waiting"} => tab'[call'[d].tab].open
        BY <2>2, <2>3, <2>4 DEF SessionShape, CallControl
    <2>9. \A u \in Tab : (Doing(u)' /\ job'[u].heard => tab'[u].open) /\ (~tab'[u].open => tab'[u].pair = 0)
        BY <2>1, <2>3, <2>5 DEF SessionShape, CallControl
    <2> QED BY <2>6, <2>7, <2>8, <2>9 DEF CallControl
<1>9. Numbered => Numbered'
    <2>1. \A i \in Job \ {c} : Calm(i)
        BY <1>5 DEF Calm
    <2>2. (\A d \in Call : Worn(d)) /\ c \in Spent'
        BY <1>1, <1>7, Waits DEF CallWent, Worn, Spent
    <2>3. c \notin Spent
        BY <1>1 DEF StartRefresh, Unauthorized, Spent
    <2>4. Issued' = Issued /\ logins \in Nat /\ UNCHANGED logins
        BY <1>1, ServerFacts, SessionAssumption DEF serverVars, Issued
    <2> QED BY <1>2, <2>1, <2>2, <2>3, <2>4, MoreRetriesNumbered
<1> QED BY <1>9, <1>1, <1>3, <1>5, <1>6, <1>7, <1>8, ServerFacts, BrowserFacts, BrowserStep DEF CallWent

(* The tab of a job that is heard is open.                                 *)
LEMMA HeardByATab ==
    ASSUME SessionShape, NEW j \in Job, Doing(j), job[j].heard
    PROVE  Owner(j) \in Tab /\ tab[Owner(j)].open
BY ConstantFacts, BrowserFacts DEF Owner, SessionShape, CallControl

LEMMA AnswersAreHeard ==
    ASSUME SessionShape, NEW j \in Job, job[j].pc \in {"answer", "reject"}
    PROVE  Doing(j) /\ job[j].heard /\ Owner(j) \in Tab /\ tab[Owner(j)].open
BY ServerFacts, HeardByATab DEF Legal, Doing

(* A tab takes, or forgets, a pair.                                        *)
TabTakes(t, n) ==
    /\ tab' \in [Tab -> TabState]
    /\ tab'[t].open = tab[t].open /\ tab'[t].pair = n
    /\ \A u \in Tab \ {t} : tab'[u] = tab[u]

LEMMA TakesPair ==
    ASSUME SessionShape, NEW t \in Tab, NEW n \in Real, tab' = [tab EXCEPT ![t].pair = n]
    PROVE  TabTakes(t, n)
<1> DEFINE r == [tab[t] EXCEPT !.pair = n]
<1>1. tab[t] \in TabState /\ n \in Pair \cup {0}
    BY BrowserFacts
<1>2. r \in TabState /\ r.open = tab[t].open /\ r.pair = n
    BY <1>1 DEF TabState
<1>3. tab' = [tab EXCEPT ![t] = r]
    BY <1>1, BrowserFacts
<1> HIDE DEF r
<1> QED BY <1>2, <1>3, BrowserFacts DEF TabTakes

LEMMA Reloading ==
    ASSUME SessionShape, NEW t \in Tab, NEW n \in Real, Reload(t, n),
           job' \in [Job -> JobState], \A i \in Job : Silenced(t, i) \/ Gone(i),
           UNCHANGED <<serverVars, logins, sessionFailures, alarms>>
    PROVE  SessionShape' /\ (Numbered => Numbered') /\ TabTakes(t, 0)
<1>1. /\ tab' = [tab EXCEPT ![t].pair = 0] /\ stored' = 0 /\ call' = CallsLost(t)
      /\ strays' = Forget(t, n) \cup NewPairsOf(t) /\ excused' = excused \cup PairsOf(t)
    BY DEF Reload
<1>2. 0 \in Real
    BY DEF Real
<1>3. TabTakes(t, 0)
    BY <1>1, <1>2, TakesPair
<1>4. call' \in [Call -> CallState]
    BY <1>1, LostCalls, BrowserFacts
<1>5. CallControl'
    BY <1>1, <1>3, CallsOfTabLost DEF TabTakes
<1>6. excused' \subseteq Pair /\ strays' \subseteq Pair
    BY <1>1, HandedIn, ServerFacts, BrowserFacts DEF Forget
<1>7. \A u \in Tab : tab'[u].pair \in Real
    BY <1>2, <1>3, BrowserFacts DEF TabTakes
<1>8. \A i \in Job : Legal(i, job'[i]) /\ job'[i].pair \in Real /\ job'[i].new \in Real
    BY SilencedJobs
<1>9. (\A i \in Job : Calm(i)) /\ \A c \in Call : Worn(c)
    BY <1>1, SilencedCalm, LostCallsWorn
<1> QED BY <1>9, <1>1, <1>2, <1>3, <1>4, <1>5, <1>6, <1>7, <1>8, ServerFacts, BrowserStep DEF TabTakes

LEMMA NoPairToRefresh == ASSUME SessionShape, NEW c \in Call, NothingToRefresh(c) PROVE SessionShape' /\ (Numbered => Numbered')
<1>1. Reload(call[c].tab, 0) /\ job' = Unheard(call[c].tab)
      /\ UNCHANGED <<serverVars, logins, sessionFailures, alarms>>
    BY DEF NothingToRefresh
<1>2. call[c].tab \in Tab /\ 0 \in Real
    BY BrowserFacts DEF Real
<1>3. job' \in [Job -> JobState] /\ \A i \in Job : Silenced(call[c].tab, i)
    BY <1>1, <1>2, JobsSilenced, ServerFacts
<1> QED BY <1>1, <1>2, <1>3, Reloading

LEMMA RejectedRefresh ==
    ASSUME SessionShape, NEW c \in Call, RefreshRejected(c)
    PROVE  /\ SessionShape' /\ (Numbered => Numbered')
           /\ job' \in [Job -> JobState] /\ Gone(c) /\ \A i \in Job \ {c} : Silenced(Owner(c), i)
           /\ Owner(c) \in Tab /\ TabTakes(Owner(c), 0)
<1>1. /\ Reload(Owner(c), job[c].pair) /\ job' = [Unheard(Owner(c)) EXCEPT ![c] = NoJob]
      /\ UNCHANGED <<serverVars, logins, sessionFailures, alarms>> /\ job[c].pc = "reject"
    BY DEF RefreshRejected, At
<1>2. c \in Job /\ Owner(c) \in Tab /\ job[c].pair \in Real
    BY <1>1, ConstantFacts, BrowserFacts, AnswersAreHeard
<1>3. Unheard(Owner(c)) \in [Job -> JobState]
    BY <1>2, JobsSilenced, ServerFacts
<1>4. job' \in [Job -> JobState] /\ job'[c] = NoJob /\ \A i \in Job \ {c} : job'[i] = Unheard(Owner(c))[i]
    BY <1>1, <1>2, <1>3, ConstantFacts
<1>5. \A i \in Job \ {c} : Silenced(Owner(c), i)
    <2> SUFFICES ASSUME NEW i \in Job \ {c} PROVE Silenced(Owner(c), i)
        OBVIOUS
    <2>1. job[i] \in JobState
        BY ServerFacts
    <2> DEFINE r == [job[i] EXCEPT !.heard = FALSE]
    <2>2. /\ r \in JobState /\ r.pc = job[i].pc /\ r.op = job[i].op /\ r.pair = job[i].pair
          /\ r.new = job[i].new /\ r.heard = FALSE
        BY <2>1 DEF JobState
    <2>3. job'[i] = IF i \notin Mine(Owner(c)) THEN job[i]
                    ELSE IF job[i].pc \in {"answer", "reject"} THEN NoJob ELSE r
        BY <1>4 DEF Unheard
    <2> HIDE DEF r
    <2> QED BY <2>2, <2>3 DEF Silenced, Alike, Gone, Deaf
<1>6. Gone(c)
    BY <1>4 DEF Gone
<1> QED BY <1>1, <1>2, <1>4, <1>5, <1>6, Reloading

(* The answer to a job of a tab.                                           *)
LEMMA AnsweredTab ==
    ASSUME SessionShape, NEW t \in Tab, job[t].pc \in {"answer", "reject"}, job' = [job EXCEPT ![t] = NoJob],
           \/ UNCHANGED <<tab, stored, strays>>
           \/ \E n \in {0, job[t].new} : tab' = [tab EXCEPT ![t].pair = n] /\ stored' = n,
           strays' = strays \/ strays' = Forget(t, job[t].pair),
           UNCHANGED <<serverVars, call, logins, sessionFailures, alarms, excused>>
    PROVE  SessionShape' /\ (Numbered => Numbered')
<1>1. t \in Job /\ Owner(t) = t
    BY ConstantFacts DEF Owner
<1>2. job' \in [Job -> JobState] /\ Gone(t) /\ \A i \in Job \ {t} : Alike(i)
    BY <1>1, JobEnds, ServerFacts
<1>3. \A i \in Job : Legal(i, job'[i]) /\ job'[i].pair \in Real /\ job'[i].new \in Real
    BY <1>2, ServerFacts, BrowserFacts, NoJobLegal DEF Alike, Gone, NoJob, Real
<1>4. tab[t].open
    BY <1>1, AnswersAreHeard
<1>5. /\ tab' \in [Tab -> TabState] /\ stored' \in Real
      /\ \A u \in Tab : tab'[u].open = tab[u].open /\ tab'[u].pair \in Real
      /\ \A u \in Tab \ {t} : tab'[u] = tab[u]
    <2>1. CASE UNCHANGED <<tab, stored, strays>>
        BY <2>1, BrowserFacts
    <2>2. ASSUME NEW n \in {0, job[t].new}, tab' = [tab EXCEPT ![t].pair = n], stored' = n
          PROVE  <1>5!:
        <3>1. n \in Real
            BY <1>1, BrowserFacts DEF Real
        <3>2. TabTakes(t, n)
            BY <2>2, <3>1, TakesPair
        <3> QED BY <2>2, <3>1, <3>2, BrowserFacts DEF TabTakes
    <2> QED BY <2>1, <2>2
<1>6. CallControl'
    <2>1. \A i \in Job : Doing(i)' => Doing(i) /\ job'[i].heard = job[i].heard
        BY <1>2 DEF Alike, Gone, Doing, NoJob
    <2>2. \A u \in Tab : tab'[u].open = tab[u].open /\ (~tab[u].open => tab'[u].pair = 0)
        BY <1>4, <1>5 DEF SessionShape, CallControl
    <2> QED BY <2>1, <2>2, CallsQuiet, BrowserFacts DEF SessionShape
<1>7. strays' \subseteq Pair
    BY ServerFacts, BrowserFacts DEF Forget
<1>8. (\A i \in Job : Calm(i)) /\ \A c \in Call : Worn(c)
    BY <1>2, SameCallsWorn DEF Calm
<1> QED BY <1>8, <1>2, <1>3, <1>5, <1>6, <1>7, ServerFacts, BrowserFacts, BrowserStep

LEMMA AnsweredEntry == ASSUME SessionShape, NEW t \in Tab, EnterAnswer(t) PROVE SessionShape' /\ (Numbered => Numbered')
<1>1. t \in Job /\ Owner(t) = t
    BY ConstantFacts DEF Owner
<1> QED BY <1>1, AnsweredTab DEF EnterAnswer, Take

LEMMA AnsweredLogout == ASSUME SessionShape, NEW t \in Tab, LogoutAnswer(t) PROVE SessionShape' /\ (Numbered => Numbered')
BY AnsweredTab DEF LogoutAnswer

LEMMA CallsGoOn ==
    ASSUME SessionShape, NEW c \in Call
    PROVE  /\ Again(c) \in [Call -> CallState]
           /\ \A d \in Call : call[d].pc # "waiting" => Again(c)[d] = call[d]
           /\ \A d \in Call :
                 /\ Again(c)[d].tab = call[d].tab /\ Again(c)[d].retried = call[d].retried
                 /\ Again(c)[d].pc = IF call[d].pc = "waiting" /\ call[d].tab = call[c].tab THEN "sent" ELSE call[d].pc
<1> DEFINE r(d) == [call[d] EXCEPT !.pc = "sent"]
<1>1. ASSUME NEW d \in Call PROVE r(d) \in CallState /\ r(d).tab = call[d].tab /\ r(d).pc = "sent" /\ r(d).retried = call[d].retried
    <2>1. call[d] \in CallState
        BY BrowserFacts
    <2> QED BY <2>1 DEF CallState
<1>2. Again(c) = [d \in Call |-> IF call[d].pc = "waiting" /\ call[d].tab = call[c].tab THEN r(d) ELSE call[d]]
    BY DEF Again
<1> HIDE DEF r
<1> QED BY <1>1, <1>2, BrowserFacts

LEMMA AnsweredRefresh ==
    ASSUME SessionShape, NEW c \in Call, RefreshAnswer(c)
    PROVE  /\ SessionShape' /\ (Numbered => Numbered')
           /\ Owner(c) \in Tab /\ TabTakes(Owner(c), job[c].new)
<1>1. /\ job[c].op = "refresh" /\ job[c].pc = "answer"
      /\ tab' = [tab EXCEPT ![Owner(c)].pair = job[c].new] /\ stored' = job[c].new
      /\ strays' = Forget(Owner(c), job[c].pair)
      /\ call' = Again(c) /\ job' = [job EXCEPT ![c] = NoJob]
      /\ UNCHANGED <<serverVars, logins, sessionFailures, alarms, excused>>
    BY DEF RefreshAnswer, At, Take
<1>2. c \in Job /\ Owner(c) = call[c].tab /\ Owner(c) \in Tab /\ Doing(c) /\ job[c].heard /\ tab[Owner(c)].open
    BY <1>1, ConstantFacts, AnswersAreHeard DEF Owner
<1>3. TabTakes(Owner(c), job[c].new) /\ job[c].new \in Real
    BY <1>1, <1>2, BrowserFacts, TakesPair
<1>4. job' \in [Job -> JobState] /\ Gone(c) /\ \A i \in Job \ {c} : Alike(i)
    BY <1>1, <1>2, JobEnds, ServerFacts
<1>5. \A i \in Job : Legal(i, job'[i]) /\ job'[i].pair \in Real /\ job'[i].new \in Real
    BY <1>4, ServerFacts, BrowserFacts, NoJobLegal DEF Alike, Gone, NoJob, Real
<1>6. \A u \in Tab : tab'[u].open = tab[u].open /\ tab'[u].pair \in Real
    BY <1>3, BrowserFacts DEF TabTakes
<1>7. /\ call' \in [Call -> CallState]
      /\ \A d \in Call : /\ call'[d].tab = call[d].tab
                         /\ call'[d].pc = IF call[d].pc = "waiting" /\ call[d].tab = call[c].tab THEN "sent" ELSE call[d].pc
    BY <1>1, CallsGoOn
<1>8. CallControl'
    <2>1. \A i \in Job : Doing(i)' => i # c /\ Doing(i) /\ job'[i] = job[i]
        BY <1>4 DEF Alike, Gone, Doing, NoJob
    <2>2. \A d \in Call : Doing(d)' => call'[d].pc = IF job'[d].heard THEN "waiting" ELSE "ended"
        <3> SUFFICES ASSUME NEW d \in Call, Doing(d)' PROVE call'[d].pc = IF job'[d].heard THEN "waiting" ELSE "ended"
            OBVIOUS
        <3>1. d # c /\ Doing(d) /\ job'[d] = job[d]
            BY <2>1, ConstantFacts
        <3>2. call[d].pc = IF job[d].heard THEN "waiting" ELSE "ended"
            BY <3>1 DEF SessionShape, CallControl
        <3>3. job[d].heard => call[d].tab # call[c].tab
            BY <1>2, <3>1 DEF SessionShape, CallControl
        <3> QED BY <1>7, <3>1, <3>2, <3>3
    <2>3. \A d, e \in Call : Doing(d)' /\ Doing(e)' /\ job'[d].heard /\ job'[e].heard
                              /\ call'[d].tab = call'[e].tab => d = e
        BY <1>7, <2>1, ConstantFacts DEF SessionShape, CallControl
    <2>4. \A d \in Call : call'[d].pc \in {"sent", "waiting"} => tab'[call'[d].tab].open
        BY <1>6, <1>7, BrowserFacts DEF SessionShape, CallControl
    <2>5. \A u \in Tab : (Doing(u)' /\ job'[u].heard => tab'[u].open) /\ (~tab'[u].open => tab'[u].pair = 0)
        BY <1>2, <1>3, <1>6, <2>1, ConstantFacts DEF TabTakes, SessionShape, CallControl
    <2> QED BY <2>2, <2>3, <2>4, <2>5 DEF CallControl
<1>9. strays' \subseteq Pair
    BY <1>1, <1>2, ServerFacts, BrowserFacts DEF Forget
<1>10. (\A i \in Job : Calm(i)) /\ \A d \in Call : Worn(d)
    <2>1. \A i \in Job : Calm(i)
        BY <1>4 DEF Calm
    <2>2. ASSUME NEW d \in Call PROVE Worn(d)
        <3>1. /\ call'[d].retried = call[d].retried
              /\ call'[d].pc = call[d].pc \/ (call[d].pc = "waiting" /\ call'[d].pc = "sent")
            <4>1. /\ call'[d].retried = call[d].retried
                  /\ call'[d].pc = IF call[d].pc = "waiting" /\ call[d].tab = call[c].tab THEN "sent" ELSE call[d].pc
                BY <1>1, CallsGoOn
            <4> QED BY <4>1
        <3>2. call[d].pc = "unsent" => call'[d] = call[d]
            BY <1>1, CallsGoOn
        <3>3. call'[d].pc = "unsent" => call[d].pc = "unsent"
            BY <3>1
        <3> QED BY <3>1, <3>2, <3>3 DEF Worn, Spent
    <2> QED BY <2>1, <2>2
<1> QED BY <1>10, <1>1, <1>2, <1>3, <1>4, <1>5, <1>6, <1>7, <1>8, <1>9, ServerFacts, BrowserFacts, BrowserStep DEF TabTakes

LEMMA NothingHappens == ASSUME SessionShape, UNCHANGED sessionVars PROVE SessionShape' /\ (Numbered => Numbered')
<1>1. UNCHANGED <<serverVars, browserVars, job, logins, sessionFailures, historyVars>>
    BY DEF sessionVars
<1>2. \A i \in Job : Alike(i) /\ Calm(i) /\ Legal(i, job'[i])
    BY <1>1, ServerFacts DEF Alike, Calm
<1>3. CallControl'
    BY <1>1 DEF SessionShape, CallControl, Doing, browserVars
<1>4. \A c \in Call : Worn(c)
    BY <1>1, SameCallsWorn DEF browserVars
<1> QED BY <1>1, <1>2, <1>3, <1>4, ServerFacts, BrowserFacts, BrowserStep DEF browserVars, historyVars

LEMMA ShapeSteps ==
    ASSUME SessionShape, Numbered, [SessionNext]_sessionVars
    PROVE  SessionShape' /\ Numbered'
<1>1. ASSUME NEW t \in Tab,
             OpenTab(t) \/ CloseTab(t) \/ Logout(t) \/ Enter(t, "register") \/ Enter(t, "login")
             \/ \E c \in Call : Send(c, t)
      PROVE  SessionShape' /\ Numbered'
    BY <1>1, OpeningTab, ClosingTab, LoggingOut, Entering, Sending DEF Entry
<1>2. ASSUME NEW j \in Job,
             \/ FindUser(j) \/ InsertUser(j) \/ FindToken(j) \/ RaiseAlarm(j) \/ RevokeToken(j) \/ CreateToken(j)
             \/ JobFails(j)
      PROVE  SessionShape' /\ Numbered'
    BY <1>2, FindingUser, InsertingUser, FindingToken, RaisingAlarm, RevokingToken, CreatingToken, FailingJob
<1>3. ASSUME NEW t \in Tab, EnterAnswer(t) \/ LogoutAnswer(t)
      PROVE  SessionShape' /\ Numbered'
    BY <1>3, AnsweredEntry, AnsweredLogout
<1>4. ASSUME NEW c \in Call,
             \/ CallEnds(c) \/ JoinRefresh(c) \/ StartRefresh(c) \/ NothingToRefresh(c)
             \/ RefreshAnswer(c) \/ RefreshRejected(c)
      PROVE  SessionShape' /\ Numbered'
    BY <1>4, EndingCall, JoiningRefresh, StartingRefresh, NoPairToRefresh, AnsweredRefresh, RejectedRefresh
<1>5. CASE UNCHANGED sessionVars
    BY <1>5, NothingHappens
<1> QED BY <1>1, <1>2, <1>3, <1>4, <1>5 DEF SessionNext, Serve

(* Sessions keep their shape, whatever fails and however calls overlap:    *)
(* the pairs that exist are the first ones (Numbered), no tab has two      *)
(* refreshes under way of which it will hear the end, and a call that      *)
(* waits belongs to an open tab (CallControl), and what is stored, held by *)
(* a tab or handed in is a pair that users.service.ts has made (Known;     *)
(* client.ts, users.service.ts).                                           *)
THEOREM SessionsKeepShape == SessionSpec => [](SessionShape /\ Numbered)
<1>1. SessionInit => SessionShape /\ Numbered
    BY SessionStarts
<1>2. SessionShape /\ Numbered /\ [SessionNext]_sessionVars => SessionShape' /\ Numbered'
    BY ShapeSteps
<1> QED BY <1>1, <1>2, PTL DEF SessionSpec

(* The tables, tabs, calls and handlers keep to their types.               *)
LEMMA SessionTypes == SessionSpec => []SessionTypeOK
<1>1. SessionShape => SessionTypeOK
    BY DEF SessionShape
<1> QED BY <1>1, SessionsKeepShape, PTL

-----------------------------------------------------------------------------
(* Who knows which pair.                                                   *)

Seen == {stored} \cup {tab[t].pair : t \in Tab} \cup {job[j].pair : j \in Job}

(* A pair whose answer is on its way is known to nobody else.              *)
Unknown ==
    \A j \in Job : job[j].new # 0 => /\ job[j].new \notin Seen
                                    /\ \A i \in Job : job[i].new = job[j].new => i = j

Presents(j, n) == Doing(j) /\ job[j].pair = n

(* A pair that nobody may present twice: at most one tab holds it, at most *)
(* one job presents it, for that tab and heard by it, and once it is       *)
(* revoked that job is under way for as long as the pair is kept.          *)
Alone(n) ==
    /\ n \notin alarms
    /\ \A i, j \in Job : Presents(i, n) /\ Presents(j, n) => i = j
    /\ \A j \in Job : Presents(j, n) => job[j].heard
    /\ \A t, u \in Tab : tab[t].pair = n /\ tab[u].pair = n => t = u
    /\ \A t \in Tab, j \in Job : tab[t].pair = n /\ Presents(j, n) => Owner(j) = t
    /\ \A t \in Tab : tab[t].pair = n /\ token[n] = "revoked" => Presented(n)
    /\ stored = n /\ token[n] = "revoked" => Presented(n)
    /\ \A j \in Job : job[j].new = n => token[n] # "revoked"
    /\ \A j \in Job : Presents(j, n) /\ job[j].op = "refresh" =>
          job[j].pc # "alarm" /\ (job[j].pc = "find" => token[n] # "revoked")

Excuses == \A n \in Pair \ excused : Alone(n)

(* A live pair is held or on its way to a tab, or it is a stray; and a     *)
(* pair that was handed in is not live when the job is over.               *)
Kept(n) == n \in strays \/ Holders(n) # {} \/ \E j \in Job : job[j].pc = "answer" /\ job[j].new = n

NotLost ==
    /\ \A n \in Pair : token[n] = "live" => Kept(n)
    /\ \A j \in Job : job[j].pair # 0 /\ job[j].pc \in {"create", "answer", "reject"} =>
          token[job[j].pair] # "live" \/ job[j].pair \in strays

Custody == Unknown /\ Excuses /\ NotLost

LEMMA CustodyStarts == SessionInit => Custody
<1> SUFFICES ASSUME SessionInit PROVE Custody
    OBVIOUS
<1>1. /\ \A j \in Job : job[j] = NoJob
      /\ \A t \in Tab : tab[t].pair = 0
      /\ \A n \in Pair : n # 0 /\ token[n] = "none"
      /\ stored = 0 /\ alarms = {}
    BY PairFacts DEF SessionInit, ClosedTab
<1>2. \A j \in Job : ~Doing(j) /\ job[j].pair = 0 /\ job[j].new = 0
    BY <1>1 DEF Doing, NoJob
<1>3. Excuses
    BY <1>1, <1>2 DEF Excuses, Alone, Presents
<1> QED BY <1>1, <1>2, <1>3 DEF Custody, Unknown, NotLost

(* What a step leaves alone, from the point of view of one pair.           *)
SameFor(i, n) ==
    /\ job'[i].new = n => job[i].new = n
    /\ Presents(i, n)' <=> Presents(i, n)
    /\ Presents(i, n) => job'[i] = job[i] /\ Owner(i)' = Owner(i)

LEMMA AloneStays ==
    ASSUME NEW n \in Pair, Alone(n), n \notin alarms',
           token'[n] = "revoked" => token[n] = "revoked",
           \A i \in Job : SameFor(i, n),
           \A t \in Tab : tab'[t].pair = n => tab[t].pair = n,
           stored' = n => stored = n
    PROVE  Alone(n)'
<1>1. \A i \in Job : Presents(i, n)' <=> Presents(i, n)
    BY DEF SameFor
<1>2. Presented(n)' <=> Presented(n)
    BY <1>1 DEF Presents, Presented
<1>3. \A i \in Job : Presents(i, n)' => job'[i] = job[i] /\ Owner(i)' = Owner(i)
    BY <1>1 DEF SameFor
<1>4. \A i \in Job : job'[i].new = n => job[i].new = n
    BY DEF SameFor
<1>5. \A i, j \in Job : Presents(i, n)' /\ Presents(j, n)' => i = j
    BY <1>1 DEF Alone
<1>6. \A j \in Job : Presents(j, n)' => job'[j].heard
    BY <1>1, <1>3 DEF Alone
<1>7. \A t, u \in Tab : tab'[t].pair = n /\ tab'[u].pair = n => t = u
    BY DEF Alone
<1>8. \A t \in Tab, j \in Job : tab'[t].pair = n /\ Presents(j, n)' => Owner(j)' = t
    BY <1>1, <1>3 DEF Alone
<1>9. \A t \in Tab : tab'[t].pair = n /\ token'[n] = "revoked" => Presented(n)'
    BY <1>2 DEF Alone
<1>10. stored' = n /\ token'[n] = "revoked" => Presented(n)'
    BY <1>2 DEF Alone
<1>11. \A j \in Job : job'[j].new = n => token'[n] # "revoked"
    BY <1>4 DEF Alone
<1>12. \A j \in Job : Presents(j, n)' /\ job'[j].op = "refresh" =>
          job'[j].pc # "alarm" /\ (job'[j].pc = "find" => token'[n] # "revoked")
    BY <1>1, <1>3 DEF Alone
<1> QED BY <1>5, <1>6, <1>7, <1>8, <1>9, <1>10, <1>11, <1>12 DEF Alone

(* The job that presents the pair goes on.                                 *)
LEMMA AloneMoves ==
    ASSUME NEW n \in Pair, Alone(n), n \notin alarms', NEW j \in Job, Presents(j, n),
           NEW pc \in Pc \ {"idle", "alarm", "find"}, Went(j, pc), \A i \in Job \ {j} : Alike(i),
           UNCHANGED <<tab, stored, call>>,
           token'[n] = "revoked" => \A i \in Job : job[i].new # n
    PROVE  Alone(n)'
<1>1. \A i \in Job : Presents(i, n)' <=> Presents(i, n)
    BY DEF Presents, Doing, Alike, Went
<1>2. Presented(n)'
    BY <1>1 DEF Presents, Presented
<1>3. \A i \in Job : Owner(i)' = Owner(i) /\ job'[i].new = job[i].new /\ job'[i].heard = job[i].heard
    BY DEF Owner, Alike, Went
<1>4. \A i \in Job : Presents(i, n)' => i = j
    BY <1>1 DEF Alone
<1>5. \A i, k \in Job : Presents(i, n)' /\ Presents(k, n)' => i = k
    BY <1>4
<1>6. \A i \in Job : Presents(i, n)' => job'[i].heard
    BY <1>1, <1>3 DEF Alone
<1>7. \A t, u \in Tab : tab'[t].pair = n /\ tab'[u].pair = n => t = u
    BY DEF Alone
<1>8. \A t \in Tab, i \in Job : tab'[t].pair = n /\ Presents(i, n)' => Owner(i)' = t
    BY <1>1, <1>3 DEF Alone
<1>9. \A i \in Job : job'[i].new = n => token'[n] # "revoked"
    BY <1>3
<1>10. \A i \in Job : Presents(i, n)' /\ job'[i].op = "refresh" =>
          job'[i].pc # "alarm" /\ (job'[i].pc = "find" => token'[n] # "revoked")
    BY <1>4 DEF Went
<1> QED BY <1>2, <1>5, <1>6, <1>7, <1>8, <1>9, <1>10 DEF Alone

LEMMA UnknownStays ==
    ASSUME Unknown, \A i \in Job : job'[i].new \in {0, job[i].new},
           NEW j \in Job, Seen' \subseteq Seen \cup {0, job[j].new},
           job'[j].new = 0 \/ Seen' \subseteq Seen \cup {0}
    PROVE  Unknown'
<1> SUFFICES ASSUME NEW i \in Job, job'[i].new # 0
             PROVE  job'[i].new \notin Seen' /\ \A k \in Job : job'[k].new = job'[i].new => k = i
    BY DEF Unknown
<1>1. job'[i].new = job[i].new
    OBVIOUS
<1>2. job[i].new \notin Seen /\ \A k \in Job : job[k].new = job[i].new => k = i
    BY <1>1 DEF Unknown
<1> QED BY <1>1, <1>2

(* What the server does with one job.                                      *)
ServerMoves(j, pc) ==
    /\ Doing(j) /\ UNCHANGED <<tab, stored, call>>
    /\ \A i \in Job \ {j} : Alike(i)
    /\ \/ Went(j, pc) /\ ~Over(j, pc)
       \/ Gone(j) /\ Over(j, pc)

LEMMA ServerKeeps ==
    ASSUME SessionShape, Custody, NEW j \in Job, NEW pc \in Pc, ServerMoves(j, pc),
           job[j].pc # "answer" \/ job[j].new \in strays' \cup {0},
           excused \subseteq excused', strays \subseteq strays',
           \A n \in Pair : token'[n] = "live" => token[n] = "live",
           \A n \in Pair \ excused' : n # job[j].pair => /\ n \notin alarms'
                                                       /\ (token'[n] = "revoked" => token[n] = "revoked"),
           \A n \in Pair \ excused' : n = job[j].pair => Alone(n)',
           job[j].pair # 0 /\ pc \in {"create", "answer", "reject"} =>
                token'[job[j].pair] # "live" \/ job[j].pair \in strays'
    PROVE  Custody'
<1>1. \A i \in Job : job'[i].new \in {0, job[i].new} /\ job'[i].pair \in {0, job[i].pair}
    BY DEF ServerMoves, Alike, Went, Gone, NoJob
<1>2. Unknown'
    <2>1. Seen' \subseteq Seen \cup {0}
        BY <1>1 DEF Seen, ServerMoves
    <2> QED BY <1>1, <2>1, UnknownStays DEF Custody
<1>3. Excuses'
    <2> SUFFICES ASSUME NEW n \in Pair, n \notin excused', n # job[j].pair PROVE Alone(n)'
        BY DEF Excuses
    <2>1. Alone(n)
        BY DEF Custody, Excuses
    <2>2. \A i \in Job : SameFor(i, n)
        <3> SUFFICES ASSUME NEW i \in Job PROVE SameFor(i, n)
            OBVIOUS
        <3>1. CASE i = j
            <4>1. job'[j].pair # n /\ job[j].pair # n /\ job'[j].new \in {0, job[j].new} /\ n # 0
                BY <1>1, PairFacts
            <4> QED BY <3>1, <4>1 DEF SameFor, Presents
        <3>2. CASE i # j
            <4>1. job'[i] = job[i] /\ Owner(i)' = Owner(i)
                BY <3>2 DEF ServerMoves, Alike, Owner
            <4> QED BY <4>1 DEF SameFor, Presents, Doing
        <3> QED BY <3>1, <3>2
    <2> QED BY <2>1, <2>2, AloneStays DEF ServerMoves
<1>4. \A n \in Pair : token'[n] = "live" => Kept(n)'
    <2> SUFFICES ASSUME NEW n \in Pair, token'[n] = "live" PROVE Kept(n)'
        OBVIOUS
    <2>1. Kept(n) /\ n # 0
        BY PairFacts DEF Custody, NotLost
    <2> QED BY <2>1 DEF Kept, Holders, ServerMoves, Alike
<1>5. ASSUME NEW i \in Job, job'[i].pair # 0, job'[i].pc \in {"create", "answer", "reject"}
      PROVE  token'[job'[i].pair] # "live" \/ job'[i].pair \in strays'
    <2>1. CASE i = j
        BY <1>5, <2>1 DEF ServerMoves, Went, Gone, NoJob
    <2>2. CASE i # j
        <3>1. job'[i] = job[i] /\ job[i].pair \in Pair
            BY <1>5, <2>2, ServerFacts DEF ServerMoves, Alike
        <3> QED BY <1>5, <3>1 DEF Custody, NotLost
    <2> QED BY <2>1, <2>2
<1> QED BY <1>2, <1>3, <1>4, <1>5 DEF Custody, NotLost

LEMMA GotoMoves ==
    ASSUME SessionShape, NEW j \in Job, Doing(j), NEW pc \in Pc, Goto(j, pc), UNCHANGED browserVars
    PROVE  ServerMoves(j, pc)
BY ServerFacts, JobMoves DEF ServerMoves, browserVars

LEMMA FindingUserKeeps == ASSUME SessionShape, Custody, NEW j \in Job, FindUser(j) PROVE Custody'
<1>1. /\ Doing(j) /\ job[j].pair = 0 /\ job[j].pc # "answer"
      /\ UNCHANGED <<browserVars, serverVars, historyVars>>
    BY ServerFacts DEF FindUser, Doing, Legal, Entry
<1>2. PICK pc \in {"reject", "insert", "create"} : Goto(j, pc)
    BY DEF FindUser
<1>3. pc \in Pc
    BY DEF Pc
<1>4. \A n \in Pair \ excused' : n \notin alarms' /\ n # job[j].pair
    BY <1>1, PairFacts DEF Custody, Excuses, Alone, historyVars
<1> QED BY <1>1, <1>2, <1>3, <1>4, GotoMoves, ServerKeeps DEF serverVars, historyVars

LEMMA InsertingUserKeeps == ASSUME SessionShape, Custody, NEW j \in Job, InsertUser(j) PROVE Custody'
<1>1. /\ Doing(j) /\ job[j].pair = 0 /\ job[j].pc # "answer"
      /\ UNCHANGED <<browserVars, token, historyVars>>
    BY ServerFacts DEF InsertUser, At, Doing, Legal, Entry
<1>2. PICK pc \in {"reject", "create"} : Goto(j, pc)
    BY DEF InsertUser
<1>3. pc \in Pc
    BY DEF Pc
<1>4. \A n \in Pair \ excused' : n \notin alarms' /\ n # job[j].pair
    BY <1>1, PairFacts DEF Custody, Excuses, Alone, historyVars
<1> QED BY <1>1, <1>2, <1>3, <1>4, GotoMoves, ServerKeeps DEF historyVars

(* A job that presents a pair of which only it knows is heard, and goes on.*)
LEMMA PresenterMoves ==
    ASSUME SessionShape, NEW n \in Pair, Alone(n), NEW j \in Job, NEW pc \in Pc, ServerMoves(j, pc),
           job[j].pair = n
    PROVE  Presents(j, n) /\ Went(j, pc) /\ \A i \in Job \ {j} : Alike(i)
BY DEF ServerMoves, Presents, Alone, Over

LEMMA FindingTokenKeeps == ASSUME SessionShape, Custody, NEW j \in Job, FindToken(j) PROVE Custody'
<1> DEFINE p == job[j].pair
<1>1. /\ Doing(j) /\ job[j].op = "refresh" /\ job[j].pc = "find" /\ p \in Pair
      /\ UNCHANGED <<browserVars, historyVars>>
    <2>1. p \in Issued
        BY HandedInIsReal DEF FindToken, At
    <2> QED BY <2>1, ServerFacts DEF FindToken, At, Doing
<1>2. PICK pc \in {"alarm", "revoke", "reject"} :
        /\ Goto(j, pc)
        /\ pc = "alarm" => token[p] = "revoked" /\ UNCHANGED token
        /\ pc = "revoke" => UNCHANGED token
        /\ pc = "reject" => token' = [token EXCEPT ![p] = "expired"]
    BY DEF FindToken
<1>3. pc \in Pc /\ ServerMoves(j, pc)
    BY <1>1, <1>2, GotoMoves DEF Pc
<1>4. \A n \in Pair : n # p => token'[n] = token[n]
    BY <1>2, ServerFacts
<1>5. token'[p] = token[p] \/ token'[p] = "expired"
    BY <1>1, <1>2, ServerFacts
<1>6. \A n \in Pair \ excused' : n \notin alarms'
    BY <1>1 DEF Custody, Excuses, Alone, historyVars
<1>7. ASSUME NEW n \in Pair \ excused', n = p PROVE Alone(n)'
    <2>1. Alone(n) /\ n \in Pair /\ job[j].pair = n
        BY <1>1, <1>7 DEF Custody, Excuses, historyVars
    <2>2. Presents(j, n) /\ Went(j, pc) /\ \A i \in Job \ {j} : Alike(i)
        BY <1>3, <2>1, PresenterMoves
    <2>3. token[n] # "revoked"
        BY <1>1, <2>1, <2>2 DEF Alone
    <2>4. token'[n] # "revoked"
        BY <1>5, <1>7, <2>3
    <2>5. pc \in Pc \ {"idle", "alarm", "find"}
        BY <1>2, <1>3, <1>7, <2>3
    <2> QED BY <1>3, <1>6, <2>1, <2>2, <2>4, <2>5, AloneMoves DEF ServerMoves
<1>8. p # 0 /\ pc \in {"create", "answer", "reject"} => token'[p] # "live"
    BY <1>1, <1>2, ServerFacts
<1>9. \A n \in Pair : token'[n] = "live" => token[n] = "live"
    BY <1>4, <1>5
<1> HIDE DEF p
<1>10. p = job[j].pair
    BY DEF p
<1> QED BY <1>1, <1>3, <1>4, <1>6, <1>7, <1>8, <1>9, <1>10, ServerKeeps DEF historyVars

LEMMA RaisingAlarmKeeps == ASSUME SessionShape, Custody, NEW j \in Job, RaiseAlarm(j) PROVE Custody'
<1>1. /\ job[j].op = "refresh" /\ job[j].pc = "alarm" /\ Doing(j)
      /\ job[j].pair \in Issued /\ job[j].pair \in Pair
      /\ Goto(j, "reject") /\ UNCHANGED <<browserVars, strays>>
      /\ alarms' = alarms \cup {job[j].pair} /\ excused' = excused \cup (Issued \ {job[j].pair})
    BY HandedInIsReal, ServerFacts DEF RaiseAlarm, At, Doing
<1>2. "reject" \in Pc /\ ServerMoves(j, "reject")
    BY <1>1, GotoMoves DEF Pc
<1>3. \A n \in Pair : token'[n] = IF n \in Issued THEN "revoked" ELSE "none"
    BY DEF RaiseAlarm
<1>4. \A n \in Pair \ excused' : n # job[j].pair
    BY <1>1 DEF Custody, Excuses, Alone, Presents
<1>5. \A n \in Pair \ excused' : n \notin alarms' /\ token'[n] = "none"
    BY <1>1, <1>3, <1>4 DEF Custody, Excuses, Alone
<1> QED BY <1>1, <1>2, <1>3, <1>4, <1>5, ServerKeeps

LEMMA RevokingTokenKeeps == ASSUME SessionShape, Custody, NEW j \in Job, RevokeToken(j) PROVE Custody'
<1> DEFINE p == job[j].pair
<1>1. /\ Doing(j) /\ job[j].pc = "revoke" /\ p \in Pair
      /\ token' = [token EXCEPT ![p] = "revoked"]
      /\ UNCHANGED <<browserVars, historyVars>>
    <2>1. job[j].pair # 0
        BY ServerFacts DEF RevokeToken, Legal, Entry, SessionShape, SessionTypeOK, JobState
    <2> QED BY <2>1, ServerFacts DEF RevokeToken, Revoked, Doing
<1>2. PICK pc \in {"answer", "create"} : Goto(j, pc)
    BY DEF RevokeToken
<1>3. pc \in Pc /\ ServerMoves(j, pc)
    BY <1>1, <1>2, GotoMoves DEF Pc
<1>4. token'[p] = "revoked" /\ \A n \in Pair : n # p => token'[n] = token[n]
    BY <1>1, ServerFacts
<1>5. \A n \in Pair \ excused' : n \notin alarms'
    BY <1>1 DEF Custody, Excuses, Alone, historyVars
<1>6. ASSUME NEW n \in Pair \ excused', n = p PROVE Alone(n)'
    <2>1. Alone(n) /\ n \in Pair /\ job[j].pair = n /\ n # 0
        BY <1>1, <1>6, PairFacts DEF Custody, Excuses, historyVars
    <2>2. Presents(j, n) /\ Went(j, pc) /\ \A i \in Job \ {j} : Alike(i)
        BY <1>3, <2>1, PresenterMoves
    <2>3. \A i \in Job : job[i].new # n
        BY <2>1 DEF Custody, Unknown, Seen
    <2>4. pc \in Pc \ {"idle", "alarm", "find"}
        BY <1>2, <1>3
    <2> QED BY <1>3, <1>5, <2>1, <2>2, <2>3, <2>4, AloneMoves DEF ServerMoves
<1>7. \A n \in Pair : token'[n] = "live" => token[n] = "live"
    BY <1>4
<1> HIDE DEF p
<1>8. p = job[j].pair
    BY DEF p
<1> QED BY <1>1, <1>3, <1>4, <1>5, <1>6, <1>7, <1>8, ServerKeeps DEF historyVars

LEMMA FailingJobKeeps == ASSUME SessionShape, Custody, NEW j \in Job, JobFails(j) PROVE Custody'
<1> DEFINE p == job[j].pair
<1>1. /\ Doing(j) /\ Goto(j, "reject") /\ UNCHANGED <<browserVars, alarms>>
      /\ excused' = excused \cup ({p} \ {0}) /\ strays' = strays \cup ({p, job[j].new} \ {0})
    BY DEF JobFails, Doing
<1>2. "reject" \in Pc /\ ServerMoves(j, "reject")
    BY <1>1, GotoMoves DEF Pc
<1>3. UNCHANGED token \/ token' = [token EXCEPT ![p] = "revoked"]
    BY DEF JobFails, Revoked
<1>4. \A n \in Pair : token'[n] = token[n] \/ (n = p /\ token'[n] = "revoked")
    BY <1>3, ServerFacts
<1>5. \A n \in Pair \ excused' : n \notin alarms' /\ n # p
    BY <1>1, PairFacts DEF Custody, Excuses, Alone
<1>6. \A n \in Pair : token'[n] = "live" => token[n] = "live"
    BY <1>4
<1> HIDE DEF p
<1>7. p = job[j].pair
    BY DEF p
<1> QED BY <1>1, <1>2, <1>4, <1>5, <1>6, <1>7, ServerKeeps

LEMMA CreatingTokenKeeps == ASSUME SessionShape, Numbered, Custody, NEW j \in Job, CreateToken(j) PROVE Custody'
<1> DEFINE m == Cardinality(Issued) + 1
<1>1. /\ job[j].pc = "create" /\ Doing(j) /\ token' = [token EXCEPT ![m] = "live"]
      /\ job' = [job EXCEPT ![j] = IF @.heard THEN [@ EXCEPT !.pc = "answer", !.new = m] ELSE NoJob]
      /\ strays' = (IF job[j].heard THEN strays ELSE strays \cup {m})
      /\ UNCHANGED <<browserVars, alarms, excused>>
    BY DEF CreateToken, Doing
<1>2. m \in Pair
    BY <1>1, RoomForOneMore
<1>3. m \notin Issued /\ m # 0
    BY SizesAreFinite DEF Numbered
<1> HIDE DEF m
<1>4. /\ \A i \in Job \ {j} : Alike(i)
      /\ \/ job[j].heard /\ Created(j, m)
         \/ ~job[j].heard /\ Gone(j)
    BY <1>1, <1>2, ServerFacts, JobCreates
<1>5. token'[m] = "live" /\ \A n \in Pair : n # m => token'[n] = token[n]
    BY <1>1, <1>2, ServerFacts
<1>6. m \notin Seen /\ m \notin Seen' /\ \A i \in Job : job[i].new # m
    <2>1. Seen \subseteq Real
        BY BrowserFacts DEF Seen
    <2>2. Seen' \subseteq Seen \cup {0}
        BY <1>1, <1>4 DEF Seen, browserVars, Alike, Created, Gone, NoJob
    <2> QED BY <1>3, <2>1, <2>2, BrowserFacts DEF Real
<1>7. Unknown'
    <2>1. \A i \in Job : job'[i].new \in {0, job[i].new} \/ (i = j /\ job'[i].new = m)
        BY <1>4 DEF Alike, Created, Gone, NoJob
    <2>2. Seen' \subseteq Seen \cup {0}
        BY <1>1, <1>4 DEF Seen, browserVars, Alike, Created, Gone, NoJob
    <2> SUFFICES ASSUME NEW i \in Job, job'[i].new # 0
                 PROVE  job'[i].new \notin Seen' /\ \A k \in Job : job'[k].new = job'[i].new => k = i
        BY DEF Unknown
    <2>3. CASE job'[i].new = m
        BY <1>3, <1>6, <2>1, <2>3
    <2>4. CASE job'[i].new # m
        <3>1. job'[i].new = job[i].new
            BY <2>1, <2>4
        <3> QED BY <2>1, <2>2, <2>4, <3>1 DEF Custody, Unknown
    <2> QED BY <2>3, <2>4
<1>8. Excuses'
    <2> SUFFICES ASSUME NEW n \in Pair, n \notin excused' PROVE Alone(n)'
        BY DEF Excuses
    <2>1. Alone(n) /\ n \notin alarms'
        BY <1>1 DEF Custody, Excuses, Alone
    <2>2. token'[n] = "revoked" => token[n] = "revoked" /\ n # m
        BY <1>5
    <2>3. CASE job[j].pair = n
        <3>1. job[j].heard /\ Created(j, m) /\ Presents(j, n) /\ n # m
            BY <1>1, <1>4, <1>6, <2>1, <2>3 DEF Alone, Presents, Seen
        <3>2. \A i \in Job : Presents(i, n)' <=> Presents(i, n)
            BY <1>4, <2>3, <3>1 DEF Presents, Doing, Alike, Created
        <3>3. Presented(n)' /\ \A i \in Job : Presents(i, n)' => i = j
            BY <2>1, <3>1, <3>2 DEF Presents, Presented, Alone
        <3>4. \A i \in Job : Owner(i)' = Owner(i) /\ (job'[i].new = n => job[i].new = n)
            BY <1>1, <1>4, <3>1 DEF Owner, browserVars, Alike, Created
        <3>5. \A t \in Tab, i \in Job : tab'[t].pair = n /\ Presents(i, n)' => Owner(i)' = t
            BY <1>1, <2>1, <3>2, <3>4 DEF Alone, browserVars
        <3>6. /\ \A i, k \in Job : Presents(i, n)' /\ Presents(k, n)' => i = k
              /\ \A i \in Job : Presents(i, n)' => job'[i].heard
              /\ \A i \in Job : job'[i].new = n => token'[n] # "revoked"
              /\ \A i \in Job : Presents(i, n)' /\ job'[i].op = "refresh" =>
                    job'[i].pc # "alarm" /\ (job'[i].pc = "find" => token'[n] # "revoked")
            BY <2>1, <2>2, <3>1, <3>3, <3>4 DEF Alone, Created
        <3>7. \A t, u \in Tab : tab'[t].pair = n /\ tab'[u].pair = n => t = u
            BY <1>1, <2>1 DEF Alone, browserVars
        <3> QED BY <2>1, <3>3, <3>5, <3>6, <3>7 DEF Alone
    <2>4. CASE job[j].pair # n /\ n # m
        <3>1. \A i \in Job : SameFor(i, n)
            <4> SUFFICES ASSUME NEW i \in Job PROVE SameFor(i, n)
                OBVIOUS
            <4>1. CASE i = j
                <5>1. job'[j].pair # n /\ job'[j].new # n
                    BY <1>4, <2>4, PairFacts DEF Created, Gone, NoJob
                <5> QED BY <2>4, <4>1, <5>1 DEF SameFor, Presents
            <4>2. CASE i # j
                <5>1. job'[i] = job[i] /\ Owner(i)' = Owner(i)
                    BY <1>1, <1>4, <4>2 DEF Alike, Owner, browserVars
                <5> QED BY <5>1 DEF SameFor, Presents, Doing
            <4> QED BY <4>1, <4>2
        <3> QED BY <1>1, <2>1, <2>2, <3>1, AloneStays DEF browserVars
    <2>5. CASE n = m
        <3>1. token'[n] # "revoked"
            BY <1>5, <2>5
        <3>2. \A i \in Job : ~Presents(i, n)'
            BY <1>6, <2>5 DEF Presents, Seen
        <3>3. \A t \in Tab : tab'[t].pair # n
            BY <1>6, <2>5 DEF Seen
        <3> QED BY <2>1, <3>1, <3>2, <3>3 DEF Alone
    <2> QED BY <2>3, <2>4, <2>5
<1>9. \A n \in Pair : token'[n] = "live" => Kept(n)'
    <2> SUFFICES ASSUME NEW n \in Pair, token'[n] = "live" PROVE Kept(n)'
        OBVIOUS
    <2>1. CASE n = m
        BY <1>1, <1>4, <2>1 DEF Kept, Created
    <2>2. CASE n # m
        <3>1. Kept(n)
            BY <1>5, <2>2 DEF Custody, NotLost
        <3> QED BY <1>1, <1>4, <3>1 DEF Kept, Holders, browserVars, Alike
    <2> QED BY <2>1, <2>2
<1>10. ASSUME NEW i \in Job, job'[i].pair # 0, job'[i].pc \in {"create", "answer", "reject"}
       PROVE  token'[job'[i].pair] # "live" \/ job'[i].pair \in strays'
    <2>1. job'[i].pair = job[i].pair /\ job[i].pc \in {"create", "answer", "reject"}
        BY <1>1, <1>4, <1>10 DEF Alike, Created, Gone, NoJob
    <2>2. job[i].pair \in Pair /\ job[i].pair # m
        BY <1>6, <1>10, <2>1, ServerFacts DEF Seen
    <2> QED BY <1>1, <1>5, <1>10, <2>1, <2>2 DEF Custody, NotLost
<1> QED BY <1>7, <1>8, <1>9, <1>10 DEF Custody, NotLost

-----------------------------------------------------------------------------
(* What the tabs do with their pairs.                                      *)

(* The step is about requests only, or about a job that has no pair.       *)
LEMMA CallsKeep ==
    ASSUME SessionShape, Custody, UNCHANGED <<token, tab, stored, historyVars>>,
           \A c \in Call : Doing(c) => call'[c].tab = call[c].tab,
           \A i \in Job : Alike(i) \/ (job[i].pair = 0 /\ job[i].pc # "answer" /\ job'[i].pair = 0 /\ job'[i].new = 0)
    PROVE  Custody'
<1>1. \A i \in Job : job'[i].new \in {0, job[i].new} /\ job'[i].pair = job[i].pair
    BY DEF Alike
<1>2. Unknown'
    <2>1. Seen' = Seen
        BY <1>1 DEF Seen
    <2> QED BY <1>1, <2>1 DEF Custody, Unknown
<1>3. Excuses'
    <2> SUFFICES ASSUME NEW n \in Pair, n \notin excused' PROVE Alone(n)'
        BY DEF Excuses
    <2>1. Alone(n) /\ n # 0 /\ n \notin alarms'
        BY PairFacts DEF Custody, Excuses, Alone, historyVars
    <2>2. \A i \in Job : SameFor(i, n)
        <3> SUFFICES ASSUME NEW i \in Job PROVE SameFor(i, n)
            OBVIOUS
        <3>1. CASE Alike(i)
            <4>1. Presents(i, n) => Owner(i)' = Owner(i)
                BY DEF Presents, Owner, Job
            <4> QED BY <3>1, <4>1 DEF Alike, SameFor, Presents, Doing
        <3>2. CASE job[i].pair = 0 /\ job'[i].pair = 0 /\ job'[i].new = 0
            BY <2>1, <3>2 DEF SameFor, Presents
        <3> QED BY <3>1, <3>2
    <2> QED BY <2>1, <2>2, AloneStays
<1>4. \A n \in Pair : token'[n] = "live" => Kept(n)'
    BY DEF Custody, NotLost, Kept, Holders, Alike, historyVars
<1>5. \A i \in Job : job'[i].pair # 0 /\ job'[i].pc \in {"create", "answer", "reject"} =>
          token'[job'[i].pair] # "live" \/ job'[i].pair \in strays'
    BY DEF Custody, NotLost, Alike, historyVars
<1> QED BY <1>2, <1>3, <1>4, <1>5 DEF Custody, NotLost

LEMMA EnteringKeeps == ASSUME SessionShape, Custody, NEW t \in Tab, NEW op \in Entry, Enter(t, op) PROVE Custody'
<1>1. /\ ~Doing(t) /\ Start(t, op, "find", 0) /\ UNCHANGED <<serverVars, browserVars, historyVars>>
    BY DEF Enter
<1>2. t \in Job /\ job[t].pair = 0 /\ job[t].pc # "answer"
    BY <1>1, ConstantFacts, ServerFacts DEF Legal, Doing, NoJob
<1>3. (\A i \in Job \ {t} : Alike(i)) /\ Began(t, op, "find", 0)
    BY <1>1, <1>2, ServerFacts, JobBegins DEF Entry, Op, Pc
<1> QED BY <1>1, <1>2, <1>3, CallsKeep DEF serverVars, browserVars, Began

LEMMA SendingKeeps == ASSUME SessionShape, Custody, NEW t \in Tab, NEW c \in Call, Send(c, t) PROVE Custody'
<1>1. ~Doing(c) /\ UNCHANGED <<serverVars, tab, stored, job, historyVars>>
    BY IdleCall DEF Send
<1>2. \A d \in Call : d # c => call'[d] = call[d]
    BY BrowserFacts DEF Send
<1> QED BY <1>1, <1>2, CallsKeep DEF serverVars, Alike

LEMMA EndingCallKeeps == ASSUME SessionShape, Custody, NEW c \in Call, CallEnds(c) PROVE Custody'
<1>1. ~Doing(c) /\ UNCHANGED <<serverVars, tab, stored, job, historyVars>>
    BY IdleCall DEF CallEnds
<1>2. \A d \in Call : d # c => call'[d] = call[d]
    BY BrowserFacts DEF CallEnds
<1> QED BY <1>1, <1>2, CallsKeep DEF serverVars, Alike

LEMMA JoiningKeeps == ASSUME SessionShape, Custody, NEW c \in Call, JoinRefresh(c) PROVE Custody'
<1>1. UNCHANGED <<serverVars, tab, stored, job, historyVars>>
    BY DEF JoinRefresh
<1>2. \A d \in Call : call'[d].tab = call[d].tab
    BY Waits DEF JoinRefresh, CallWent
<1> QED BY <1>1, <1>2, CallsKeep DEF serverVars, Alike

LEMMA RejectedEntryKeeps ==
    ASSUME SessionShape, Custody, NEW t \in Tab, EnterAnswer(t), job[t].pc = "reject"
    PROVE  Custody'
<1>1. /\ job[t].op \in Entry /\ UNCHANGED <<tab, stored, strays>> /\ job' = [job EXCEPT ![t] = NoJob]
      /\ UNCHANGED <<serverVars, call, alarms, excused>>
    BY DEF EnterAnswer, Entry
<1>2. t \in Job /\ job[t].pair = 0
    BY <1>1, ConstantFacts, ServerFacts DEF Legal, Entry
<1>3. Gone(t) /\ \A i \in Job \ {t} : Alike(i)
    BY <1>1, <1>2, ServerFacts, JobEnds
<1> QED BY <1>1, <1>2, <1>3, CallsKeep DEF serverVars, historyVars, Gone, NoJob

(* A job begins to present the pair that its tab holds.                    *)
LEMMA BeginningKeeps ==
    ASSUME SessionShape, Custody, NEW j \in Job, ~Doing(j), NEW t \in Tab, NEW op \in Op, NEW pc \in {"find", "revoke"},
           Began(j, op, pc, tab[t].pair), \A i \in Job \ {j} : Alike(i), tab[t].pair # 0,
           UNCHANGED <<token, tab, stored, alarms, strays>>, excused \subseteq excused',
           Owner(j)' = t, \A c \in Call : call'[c].tab = call[c].tab \/ c = j,
           tab[t].pair \notin excused' => ~Presented(tab[t].pair)
    PROVE  Custody'
<1>1. PICK p : p = tab[t].pair
    OBVIOUS
<1>2. p \in Pair /\ p \in Seen
    BY <1>1, BrowserFacts DEF Seen
<1>3. job[j].pair = 0 /\ job[j].new = 0 /\ job[j].pc = "idle"
    BY ServerFacts DEF Legal, Doing, NoJob
<1>4. \A i \in Job : i # j => job'[i] = job[i]
    BY DEF Alike
<1>5. /\ job'[j].pc = pc /\ job'[j].pair = p /\ job'[j].new = 0 /\ job'[j].heard
      /\ p \notin excused' => ~Presented(p)
    BY <1>1 DEF Began
<1>6. Unknown'
    <2>1. Seen' \subseteq Seen \cup {0}
        BY <1>2, <1>4, <1>5 DEF Seen
    <2>2. \A i \in Job : job'[i].new \in {0, job[i].new}
        BY <1>4, <1>5
    <2> QED BY <2>1, <2>2, UnknownStays DEF Custody
<1>7. \A i \in Job \ {j} : Owner(i)' = Owner(i)
    BY DEF Owner, Job
<1>8. ASSUME NEW n \in Pair, n \notin excused', n # p PROVE Alone(n)'
    <2>1. Alone(n) /\ n # 0 /\ n \notin alarms'
        BY <1>8, PairFacts DEF Custody, Excuses, Alone
    <2>2. \A i \in Job : SameFor(i, n)
        BY <1>3, <1>4, <1>5, <1>7, <1>8, <2>1 DEF SameFor, Presents, Doing
    <2> QED BY <2>1, <2>2, AloneStays
<1>9. ASSUME p \notin excused' PROVE Alone(p)'
    <2>1. Alone(p) /\ ~Presented(p) /\ p # 0
        BY <1>2, <1>5, <1>9, PairFacts DEF Custody, Excuses
    <2>2. token[p] # "revoked"
        BY <1>1, <2>1 DEF Alone
    <2>3. \A i \in Job : Presents(i, p)' <=> i = j
        BY <1>4, <1>5, <2>1 DEF Presents, Presented, Doing
    <2>4. \A i \in Job : job'[i].new # p
        BY <1>2, <1>4, <1>5, <2>1 DEF Custody, Unknown
    <2>5. \A u \in Tab : tab[u].pair = p => u = t
        BY <1>1, <2>1 DEF Alone
    <2>6. p \notin alarms'
        BY <2>1 DEF Alone
    <2>7. job'[j].pc # "alarm" /\ job'[j].heard /\ token'[p] # "revoked"
        BY <1>5, <2>2
    <2> QED BY <2>3, <2>4, <2>5, <2>6, <2>7 DEF Alone
<1>10. Excuses'
    BY <1>8, <1>9 DEF Excuses
<1>11. \A n \in Pair : token'[n] = "live" => Kept(n)'
    BY <1>3, <1>4 DEF Custody, NotLost, Kept, Holders
<1>12. \A i \in Job : job'[i].pair # 0 /\ job'[i].pc \in {"create", "answer", "reject"} =>
          token'[job'[i].pair] # "live" \/ job'[i].pair \in strays'
    BY <1>4, <1>5 DEF Custody, NotLost
<1> QED BY <1>6, <1>10, <1>11, <1>12 DEF Custody, NotLost

LEMMA LoggingOutKeeps == ASSUME SessionShape, Custody, NEW t \in Tab, Logout(t) PROVE Custody'
<1>1. /\ ~Doing(t) /\ tab[t].pair # 0 /\ Start(t, "logout", "revoke", tab[t].pair)
      /\ excused' = (IF Presented(tab[t].pair) THEN excused \cup {tab[t].pair} ELSE excused)
      /\ UNCHANGED <<serverVars, browserVars, alarms, strays>>
    BY DEF Logout
<1>2. t \in Job /\ Owner(t)' = t /\ tab[t].pair \in Pair \cup {0}
    BY ConstantFacts, BrowserFacts DEF Owner
<1>3. (\A i \in Job \ {t} : Alike(i)) /\ Began(t, "logout", "revoke", tab[t].pair)
    BY <1>1, <1>2, ServerFacts, JobBegins DEF Op, Pc
<1>4. "logout" \in Op
    BY DEF Op
<1> QED BY <1>1, <1>2, <1>3, <1>4, BeginningKeeps DEF serverVars, browserVars

LEMMA StartingRefreshKeeps == ASSUME SessionShape, Custody, NEW c \in Call, StartRefresh(c) PROVE Custody'
<1> DEFINE t == call[c].tab
<1>1. /\ call[c].pc = "sent" /\ ~Refreshing(t) /\ tab[t].pair # 0 /\ Wait(c)
      /\ Start(c, "refresh", "find", tab[t].pair)
      /\ excused' = (IF \E u \in Tab : Doing(u) /\ job[u].pair = tab[t].pair THEN excused \cup {tab[t].pair} ELSE excused)
      /\ UNCHANGED <<serverVars, tab, stored, alarms, strays>>
    BY DEF StartRefresh, Unauthorized, MayRefresh
<1>2. c \in Job /\ c \notin Tab /\ t \in Tab /\ tab[t].pair \in Pair \cup {0} /\ ~Doing(c)
    BY <1>1, ConstantFacts, BrowserFacts, IdleCall
<1>3. (\A i \in Job \ {c} : Alike(i)) /\ Began(c, "refresh", "find", tab[t].pair)
    BY <1>1, <1>2, ServerFacts, JobBegins DEF Op, Pc
<1>4. Owner(c)' = t /\ \A d \in Call : call'[d].tab = call[d].tab
    BY <1>1, <1>2, Waits DEF Owner, CallWent
<1>5. ASSUME tab[t].pair \notin excused' PROVE ~Presented(tab[t].pair)
    <2>1. Alone(tab[t].pair)
        BY <1>1, <1>2, <1>5 DEF Custody, Excuses
    <2>2. ASSUME NEW j \in Job, Presents(j, tab[t].pair) PROVE FALSE
        <3>1. j \in Call
            BY <1>1, <1>5, <2>2 DEF Presents, Job
        <3>2. Owner(j) = t /\ job[j].heard
            BY <1>2, <2>1, <2>2 DEF Alone
        <3>3. call[j].tab = t
            BY <3>1, <3>2, ConstantFacts DEF Owner
        <3> QED BY <1>1, <2>2, <3>1, <3>2, <3>3 DEF Refreshing, Presents
    <2> QED BY <2>2 DEF Presented, Presents
<1>6. "refresh" \in Op
    BY DEF Op
<1> HIDE DEF t
<1> QED BY <1>1, <1>2, <1>3, <1>4, <1>5, <1>6, BeginningKeeps DEF serverVars

LEMMA OpeningTabKeeps == ASSUME SessionShape, Custody, NEW t \in Tab, OpenTab(t) PROVE Custody'
<1>1. /\ ~tab[t].open /\ tab' = [tab EXCEPT ![t] = [open |-> TRUE, pair |-> stored]]
      /\ excused' = (IF Holders(stored) # {} \/ Presented(stored) THEN excused \cup ({stored} \ {0}) ELSE excused)
      /\ UNCHANGED <<serverVars, stored, call, job, alarms, strays>>
    BY DEF OpenTab
<1>2. tab'[t].pair = stored /\ \A u \in Tab \ {t} : tab'[u] = tab[u]
    BY <1>1, BrowserFacts
<1>3. tab[t].pair = 0
    BY <1>1 DEF SessionShape, CallControl
<1>4. Unknown'
    <2>1. Seen' \subseteq Seen
        BY <1>1, <1>2 DEF Seen
    <2> QED BY <1>1, <2>1 DEF Custody, Unknown
<1>5. Excuses'
    <2> SUFFICES ASSUME NEW n \in Pair, n \notin excused' PROVE Alone(n)'
        BY DEF Excuses
    <2>1. Alone(n) /\ n # 0
        BY <1>1, PairFacts DEF Custody, Excuses
    <2>2. \A i \in Job : (Presents(i, n)' <=> Presents(i, n)) /\ Owner(i)' = Owner(i)
        BY <1>1 DEF Presents, Doing, Owner
    <2>3. CASE stored # n
        <3>1. \A i \in Job : SameFor(i, n)
            BY <1>1, <2>2 DEF SameFor
        <3>2. \A u \in Tab : tab'[u].pair = n => tab[u].pair = n
            BY <1>2, <2>3
        <3> QED BY <1>1, <2>1, <3>1, <3>2, AloneStays DEF serverVars, Alone
    <2>4. CASE stored = n
        <3>1. Holders(n) = {} /\ ~Presented(n)
            BY <1>1, <2>1, <2>4
        <3>2. \A i \in Job : ~Presents(i, n)'
            BY <2>2, <3>1 DEF Presented, Presents
        <3>3. \A u \in Tab : tab'[u].pair = n => u = t
            BY <1>2, <3>1 DEF Holders
        <3>4. token'[n] # "revoked" /\ n \notin alarms'
            BY <1>1, <2>1, <2>4, <3>1 DEF Alone, serverVars
        <3> QED BY <3>2, <3>3, <3>4 DEF Alone
    <2> QED BY <2>3, <2>4
<1>6. \A n \in Pair : token'[n] = "live" => Kept(n)'
    <2> SUFFICES ASSUME NEW n \in Pair, token'[n] = "live" PROVE Kept(n)'
        OBVIOUS
    <2>1. Kept(n) /\ n # 0
        BY <1>1, PairFacts DEF Custody, NotLost, serverVars
    <2> QED BY <1>1, <1>2, <1>3, <2>1 DEF Kept, Holders
<1>7. \A i \in Job : job'[i].pair # 0 /\ job'[i].pc \in {"create", "answer", "reject"} =>
          token'[job'[i].pair] # "live" \/ job'[i].pair \in strays'
    BY <1>1 DEF Custody, NotLost, serverVars
<1> QED BY <1>4, <1>5, <1>6, <1>7 DEF Custody, NotLost

(* A tab goes away, or to the login page.                                  *)
LEMMA LeavingKeeps ==
    ASSUME SessionShape, Custody, NEW t \in Tab,
           \A i \in Job : Silenced(t, i) \/ (Gone(i) /\ i \in Mine(t)), call' = CallsLost(t),
           tab'[t].pair = 0, \A u \in Tab \ {t} : tab'[u] = tab[u], stored' \in {0, stored},
           UNCHANGED <<token, alarms>>, excused' = excused \cup PairsOf(t),
           strays \subseteq strays', NewPairsOf(t) \subseteq strays',
           tab[t].pair # 0 => tab[t].pair \in strays' \/ token[tab[t].pair] # "live"
    PROVE  Custody'
<1>1. ASSUME NEW i \in Job
      PROVE  /\ i \notin Mine(t) => job'[i] = job[i]
             /\ i \in Mine(t) => job'[i].pair \in {0, job[i].pair} /\ job'[i].new \in {0, job[i].new}
             /\ i \in Mine(t) => job'[i].pc \notin {"answer", "reject"}
             /\ i \in Mine(t) => job'[i].pc \in {"idle", job[i].pc}
    BY DEF Silenced, Alike, Gone, Deaf, NoJob
<1>2. ASSUME NEW i \in Job, Doing(i), job[i].heard, i \notin Mine(t)
      PROVE  Owner(i)' = Owner(i)
    <2>1. CASE i \in Tab
        BY <2>1 DEF Owner
    <2>2. CASE i \in Call
        <3>1. i \notin Tab /\ call[i].tab # t
            BY <1>2, <2>2, ConstantFacts DEF Mine, Owner
        <3>2. call'[i] = call[i]
            BY <2>2, <3>1, LostCalls, BrowserFacts
        <3> QED BY <3>1, <3>2 DEF Owner
    <2> QED BY <2>1, <2>2 DEF Job
<1>3. Unknown'
    <2>1. Seen' \subseteq Seen \cup {0}
        BY <1>1 DEF Seen
    <2>2. \A i \in Job : job'[i].new \in {0, job[i].new}
        BY <1>1
    <2>3. t \in Job
        BY ConstantFacts
    <2> QED BY <2>1, <2>2, <2>3, UnknownStays DEF Custody
<1>4. Excuses'
    <2> SUFFICES ASSUME NEW n \in Pair, n \notin excused' PROVE Alone(n)'
        BY DEF Excuses
    <2>1. Alone(n) /\ n # 0 /\ n \notin PairsOf(t)
        BY PairFacts DEF Custody, Excuses
    <2>2. \A i \in Job : Presents(i, n) => i \notin Mine(t)
        BY <2>1 DEF PairsOf, Presents
    <2>3. \A i \in Job : SameFor(i, n)
        <3> SUFFICES ASSUME NEW i \in Job PROVE SameFor(i, n)
            OBVIOUS
        <3>1. CASE i \in Mine(t)
            <4>1. job[i].pair # n
                BY <2>2, <3>1 DEF Presents, Mine
            <4>2. job'[i].pair # n /\ (job'[i].new = n => job[i].new = n)
                BY <1>1, <2>1, <3>1, <4>1
            <4> QED BY <4>1, <4>2 DEF SameFor, Presents
        <3>2. CASE i \notin Mine(t)
            <4>1. job'[i] = job[i]
                BY <1>1, <3>2
            <4>2. Presents(i, n) => Owner(i)' = Owner(i)
                BY <1>2, <2>1, <3>2 DEF Presents, Alone
            <4> QED BY <4>1, <4>2 DEF SameFor, Presents, Doing
        <3> QED BY <3>1, <3>2
    <2>4. (\A u \in Tab : tab'[u].pair = n => tab[u].pair = n) /\ (stored' = n => stored = n)
        BY <2>1
    <2>5. n \notin alarms'
        BY <2>1 DEF Alone
    <2> QED BY <2>1, <2>3, <2>4, <2>5, AloneStays
<1>5. \A n \in Pair : token'[n] = "live" => Kept(n)'
    <2> SUFFICES ASSUME NEW n \in Pair, token'[n] = "live", n \notin strays' PROVE Kept(n)'
        BY DEF Kept
    <2>1. Kept(n) /\ n # 0
        BY PairFacts DEF Custody, NotLost
    <2>2. CASE Holders(n) # {}
        <3>1. PICK u \in Tab : tab[u].pair = n
            BY <2>2 DEF Holders
        <3>2. u # t
            BY <2>1, <3>1
        <3> QED BY <3>1, <3>2 DEF Kept, Holders
    <2>3. ASSUME NEW i \in Job, job[i].pc = "answer", job[i].new = n PROVE Kept(n)'
        <3>1. i \notin Mine(t)
            BY <2>1, <2>3 DEF NewPairsOf
        <3> QED BY <1>1, <2>3, <3>1 DEF Kept
    <2> QED BY <2>1, <2>2, <2>3 DEF Kept
<1>6. \A i \in Job : job'[i].pair # 0 /\ job'[i].pc \in {"create", "answer", "reject"} =>
          token'[job'[i].pair] # "live" \/ job'[i].pair \in strays'
    <2> SUFFICES ASSUME NEW i \in Job, job'[i].pair # 0, job'[i].pc \in {"create", "answer", "reject"}
                 PROVE  token[job'[i].pair] # "live" \/ job'[i].pair \in strays'
        OBVIOUS
    <2>1. job'[i].pair = job[i].pair /\ job[i].pc \in {"create", "answer", "reject"}
        BY <1>1
    <2> QED BY <2>1 DEF Custody, NotLost
<1> QED BY <1>3, <1>4, <1>5, <1>6 DEF Custody, NotLost

LEMMA ClosingTabKeeps == ASSUME SessionShape, Custody, NEW t \in Tab, CloseTab(t) PROVE Custody'
<1>1. /\ tab' = [tab EXCEPT ![t] = ClosedTab] /\ call' = CallsLost(t) /\ job' = Unheard(t)
      /\ strays' = strays \cup ({tab[t].pair} \ {0}) \cup NewPairsOf(t)
      /\ excused' = excused \cup PairsOf(t)
      /\ UNCHANGED <<serverVars, stored, alarms>>
    BY DEF CloseTab
<1>2. tab'[t].pair = 0 /\ \A u \in Tab \ {t} : tab'[u] = tab[u]
    BY <1>1, BrowserFacts DEF ClosedTab
<1>3. \A i \in Job : Silenced(t, i)
    BY <1>1, JobsSilenced, ServerFacts
<1> QED BY <1>1, <1>2, <1>3, LeavingKeeps DEF serverVars

LEMMA NothingToRefreshKeeps == ASSUME SessionShape, Custody, NEW c \in Call, NothingToRefresh(c) PROVE Custody'
<1> DEFINE t == call[c].tab
<1>1. /\ tab' = [tab EXCEPT ![t].pair = 0] /\ stored' = 0 /\ call' = CallsLost(t) /\ job' = Unheard(t)
      /\ strays' = Forget(t, 0) \cup NewPairsOf(t)
      /\ excused' = excused \cup PairsOf(t) /\ tab[t].pair = 0
      /\ UNCHANGED <<serverVars, alarms>>
    BY DEF NothingToRefresh, Reload
<1>2. t \in Tab /\ 0 \in Real
    BY BrowserFacts DEF Real
<1> HIDE DEF t
<1>3. TabTakes(t, 0)
    BY <1>1, <1>2, TakesPair
<1>4. \A i \in Job : Silenced(t, i)
    BY <1>1, <1>2, JobsSilenced, ServerFacts
<1> QED BY <1>1, <1>2, <1>3, <1>4, LeavingKeeps DEF serverVars, TabTakes, Forget

LEMMA RejectedRefreshKeeps == ASSUME SessionShape, Custody, NEW c \in Call, RefreshRejected(c) PROVE Custody'
<1>1. /\ job[c].pc = "reject" /\ job[c].op = "refresh" /\ stored' = 0 /\ call' = CallsLost(Owner(c))
      /\ strays' = Forget(Owner(c), job[c].pair) \cup NewPairsOf(Owner(c))
      /\ excused' = excused \cup PairsOf(Owner(c))
      /\ UNCHANGED <<serverVars, alarms>>
    BY DEF RefreshRejected, Reload, At
<1>2. /\ Gone(c) /\ \A i \in Job \ {c} : Silenced(Owner(c), i)
      /\ Owner(c) \in Tab /\ TabTakes(Owner(c), 0)
    BY RejectedRefresh
<1>3. c \in Job /\ c \in Mine(Owner(c))
    BY <1>1, ConstantFacts, AnswersAreHeard DEF Mine
<1>4. tab[Owner(c)].pair # 0 => tab[Owner(c)].pair \in strays' \/ token[tab[Owner(c)].pair] # "live"
    <2>1. job[c].pair # 0
        BY <1>1, <1>3, ServerFacts DEF Legal
    <2>2. token[job[c].pair] # "live" \/ job[c].pair \in strays
        BY <1>1, <1>3, <2>1 DEF Custody, NotLost
    <2> QED BY <1>1, <2>2 DEF Forget
<1> QED BY <1>1, <1>2, <1>3, <1>4, LeavingKeeps DEF serverVars, TabTakes, Forget

(* A tab takes the pair of an answer, or forgets its pair.                 *)
LEMMA TakingKeeps ==
    ASSUME SessionShape, Custody, NEW j \in Job, job[j].pc \in {"answer", "reject"},
           NEW n \in {0, job[j].new}, job[j].pc = "answer" => n = job[j].new,
           TabTakes(Owner(j), n), stored' = n, strays' = Forget(Owner(j), job[j].pair),
           Gone(j), \A i \in Job \ {j} : Alike(i),
           UNCHANGED <<token, alarms, excused>>, \A c \in Call : call'[c].tab = call[c].tab
    PROVE  Custody'
<1>1. PICK t \in Tab : t = Owner(j) /\ Doing(j) /\ job[j].heard
    BY AnswersAreHeard
<1>2. /\ tab'[t].pair = n /\ \A u \in Tab \ {t} : tab'[u] = tab[u]
      /\ strays' = strays \cup ({tab[t].pair} \ {0, job[j].pair})
    BY <1>1 DEF TabTakes, Forget
<1>3. /\ job'[j].pair = 0 /\ job'[j].new = 0 /\ job'[j].pc = "idle"
      /\ \A i \in Job : i # j => job'[i] = job[i]
      /\ \A i \in Job : Owner(i)' = Owner(i)
    BY DEF Gone, NoJob, Alike, Owner, Job
<1>4. Unknown'
    <2>1. Seen' \subseteq Seen \cup {0, job[j].new}
        BY <1>2, <1>3 DEF Seen
    <2>2. \A i \in Job : job'[i].new \in {0, job[i].new}
        BY <1>3
    <2> QED BY <1>3, <2>1, <2>2, UnknownStays DEF Custody
<1>5. ASSUME NEW m \in Pair, m \notin excused' PROVE Alone(m)'
    <2>1. Alone(m) /\ m # 0 /\ m \notin alarms'
        BY <1>5, PairFacts DEF Custody, Excuses, Alone
    <2>2. \A i \in Job : Presents(i, m)' <=> (Presents(i, m) /\ i # j)
        BY <1>3, <2>1 DEF Presents, Doing
    <2>3. CASE m = n
        <3>1. m = job[j].new /\ m \notin Seen
            BY <2>1, <2>3 DEF Custody, Unknown
        <3>2. \A i \in Job : ~Presents(i, m)'
            BY <2>2, <3>1 DEF Presents, Seen
        <3>3. \A u \in Tab : tab'[u].pair = m => u = t
            BY <1>2, <3>1 DEF Seen
        <3>4. token'[m] # "revoked"
            BY <2>1, <3>1 DEF Alone
        <3> QED BY <2>1, <3>2, <3>3, <3>4 DEF Alone
    <2>4. CASE m # n /\ m # job[j].pair
        <3>1. \A i \in Job : SameFor(i, m)
            BY <1>3, <2>1, <2>4 DEF SameFor, Presents, Doing
        <3>2. (\A u \in Tab : tab'[u].pair = m => tab[u].pair = m) /\ (stored' = m => stored = m)
            BY <1>2, <2>4
        <3> QED BY <2>1, <3>1, <3>2, AloneStays
    <2>5. CASE m # n /\ m = job[j].pair
        <3>1. \A i \in Job : ~Presents(i, m)'
            BY <1>1, <2>1, <2>2, <2>5 DEF Presents, Alone
        <3>2. \A u \in Tab : tab'[u].pair # m
            BY <1>1, <1>2, <2>1, <2>5 DEF Presents, Alone
        <3>3. \A i \in Job : job'[i].new = m => token'[m] # "revoked"
            BY <1>3, <2>1 DEF Alone
        <3> QED BY <2>1, <2>5, <3>1, <3>2, <3>3 DEF Alone
    <2> QED BY <2>3, <2>4, <2>5
<1>6. ASSUME NEW m \in Pair, token'[m] = "live" PROVE Kept(m)'
    <2>1. Kept(m) /\ m # 0
        BY <1>6, PairFacts DEF Custody, NotLost
    <2>2. CASE m \in strays'
        BY <2>2 DEF Kept
    <2>3. ASSUME NEW u \in Tab, tab[u].pair = m, m \notin strays' PROVE Kept(m)'
        <3>1. CASE u = t
            <4>1. m = job[j].pair
                BY <1>2, <2>1, <2>3, <3>1
            <4> QED BY <1>2, <1>6, <2>1, <2>3, <4>1 DEF Custody, NotLost
        <3>2. CASE u # t
            BY <1>2, <2>3, <3>2 DEF Kept, Holders
        <3> QED BY <3>1, <3>2
    <2>4. ASSUME NEW i \in Job, job[i].pc = "answer", job[i].new = m PROVE Kept(m)'
        <3>1. CASE i = j
            BY <1>2, <2>4, <3>1 DEF Kept, Holders
        <3>2. CASE i # j
            BY <1>3, <2>4, <3>2 DEF Kept
        <3> QED BY <3>1, <3>2
    <2>5. CASE m \in strays
        BY <1>2, <2>5 DEF Kept
    <2> QED BY <2>1, <2>2, <2>3, <2>4, <2>5 DEF Kept, Holders
<1>7. \A i \in Job : job'[i].pair # 0 /\ job'[i].pc \in {"create", "answer", "reject"} =>
          token'[job'[i].pair] # "live" \/ job'[i].pair \in strays'
    BY <1>2, <1>3 DEF Custody, NotLost
<1> QED BY <1>4, <1>5, <1>6, <1>7 DEF Custody, NotLost, Excuses

LEMMA AnsweredEntryKeeps ==
    ASSUME SessionShape, Custody, NEW t \in Tab, EnterAnswer(t)
    PROVE  Custody'
<1>1. CASE job[t].pc = "reject"
    BY <1>1, RejectedEntryKeeps
<1>2. CASE job[t].pc # "reject"
    <2>1. /\ job[t].pc = "answer" /\ tab' = [tab EXCEPT ![Owner(t)].pair = job[t].new] /\ stored' = job[t].new
          /\ strays' = Forget(Owner(t), job[t].pair) /\ job' = [job EXCEPT ![t] = NoJob]
          /\ UNCHANGED <<serverVars, call, alarms, excused>>
        BY <1>2 DEF EnterAnswer, Take
    <2>2. t \in Job /\ Owner(t) \in Tab /\ job[t].new \in Real
        BY ConstantFacts, BrowserFacts DEF Owner
    <2>3. TabTakes(Owner(t), job[t].new)
        BY <2>1, <2>2, TakesPair
    <2>4. Gone(t) /\ \A i \in Job \ {t} : Alike(i)
        BY <2>1, <2>2, ServerFacts, JobEnds
    <2> QED BY <2>1, <2>2, <2>3, <2>4, TakingKeeps DEF serverVars
<1> QED BY <1>1, <1>2

LEMMA AnsweredLogoutKeeps == ASSUME SessionShape, Custody, NEW t \in Tab, LogoutAnswer(t) PROVE Custody'
<1>1. /\ job[t].op = "logout" /\ job[t].pc \in {"answer", "reject"}
      /\ tab' = [tab EXCEPT ![t].pair = 0] /\ stored' = 0
      /\ strays' = Forget(t, job[t].pair) /\ job' = [job EXCEPT ![t] = NoJob]
      /\ UNCHANGED <<serverVars, call, alarms, excused>>
    BY DEF LogoutAnswer
<1>2. t \in Job /\ Owner(t) = t /\ 0 \in Real /\ job[t].new = 0
    BY <1>1, ConstantFacts, ServerFacts DEF Owner, Real, Legal
<1>3. TabTakes(t, 0)
    BY <1>1, <1>2, TakesPair
<1>4. Gone(t) /\ \A i \in Job \ {t} : Alike(i)
    BY <1>1, <1>2, ServerFacts, JobEnds
<1> QED BY <1>1, <1>2, <1>3, <1>4, TakingKeeps DEF serverVars

LEMMA AnsweredRefreshKeeps == ASSUME SessionShape, Custody, NEW c \in Call, RefreshAnswer(c) PROVE Custody'
<1>1. /\ job[c].pc = "answer" /\ stored' = job[c].new
      /\ strays' = Forget(Owner(c), job[c].pair) /\ job' = [job EXCEPT ![c] = NoJob]
      /\ call' = Again(c) /\ UNCHANGED <<serverVars, alarms, excused>>
    BY DEF RefreshAnswer, At, Take
<1>2. c \in Job /\ TabTakes(Owner(c), job[c].new)
    BY ConstantFacts, AnsweredRefresh
<1>3. Gone(c) /\ \A i \in Job \ {c} : Alike(i)
    BY <1>1, <1>2, ServerFacts, JobEnds
<1>4. \A d \in Call : call'[d].tab = call[d].tab
    BY <1>1, CallsGoOn
<1> QED BY <1>1, <1>2, <1>3, <1>4, TakingKeeps DEF serverVars

LEMMA NothingHappensKeeps == ASSUME SessionShape, Custody, UNCHANGED sessionVars PROVE Custody'
BY CallsKeep DEF sessionVars, serverVars, browserVars, Alike

LEMMA CustodySteps ==
    ASSUME SessionShape, Numbered, Custody, [SessionNext]_sessionVars
    PROVE  Custody'
<1>1. ASSUME NEW t \in Tab,
             OpenTab(t) \/ CloseTab(t) \/ Logout(t) \/ Enter(t, "register") \/ Enter(t, "login")
             \/ \E c \in Call : Send(c, t)
      PROVE  Custody'
    BY <1>1, OpeningTabKeeps, ClosingTabKeeps, LoggingOutKeeps, EnteringKeeps, SendingKeeps DEF Entry
<1>2. ASSUME NEW j \in Job,
             \/ FindUser(j) \/ InsertUser(j) \/ FindToken(j) \/ RaiseAlarm(j) \/ RevokeToken(j) \/ CreateToken(j)
             \/ JobFails(j)
      PROVE  Custody'
    BY <1>2, FindingUserKeeps, InsertingUserKeeps, FindingTokenKeeps, RaisingAlarmKeeps, RevokingTokenKeeps,
       CreatingTokenKeeps, FailingJobKeeps
<1>3. ASSUME NEW t \in Tab, EnterAnswer(t) \/ LogoutAnswer(t)
      PROVE  Custody'
    BY <1>3, AnsweredEntryKeeps, AnsweredLogoutKeeps
<1>4. ASSUME NEW c \in Call,
             \/ CallEnds(c) \/ JoinRefresh(c) \/ StartRefresh(c) \/ NothingToRefresh(c)
             \/ RefreshAnswer(c) \/ RefreshRejected(c)
      PROVE  Custody'
    BY <1>4, EndingCallKeeps, JoiningKeeps, StartingRefreshKeeps, NothingToRefreshKeeps, AnsweredRefreshKeeps,
       RejectedRefreshKeeps
<1>5. CASE UNCHANGED sessionVars
    BY <1>5, NothingHappensKeeps
<1> QED BY <1>1, <1>2, <1>3, <1>4, <1>5 DEF SessionNext, Serve

LEMMA CustodyAlways == SessionSpec => [](SessionShape /\ Custody)
<1>1. SessionInit => SessionShape /\ Numbered /\ Custody
    BY SessionStarts, CustodyStarts
<1>2. SessionShape /\ Numbered /\ Custody /\ [SessionNext]_sessionVars => SessionShape' /\ Numbered' /\ Custody'
    BY ShapeSteps, CustodySteps
<1> QED BY <1>1, <1>2, PTL DEF SessionSpec

(* The reuse alarm of users.service.ts never rings for a token that one    *)
(* tab alone handed in and heard the end of: rotation, the one refresh     *)
(* that the requests of a tab share, and logout do not set it off.         *)
THEOREM NoFalseAlarm == SessionSpec => []AlarmsHaveACause
<1>1. SessionShape /\ Custody => AlarmsHaveACause
    BY ServerFacts DEF Custody, Excuses, Alone, AlarmsHaveACause
<1> QED BY <1>1, CustodyAlways, PTL

(* Rotation and logout leave no good token behind that nobody holds.       *)
THEOREM NoForgottenToken == SessionSpec => []LiveTokensAreHeld
<1>1. Custody => LiveTokensAreHeld
    BY DEF Custody, NotLost, Kept, LiveTokensAreHeld
<1> QED BY <1>1, CustodyAlways, PTL
=============================================================================
