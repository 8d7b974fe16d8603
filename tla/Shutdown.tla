------------------------------ MODULE Shutdown ------------------------------
(***************************************************************************)
(* The life of one server process (main.ts): it starts to work, and every  *)
(* signal and every error that nobody caught runs the whole of shutdown,   *)
(* so that two runs of it may overlap, also while the server still starts. *)
(***************************************************************************)

CONSTANTS
    Alarm,              \* signals and uncaught errors
    Task                \* requests and jobs the process can work on at a time

VARIABLES
    server,             \* the HTTP server
    listenReturned,     \* has app.listen returned?
    taking,             \* do the workers take jobs?
    task,               \* what is being worked on
    shutdown,           \* how far each run of shutdown has come
    open,               \* what is not closed yet
    exit                \* the exit code, when there is one

processVars == <<server, listenReturned, taking, task, shutdown, open, exit>>

-----------------------------------------------------------------------------
Resource == {"workers", "queues", "database", "redis"}
Step == {"none", "server"} \cup Resource

ShutdownTypeOK ==
    /\ server \in {"starting", "listening", "closing", "closed"}
    /\ listenReturned \in BOOLEAN /\ taking \in BOOLEAN
    /\ task \in [Task -> {"none", "request", "abandoned", "job"}]
    /\ shutdown \in [Alarm -> Step]
    /\ open \subseteq Resource
    /\ exit \in {"none", "clean", "failed"}

(* buildApp is done and the workers have been started.                     *)
ShutdownInit ==
    /\ server = "starting"
    /\ listenReturned = FALSE
    /\ taking = TRUE
    /\ task = [t \in Task |-> "none"]
    /\ shutdown = [a \in Alarm |-> "none"]
    /\ open = Resource
    /\ exit = "none"

Running == exit = "none"
Working(kind) == \E t \in Task : task[t] = kind

-----------------------------------------------------------------------------
Listen ==
    /\ Running /\ ~listenReturned /\ server = "starting"
    /\ server' = "listening"
    /\ listenReturned' = TRUE
    /\ UNCHANGED <<taking, task, shutdown, open, exit>>

(* The port is taken, or the server was closed before it listened: the     *)
(* process exits at once, whatever shutdown is doing.                      *)
ListenFails ==
    /\ Running /\ ~listenReturned
    /\ listenReturned' = TRUE
    /\ exit' = "failed"
    /\ UNCHANGED <<server, taking, task, shutdown, open>>

Work(t, kind) == task' = [task EXCEPT ![t] = kind]

AcceptRequest(t) ==
    /\ Running /\ server = "listening" /\ task[t] = "none"
    /\ Work(t, "request")
    /\ UNCHANGED <<server, listenReturned, taking, shutdown, open, exit>>

TakeJob(t) ==
    /\ Running /\ taking /\ task[t] = "none"
    /\ Work(t, "job")
    /\ UNCHANGED <<server, listenReturned, taking, shutdown, open, exit>>

(* The client of a request disconnects: the handler goes on, but nothing   *)
(* waits for it any more.                                                  *)
ClientLeaves(t) ==
    /\ Running /\ task[t] = "request"
    /\ Work(t, "abandoned")
    /\ UNCHANGED <<server, listenReturned, taking, shutdown, open, exit>>

EndTask(t) ==
    /\ Running /\ task[t] # "none"
    /\ Work(t, "none")
    /\ UNCHANGED <<server, listenReturned, taking, shutdown, open, exit>>

-----------------------------------------------------------------------------
(* shutdown.                                                               *)
Reached(a, step) == Running /\ shutdown[a] = step
Proceed(a, step) == shutdown' = [shutdown EXCEPT ![a] = step]

(* app.close: no request is accepted any more.                             *)
BeginShutdown(a) ==
    /\ Reached(a, "none")
    /\ Proceed(a, "server")
    /\ server' = IF server = "closed" THEN "closed" ELSE "closing"
    /\ UNCHANGED <<listenReturned, taking, task, open, exit>>

(* It returns when the connections are gone: those that were accepted and  *)
(* still have a client have been answered.  Then shutdownQueues: the       *)
(* workers take no job any more.                                           *)
ServerClosed(a) ==
    /\ Reached(a, "server")
    /\ ~Working("request")
    /\ server' = "closed"
    /\ taking' = FALSE
    /\ Proceed(a, "workers")
    /\ UNCHANGED <<listenReturned, task, open, exit>>

Closed(a, resource, next) ==
    /\ Reached(a, resource)
    /\ open' = open \ {resource}
    /\ Proceed(a, next)
    /\ UNCHANGED <<server, listenReturned, taking, task, exit>>

(* Variant: the workers are told to close, and not waited for. *)
WorkersTold(a) == Closed(a, "workers", "queues")

(* Their jobs are waited for.                                              *)
WorkersClosed(a) == ~Working("job") /\ Closed(a, "workers", "queues")

QueuesClosed(a) == Closed(a, "queues", "database")

DatabaseClosed(a) == Closed(a, "database", "redis")

RedisClosed(a) ==
    /\ Reached(a, "redis")
    /\ open' = open \ {"redis"}
    /\ exit' = "clean"
    /\ UNCHANGED <<server, listenReturned, taking, task, shutdown>>

(* Any of the calls rejects.                                               *)
ShutdownFails(a) ==
    /\ Running /\ shutdown[a] # "none"
    /\ exit' = "failed"
    /\ UNCHANGED <<server, listenReturned, taking, task, shutdown, open>>

-----------------------------------------------------------------------------
GoOn(a) ==
    ServerClosed(a) \/ WorkersClosed(a) \/ QueuesClosed(a) \/ DatabaseClosed(a) \/ RedisClosed(a)

ShutdownNext ==
    \/ Listen \/ ListenFails
    \/ \E t \in Task : AcceptRequest(t) \/ ClientLeaves(t) \/ TakeJob(t) \/ EndTask(t)
    \/ \E a \in Alarm : BeginShutdown(a) \/ GoOn(a) \/ ShutdownFails(a)

ShutdownSpec == ShutdownInit /\ [][ShutdownNext]_processVars

-----------------------------------------------------------------------------
(* Properties.                                                             *)

(* However many signals come and whenever they do, nothing that a job or a *)
(* request with a waiting client needs is closed under it, and a process   *)
(* that exits with code 0 has closed everything and left none of them half *)
(* done (main.ts: shutdown).  The handler of a client that has left may be *)
(* cut off.                                                                *)
NothingIsCutOff ==
    open # Resource \/ exit = "clean" =>
        /\ \A t \in Task : task[t] \in {"none", "abandoned"}
        /\ exit = "clean" => open = {}
=============================================================================
