------------------------------ MODULE EventLoop -------------------------------
(***************************************************************************)
(* What the pass and the API requests wait for: the one event loop, the    *)
(* worker threads, the connections of the pool and the locks of the        *)
(* database.  What they read and write is in BotService and Accounts.      *)
(*                                                                         *)
(* The pass runs on the event loop, and so does its waiting for a          *)
(* connection or a lock: meanwhile the loop serves nobody.  A request      *)
(* needs the loop, and a thread, for each of its parts: current_user takes *)
(* a connection, the handler a lock, and both are kept until the loop has  *)
(* sent the closing of the session to a thread (get_db).                   *)
(*                                                                         *)
(* SQLite has one write lock and a writer waits for it no longer than the  *)
(* busy timeout.  Oracle locks rows, and a writer waits without limit.     *)
(***************************************************************************)
EXTENDS Naturals, FiniteSets

CONSTANTS
  None,
  Bots,
  Requests,
  Backends,   \* the databases in use, a subset of {"sqlite", "oracle"}
  PoolSize,   \* connections of the pool, the overflow included
  Threads     \* worker threads

ASSUME EventLoopAssumption ==
  /\ Backends \subseteq {"sqlite", "oracle"}
  /\ PoolSize \in Nat \ {0} /\ Threads \in Nat \ {0}
  /\ None \notin Bots
  /\ Requests \cap {"free", "tick"} = {}
  /\ "db" \notin Bots
  /\ IsFiniteSet(Bots)

VARIABLES
  backend,  \* the database the service was started with
  phase,    \* the pass: "idle", "checkout", "turn", "await" or "flush"
  todo,     \* the bots the pass still has to handle
  cur,      \* the bot whose turn it is, or None
  conns,    \* who has a connection: "tick" and requests
  owner,    \* who holds each lock: "free", "tick" or a request
  req       \* per request, how far it is and the bot it writes, if any

vars == <<backend, phase, todo, cur, conns, owner, req>>

\* SQLite's write lock, and the rows of trading_bots.
Locks == {"db"} \cup Bots
LockOf(b) == IF backend = "sqlite" THEN "db" ELSE b

LoopFree == phase \in {"idle", "await"}
ConnectionFree == Cardinality(conns) < PoolSize
InThread == {r \in Requests : req[r].pc \in {"auth", "handler"}}
ThreadFree == Cardinality(InThread) < Threads

Idle == [pc |-> "idle", bot |-> None]

Init ==
  /\ backend \in Backends
  /\ phase = "idle"
  /\ todo = {}
  /\ cur = None
  /\ conns = {}
  /\ owner = [l \in Locks |-> "free"]
  /\ req = [r \in Requests |-> Idle]

\* Mutants: a closed session keeps its connection; it keeps its locks.
Release_LocksOnly(holder) ==
  /\ conns' = conns
  /\ owner' = [l \in Locks |-> IF owner[l] = holder THEN "free" ELSE owner[l]]

Release_ConnectionOnly(holder) ==
  /\ conns' = conns \ {holder}
  /\ owner' = owner

\* A session is closed, after its commit or its rollback.
Release(holder) ==
  /\ conns' = conns \ {holder}
  /\ owner' = [l \in Locks |-> IF owner[l] = holder THEN "free" ELSE owner[l]]

-------------------------------------------------------------------------------
(* The pass.                                                                *)

\* The scheduler calls tick_all.
PassStart ==
  /\ phase = "idle"
  /\ phase' = "checkout"
  /\ UNCHANGED <<backend, todo, cur, conns, owner, req>>

\* The first statement takes a connection and loads the running bots.
Checkout ==
  /\ phase = "checkout"
  /\ ConnectionFree
  /\ conns' = conns \cup {"tick"}
  /\ todo' \in SUBSET Bots
  /\ phase' = "turn"
  /\ UNCHANGED <<backend, cur, owner, req>>

\* Mutant: the pool has no timeout.
CheckoutTimeout_Never == FALSE

\* The pool's timeout: the pass fails before it has begun.
CheckoutTimeout ==
  /\ phase = "checkout"
  /\ ~ConnectionFree
  /\ phase' = "idle"
  /\ UNCHANGED <<backend, todo, cur, conns, owner, req>>

\* A bot's turn, up to the await of its quote.
Turn(b) ==
  /\ phase = "turn"
  /\ b \in todo
  /\ cur' = b
  /\ phase' = "await"
  /\ UNCHANGED <<backend, todo, conns, owner, req>>

TurnOver ==
  /\ phase' = "turn"
  /\ todo' = todo \ {cur}
  /\ cur' = None

\* The quote has come, or has failed in another way than the last time: there is
\* something to flush.
Quote ==
  /\ phase = "await"
  /\ phase' = "flush"
  /\ UNCHANGED <<backend, todo, cur, conns, owner, req>>

\* The quote has failed with the same text as the last time.
NothingNew ==
  /\ phase = "await"
  /\ TurnOver
  /\ UNCHANGED <<backend, conns, owner, req>>

TickFlush ==
  /\ phase = "flush"
  /\ owner[LockOf(cur)] \in {"free", "tick"}
  /\ owner' = [owner EXCEPT ![LockOf(cur)] = "tick"]
  /\ TurnOver
  /\ UNCHANGED <<backend, conns, req>>

PassOver ==
  /\ phase' = "idle"
  /\ todo' = {}
  /\ cur' = None

\* Mutants: there is no busy timeout; the pass then asks for another quote; Oracle
\* has a timeout too; a failed pass leaves its session open.
BusyTimeout_Never == FALSE
BusyTimeout_Retry ==
  /\ backend = "sqlite"
  /\ phase = "flush"
  /\ owner[LockOf(cur)] \in Requests
  /\ phase' = "await"
  /\ UNCHANGED <<backend, todo, cur, conns, owner, req>>
BusyTimeout_Oracle ==
  /\ phase = "flush"
  /\ owner[LockOf(cur)] \in Requests
  /\ PassOver
  /\ Release("tick")
  /\ UNCHANGED <<backend, req>>
BusyTimeout_NoClose ==
  /\ backend = "sqlite"
  /\ phase = "flush"
  /\ owner[LockOf(cur)] \in Requests
  /\ PassOver
  /\ UNCHANGED <<backend, conns, owner, req>>

\* SQLite's busy timeout: the pass fails and its session is closed.
BusyTimeout ==
  /\ backend = "sqlite"
  /\ phase = "flush"
  /\ owner[LockOf(cur)] \in Requests
  /\ PassOver
  /\ Release("tick")
  /\ UNCHANGED <<backend, req>>

\* All bots have had their turn: commit and close.
PassEnd ==
  /\ phase = "turn"
  /\ todo = {}
  /\ PassOver
  /\ Release("tick")
  /\ UNCHANGED <<backend, req>>

-------------------------------------------------------------------------------
(* A request.                                                               *)

Goto(r, pc) == req' = [req EXCEPT ![r].pc = pc]

\* The loop accepts a request, one that writes bot b or, if b is None, only reads;
\* the session is made, and has no connection yet.
Arrive(r, b) ==
  /\ req[r].pc = "idle"
  /\ LoopFree
  /\ req' = [req EXCEPT ![r] = [pc |-> "arrived", bot |-> b]]
  /\ UNCHANGED <<backend, phase, todo, cur, conns, owner>>

\* The loop sends the next part, current_user or the handler, to a thread.
Dispatch(r) ==
  /\ LoopFree
  /\ ThreadFree
  /\ \/ req[r].pc = "arrived" /\ Goto(r, "auth")
     \/ req[r].pc = "authed"  /\ Goto(r, "handler")
  /\ UNCHANGED <<backend, phase, todo, cur, conns, owner>>

\* current_user's query takes a connection, which the session keeps.
Connect(r) ==
  /\ req[r].pc = "auth"
  /\ ConnectionFree
  /\ conns' = conns \cup {r}
  /\ Goto(r, "authed")
  /\ UNCHANGED <<backend, phase, todo, cur, owner>>

\* Mutant: the pool has no timeout.
ConnectTimeout_Never(r) == FALSE

\* The pool's timeout: the request fails.
ConnectTimeout(r) ==
  /\ req[r].pc = "auth"
  /\ ~ConnectionFree
  /\ Goto(r, "done")
  /\ UNCHANGED <<backend, phase, todo, cur, conns, owner>>

\* The handler has read what it needs and flushes, or has nothing to write.
Handle(r) ==
  /\ req[r].pc = "handler"
  /\ \/ req[r].bot = None /\ UNCHANGED owner
     \/ /\ req[r].bot # None
        /\ owner[LockOf(req[r].bot)] = "free"
        /\ owner' = [owner EXCEPT ![LockOf(req[r].bot)] = r]
  /\ Goto(r, "done")
  /\ UNCHANGED <<backend, phase, todo, cur, conns>>

\* SQLite's busy timeout: the request fails.
HandleTimeout(r) ==
  /\ backend = "sqlite"
  /\ req[r].pc = "handler"
  /\ req[r].bot # None
  /\ owner[LockOf(req[r].bot)] # "free"
  /\ Goto(r, "done")
  /\ UNCHANGED <<backend, phase, todo, cur, conns, owner>>

\* The loop sends the closing of the session to a thread kept for that.
Leave(r) ==
  /\ req[r].pc = "done"
  /\ LoopFree
  /\ Goto(r, "exiting")
  /\ UNCHANGED <<backend, phase, todo, cur, conns, owner>>

\* Commit or rollback, close, and the answer.
Close(r) ==
  /\ req[r].pc = "exiting"
  /\ Release(r)
  /\ req' = [req EXCEPT ![r] = Idle]
  /\ UNCHANGED <<backend, phase, todo, cur>>

-------------------------------------------------------------------------------
PassStep ==
  \/ Checkout \/ CheckoutTimeout
  \/ \E b \in Bots : Turn(b)
  \/ Quote \/ NothingNew
  \/ TickFlush \/ BusyTimeout
  \/ PassEnd

ReqStep(r) ==
  \/ Dispatch(r) \/ Connect(r) \/ ConnectTimeout(r)
  \/ Handle(r) \/ HandleTimeout(r)
  \/ Leave(r) \/ Close(r)

Next ==
  \/ PassStart \/ PassStep
  \/ \E r \in Requests, b \in Bots \cup {None} : Arrive(r, b)
  \/ \E r \in Requests : ReqStep(r)

Spec == Init /\ [][Next]_vars

\* Quotes come or time out and the pass goes on; threads run and timeouts pass;
\* the loop, the threads and a row's lock are given to those who wait in turn.
Fairness ==
  /\ WF_vars(PassStart)
  /\ WF_vars(PassStep)
  /\ \A r \in Requests : /\ SF_vars(Dispatch(r))
                         /\ WF_vars(Connect(r) \/ ConnectTimeout(r))
                         /\ SF_vars(Handle(r) \/ HandleTimeout(r))
                         /\ SF_vars(Leave(r))
                         /\ WF_vars(Close(r))

FairSpec == Spec /\ Fairness

-------------------------------------------------------------------------------
\* The pass is in one of five phases, a request at one of seven points.
TypeOK ==
  /\ backend \in Backends
  /\ phase \in {"idle", "checkout", "turn", "await", "flush"}
  /\ todo \subseteq Bots
  /\ cur \in Bots \cup {None}
  /\ conns \subseteq Requests \cup {"tick"}
  /\ owner \in [Locks -> Requests \cup {"free", "tick"}]
  /\ req \in [Requests ->
              [pc : {"idle", "arrived", "auth", "authed", "handler", "done",
                     "exiting"},
               bot : Bots \cup {None}]]

\* Nothing leaks on any path, the timeouts included: what is held is held by the
\* pass while it runs or by a request that has not been answered, and who holds a
\* lock has a connection, so that the pool is not what it waits for
\* (Database.session, get_db).
NothingLeaks ==
  /\ "tick" \in conns => phase # "idle"
  /\ \A r \in Requests : r \in conns => req[r].pc # "idle"
  /\ \A l \in Locks : owner[l] # "free" => owner[l] \in conns
  /\ Cardinality(conns) <= PoolSize

\* Its strengthening, in parts: when a request and when the pass has a connection,
\* when a request has a lock, and the two limits.
RequestInv ==
  \A r \in Requests :
    /\ r \in conns => req[r].pc \notin {"idle", "arrived", "auth"}
    /\ req[r].pc \in {"authed", "handler"} => r \in conns

PassInv ==
  /\ phase \in {"await", "flush"} => cur \in todo
  /\ "tick" \in conns <=> phase \in {"turn", "await", "flush"}

LockInv ==
  \A l \in Locks : owner[l] # "free" =>
    /\ owner[l] \in conns
    /\ owner[l] \in Requests => req[owner[l]].pc \in {"done", "exiting"}

LimitInv ==
  /\ IsFiniteSet(conns) /\ Cardinality(conns) <= PoolSize
  /\ IsFiniteSet(InThread) /\ Cardinality(InThread) <= Threads

IInv == TypeOK /\ RequestInv /\ PassInv /\ LockInv /\ LimitInv

\* The pass waits on the event loop for a row of a request that waits for the loop.
Stalled ==
  /\ phase = "flush"
  /\ backend = "oracle"
  /\ owner[LockOf(cur)] \in Requests
  /\ req[owner[LockOf(cur)]].pc = "done"

\* Where a request waits for the event loop: to be accepted, to be sent to a thread,
\* to be committed.
NeedsLoop(r) == req[r].pc \in {"idle", "arrived", "authed", "done"}

\* Who is stalled stays stalled, and whoever comes to wait for the loop stays where
\* he is: with Oracle there is no timeout that would part the pass and the request
\* (the flush in _run_tick).
StallIsForever ==
  [][Stalled => /\ Stalled' /\ UNCHANGED <<phase, cur>>
                /\ \A r \in Requests : NeedsLoop(r) => req'[r] = req[r]]_vars

\* When the pass, and when a request, can take a step: what their guards say.
PassMayStep ==
  \/ phase \in {"checkout", "turn", "await"}
  \/ phase = "flush" /\ (backend = "sqlite" \/ owner[LockOf(cur)] \notin Requests)

ReqMayStep(r) ==
  \/ req[r].pc \in {"arrived", "authed"} /\ LoopFree /\ ThreadFree
  \/ req[r].pc = "handler" /\ \/ req[r].bot = None
                              \/ backend = "sqlite"
                              \/ owner[LockOf(req[r].bot)] = "free"
  \/ req[r].pc = "done" /\ LoopFree
  \/ req[r].pc \in {"auth", "exiting"}

\* Except for that stall nobody waits in a circle: while a pass runs or a request
\* is unanswered, the pass or a request can go on, whoever waits for the loop, a
\* thread, a connection or a lock, and with no new request and no new pass.
NobodyIsStuck ==
  phase # "idle" \/ (\E r \in Requests : req[r].pc # "idle")
    => Stalled \/ PassMayStep \/ \E r \in Requests : ReqMayStep(r)

\* How many steps the pass, and a request, can take at most until they are over.
PassWork ==
  CASE phase = "idle"     -> 0
    [] phase = "checkout" -> 3 * Cardinality(Bots) + 2
    [] phase = "turn"     -> 3 * Cardinality(todo) + 1
    [] phase = "await"    -> 3 * Cardinality(todo)
    [] OTHER              -> 3 * Cardinality(todo) - 1

ReqWork(r) ==
  CASE req[r].pc = "idle"    -> 0
    [] req[r].pc = "exiting" -> 1
    [] req[r].pc = "done"    -> 2
    [] req[r].pc = "handler" -> 3
    [] req[r].pc = "authed"  -> 4
    [] req[r].pc = "auth"    -> 5
    [] OTHER                 -> 6

\* Nobody goes round for ever either, a timeout's path included: unless a pass
\* begins or a request arrives, a step leaves somebody less to do and nobody more
\* (tick_all, get_db).
WorkShrinks ==
  [][\/ PassStart \/ \E r \in Requests, b \in Bots \cup {None} : Arrive(r, b)
     \/ /\ PassWork' <= PassWork
        /\ \A r \in Requests : ReqWork(r)' <= ReqWork(r)
        /\ \/ PassWork' < PassWork
           \/ \E r \in Requests : ReqWork(r)' < ReqWork(r)]_vars

\* Except for that stall every request is answered, although it may wait for a
\* thread that waits for a connection that waits for a thread, and every pass ends,
\* although it waits on the loop for connections and locks that need the loop.
RequestsAnswered ==
  \A r \in Requests : req[r].pc # "idle" ~> (req[r].pc = "idle" \/ Stalled)

PassesEnd == phase # "idle" ~> (phase = "idle" \/ Stalled)

-------------------------------------------------------------------------------
(* What the documentation says and the code does not do.                    *)

\* "A bot in RUNNING is periodically quoted, decided on and traded for"
\* (README.md:168), with SQLite or with Oracle (README.md:19): passes end.
AllPassesEnd == phase # "idle" ~> phase = "idle"
===============================================================================
