---------------------------- MODULE EventLoopProofs ----------------------------
(***************************************************************************)
(* Proofs about EventLoop, for any number of bots and requests, any pool   *)
(* and any number of threads: nothing leaks, a stall never ends, and there *)
(* is no other: somebody can always go on, and nobody goes round for ever. *)
(***************************************************************************)
EXTENDS EventLoop, FiniteSetTheorems, TLAPS

\* What may only shrink stays within its limit, and what is below it may grow by
\* one (the checkout of a connection, a thread for a part of a request).
LEMMA Smaller ==
  ASSUME NEW S, IsFiniteSet(S), NEW T, T \subseteq S, NEW n \in Nat,
         Cardinality(S) <= n
  PROVE  IsFiniteSet(T) /\ Cardinality(T) <= n
<1>1. IsFiniteSet(T) /\ Cardinality(T) <= Cardinality(S)
  BY FS_Subset
<1>2. Cardinality(T) \in Nat /\ Cardinality(S) \in Nat
  BY <1>1, FS_CardinalityType
<1> QED
  BY <1>1, <1>2

LEMMA OneMore ==
  ASSUME NEW S, IsFiniteSet(S), NEW x, NEW T, T \subseteq S \cup {x},
         NEW n \in Nat, Cardinality(S) < n
  PROVE  IsFiniteSet(T) /\ Cardinality(T) <= n
<1>1. /\ IsFiniteSet(S \cup {x})
      /\ Cardinality(S \cup {x}) = Cardinality(S)
           \/ Cardinality(S \cup {x}) = Cardinality(S) + 1
  BY FS_AddElement
<1>2. Cardinality(S) \in Nat
  BY FS_CardinalityType
<1>3. Cardinality(S \cup {x}) <= n
  BY <1>1, <1>2
<1> QED
  BY <1>1, <1>3, Smaller

\* A request that moves on to pc; it is in a thread only before it is dispatched
\* again.
LEMMA Moved ==
  ASSUME TypeOK, NEW r \in Requests,
         NEW pc \in {"idle", "arrived", "auth", "authed", "handler", "done",
                     "exiting"},
         Goto(r, pc)
  PROVE  /\ req' \in [Requests ->
              [pc : {"idle", "arrived", "auth", "authed", "handler", "done",
                     "exiting"},
               bot : Bots \cup {None}]]
         /\ req'[r].pc = pc
         /\ \A q \in Requests : q # r => req'[q] = req[q]
         /\ InThread' \subseteq InThread \cup {r}
         /\ pc \notin {"auth", "handler"} => InThread' \subseteq InThread
<1>1. /\ req' \in [Requests ->
            [pc : {"idle", "arrived", "auth", "authed", "handler", "done",
                   "exiting"},
             bot : Bots \cup {None}]]
      /\ req'[r].pc = pc
      /\ \A q \in Requests : q # r => req'[q] = req[q]
  BY DEF TypeOK, Goto
<1> QED
  BY <1>1 DEF InThread

\* A session that is closed keeps no lock.
LEMMA Released ==
  ASSUME TypeOK, LockInv, NEW h \in Requests \cup {"tick"}, Release(h)
  PROVE  /\ conns' \subseteq conns /\ h \notin conns'
         /\ \A x \in conns : x # h => x \in conns'
         /\ owner' \in [Locks -> Requests \cup {"free", "tick"}]
         /\ \A l \in Locks : owner'[l] # "free" =>
              owner'[l] = owner[l] /\ owner[l] # h /\ owner[l] \in conns'
  BY DEF TypeOK, LockInv, Release

LEMMA InitInv == Init => IInv
<1> SUFFICES ASSUME Init PROVE IInv
  OBVIOUS
<1>1. TypeOK
  BY DEF Init, TypeOK, Idle
<1>2. \A r \in Requests : req[r].pc = "idle"
  BY DEF Init, Idle
<1>3. conns = {} /\ InThread = {} /\ phase = "idle"
  BY <1>2 DEF Init, InThread
<1>4. LimitInv
  BY <1>3, FS_EmptySet, EventLoopAssumption DEF LimitInv
<1>5. RequestInv /\ LockInv /\ PassInv
  BY <1>2, <1>3 DEF Init, RequestInv, LockInv, PassInv
<1> QED
  BY <1>1, <1>4, <1>5 DEF IInv

\* A step of the pass that keeps its connection and takes at most a lock.
LEMMA PassStepInv ==
  ASSUME IInv, PassStart \/ PassStep
  PROVE  IInv'
<1> USE DEF IInv
<1>1. "tick" \notin Requests /\ "free" \notin Requests
  BY EventLoopAssumption
<1>2. UNCHANGED <<backend, req>> /\ UNCHANGED InThread
  BY DEF PassStart, PassStep, Checkout, CheckoutTimeout, Turn, Quote, NothingNew,
         TickFlush, BusyTimeout, PassEnd, InThread
<1>3. ASSUME UNCHANGED <<conns, owner>> PROVE RequestInv' /\ LockInv' /\ LimitInv'
  BY <1>2, <1>3 DEF RequestInv, LockInv, LimitInv
<1>4. ASSUME PassStart \/ CheckoutTimeout \/ Quote \/ NothingNew
             \/ \E b \in Bots : Turn(b)
      PROVE  IInv'
  <2>1. UNCHANGED <<conns, owner>>
    BY <1>4 DEF PassStart, CheckoutTimeout, Quote, NothingNew, TurnOver, Turn
  <2>2. TypeOK' /\ PassInv'
    BY <1>2, <1>4, <2>1
       DEF PassStart, CheckoutTimeout, Quote, NothingNew, TurnOver, Turn,
           TypeOK, PassInv
  <2> QED
    BY <1>3, <2>1, <2>2
<1>5. CASE Checkout
  <2>1. /\ conns' = conns \cup {"tick"} /\ UNCHANGED <<owner, cur>>
        /\ phase' = "turn" /\ Cardinality(conns) < PoolSize
    BY <1>5 DEF Checkout, ConnectionFree
  <2>2. IsFiniteSet(conns') /\ Cardinality(conns') <= PoolSize
    BY <2>1, OneMore, EventLoopAssumption DEF LimitInv
  <2>3. LimitInv'
    BY <1>2, <2>2 DEF LimitInv
  <2>4. TypeOK' /\ PassInv'
    BY <1>2, <1>5, <2>1 DEF Checkout, TypeOK, PassInv
  <2>5. RequestInv' /\ LockInv'
    BY <1>1, <1>2, <2>1 DEF RequestInv, LockInv
  <2> QED
    BY <2>3, <2>4, <2>5
<1>6. CASE TickFlush
  <2>1. /\ owner' = [owner EXCEPT ![LockOf(cur)] = "tick"]
        /\ phase = "flush" /\ phase' = "turn" /\ UNCHANGED conns
    BY <1>6 DEF TickFlush, TurnOver
  <2>2. TypeOK' /\ PassInv'
    BY <1>2, <1>6, <2>1 DEF TickFlush, TurnOver, TypeOK, PassInv
  <2>3. \A l \in Locks : owner'[l] = owner[l] \/ owner'[l] = "tick"
    BY <2>1 DEF TypeOK
  <2>4. LockInv'
    BY <1>1, <1>2, <2>1, <2>3 DEF LockInv, PassInv
  <2>5. RequestInv' /\ LimitInv'
    BY <1>2, <2>1 DEF RequestInv, LimitInv
  <2> QED
    BY <2>2, <2>4, <2>5
<1>7. CASE BusyTimeout \/ PassEnd
  <2>1. Release("tick") /\ PassOver
    BY <1>7 DEF BusyTimeout, PassEnd
  <2>2. /\ conns' \subseteq conns /\ "tick" \notin conns'
        /\ \A x \in conns : x # "tick" => x \in conns'
        /\ owner' \in [Locks -> Requests \cup {"free", "tick"}]
        /\ \A l \in Locks : owner'[l] # "free" =>
             owner'[l] = owner[l] /\ owner[l] # "tick" /\ owner[l] \in conns'
    BY <2>1, Released
  <2>3. TypeOK' /\ PassInv'
    BY <1>2, <2>1, <2>2 DEF PassOver, TypeOK, PassInv
  <2>4. RequestInv' /\ LockInv'
    BY <1>1, <1>2, <2>2 DEF RequestInv, LockInv
  <2>5. LimitInv'
    BY <1>2, <2>2, Smaller, EventLoopAssumption DEF LimitInv
  <2> QED
    BY <2>3, <2>4, <2>5
<1> QED
  BY <1>4, <1>5, <1>6, <1>7 DEF PassStep

\* A request that moves on and takes neither a connection nor a lock.
LEMMA MoveOnly ==
  ASSUME IInv, NEW r \in Requests,
         NEW pc \in {"auth", "handler", "done", "exiting"},
         Goto(r, pc), UNCHANGED <<backend, phase, todo, cur, conns, owner>>,
         req[r].pc \in {"arrived", "auth", "authed", "handler", "done"},
         pc = "auth" => req[r].pc = "arrived",
         pc = "handler" => req[r].pc = "authed",
         pc \in {"auth", "handler"} => ThreadFree,
         req[r].pc = "arrived" => pc = "auth",
         req[r].pc = "done" => pc = "exiting"
  PROVE  IInv'
<1> USE DEF IInv
<1>1. /\ req' \in [Requests ->
            [pc : {"idle", "arrived", "auth", "authed", "handler", "done",
                   "exiting"},
             bot : Bots \cup {None}]]
      /\ req'[r].pc = pc
      /\ \A q \in Requests : q # r => req'[q] = req[q]
      /\ InThread' \subseteq InThread \cup {r}
      /\ pc \notin {"auth", "handler"} => InThread' \subseteq InThread
  BY Moved
<1>2. TypeOK' /\ PassInv'
  BY <1>1 DEF TypeOK, PassInv
<1>3. RequestInv'
  BY <1>1 DEF RequestInv
<1>4. LockInv'
  BY <1>1, EventLoopAssumption DEF LockInv
<1>5. IsFiniteSet(InThread') /\ Cardinality(InThread') <= Threads
  <2>1. CASE pc \in {"auth", "handler"}
    BY <2>1, <1>1, OneMore, EventLoopAssumption DEF LimitInv, ThreadFree
  <2>2. CASE pc \notin {"auth", "handler"}
    BY <2>2, <1>1, Smaller, EventLoopAssumption DEF LimitInv
  <2> QED
    BY <2>1, <2>2
<1>6. LimitInv'
  BY <1>5 DEF LimitInv
<1> QED
  BY <1>2, <1>3, <1>4, <1>6

LEMMA ConnectStep ==
  ASSUME IInv, NEW r \in Requests, Connect(r)
  PROVE  IInv'
<1> USE DEF IInv
<1>1. /\ req[r].pc = "auth" /\ Cardinality(conns) < PoolSize
      /\ conns' = conns \cup {r} /\ Goto(r, "authed")
      /\ UNCHANGED <<backend, phase, todo, cur, owner>>
  BY DEF Connect, ConnectionFree
<1>2. /\ req' \in [Requests ->
            [pc : {"idle", "arrived", "auth", "authed", "handler", "done",
                   "exiting"},
             bot : Bots \cup {None}]]
      /\ req'[r].pc = "authed"
      /\ \A q \in Requests : q # r => req'[q] = req[q]
      /\ InThread' \subseteq InThread
  BY <1>1, Moved
<1>3. TypeOK' /\ PassInv'
  BY <1>1, <1>2, EventLoopAssumption DEF TypeOK, PassInv
<1>4. RequestInv' /\ LockInv'
  BY <1>1, <1>2, EventLoopAssumption DEF RequestInv, LockInv
<1>5. IsFiniteSet(conns') /\ Cardinality(conns') <= PoolSize
  BY <1>1, OneMore, EventLoopAssumption DEF LimitInv
<1>6. IsFiniteSet(InThread') /\ Cardinality(InThread') <= Threads
  BY <1>2, Smaller, EventLoopAssumption DEF LimitInv
<1> QED
  BY <1>3, <1>4, <1>5, <1>6 DEF LimitInv

LEMMA HandleStep ==
  ASSUME IInv, NEW r \in Requests, Handle(r)
  PROVE  IInv'
<1> USE DEF IInv
<1>1. /\ req[r].pc = "handler" /\ Goto(r, "done")
      /\ UNCHANGED <<backend, phase, todo, cur, conns>>
  BY DEF Handle
<1>2. CASE UNCHANGED owner
  BY <1>1, <1>2, MoveOnly
<1>3. CASE /\ req[r].bot # None
           /\ owner' = [owner EXCEPT ![LockOf(req[r].bot)] = r]
  <2>1. /\ req' \in [Requests ->
              [pc : {"idle", "arrived", "auth", "authed", "handler", "done",
                     "exiting"},
               bot : Bots \cup {None}]]
        /\ req'[r].pc = "done"
        /\ \A q \in Requests : q # r => req'[q] = req[q]
        /\ InThread' \subseteq InThread
    BY <1>1, Moved
  <2>2. /\ owner' \in [Locks -> Requests \cup {"free", "tick"}]
        /\ \A l \in Locks : owner'[l] = owner[l] \/ owner'[l] = r
    BY <1>3 DEF TypeOK
  <2>3. TypeOK' /\ PassInv'
    BY <1>1, <2>1, <2>2 DEF TypeOK, PassInv
  <2>4. RequestInv'
    BY <1>1, <2>1 DEF RequestInv
  <2>5. LockInv'
    BY <1>1, <2>1, <2>2 DEF LockInv, RequestInv
  <2>6. IsFiniteSet(InThread') /\ Cardinality(InThread') <= Threads
    BY <2>1, Smaller, EventLoopAssumption DEF LimitInv
  <2> QED
    BY <1>1, <2>3, <2>4, <2>5, <2>6 DEF LimitInv
<1> QED
  BY <1>2, <1>3 DEF Handle

LEMMA CloseStep ==
  ASSUME IInv, NEW r \in Requests, Close(r)
  PROVE  IInv'
<1> USE DEF IInv
<1>1. /\ req[r].pc = "exiting" /\ Release(r) /\ req' = [req EXCEPT ![r] = Idle]
      /\ UNCHANGED <<backend, phase, todo, cur>>
  BY DEF Close
<1>2. /\ conns' \subseteq conns /\ r \notin conns'
      /\ \A x \in conns : x # r => x \in conns'
      /\ owner' \in [Locks -> Requests \cup {"free", "tick"}]
      /\ \A l \in Locks : owner'[l] # "free" =>
           owner'[l] = owner[l] /\ owner[l] # r /\ owner[l] \in conns'
  BY <1>1, Released
<1>3. /\ req'[r] = Idle /\ req'[r].pc = "idle"
      /\ \A q \in Requests : q # r => req'[q] = req[q]
  BY <1>1 DEF TypeOK, Idle
<1>4. TypeOK'
  BY <1>1, <1>2, <1>3 DEF TypeOK, Idle
<1>5. PassInv'
  BY <1>1, <1>2, EventLoopAssumption DEF PassInv
<1>6. RequestInv' /\ LockInv'
  BY <1>1, <1>2, <1>3 DEF RequestInv, LockInv
<1>7. InThread' \subseteq InThread
  BY <1>1, <1>3 DEF InThread
<1>8. LimitInv'
  BY <1>2, <1>7, Smaller, EventLoopAssumption DEF LimitInv
<1> QED
  BY <1>4, <1>5, <1>6, <1>8

LEMMA ArriveStep ==
  ASSUME IInv, NEW r \in Requests, NEW b \in Bots \cup {None}, Arrive(r, b)
  PROVE  IInv'
<1> USE DEF IInv
<1>1. /\ req[r].pc = "idle" /\ req' = [req EXCEPT ![r] = [pc |-> "arrived", bot |-> b]]
      /\ UNCHANGED <<backend, phase, todo, cur, conns, owner>>
  BY DEF Arrive
<1>2. /\ req'[r].pc = "arrived"
      /\ \A q \in Requests : q # r => req'[q] = req[q]
  BY <1>1 DEF TypeOK
<1>3. TypeOK' /\ PassInv'
  BY <1>1 DEF TypeOK, PassInv
<1>4. RequestInv' /\ LockInv'
  BY <1>1, <1>2, EventLoopAssumption DEF RequestInv, LockInv
<1>5. InThread' \subseteq InThread
  BY <1>1, <1>2 DEF InThread
<1>6. LimitInv'
  BY <1>1, <1>5, Smaller, EventLoopAssumption DEF LimitInv
<1> QED
  BY <1>3, <1>4, <1>6

LEMMA ReqStepInv ==
  ASSUME IInv, NEW r \in Requests, ReqStep(r)
  PROVE  IInv'
<1>1. CASE Dispatch(r)
  BY <1>1, MoveOnly DEF Dispatch
<1>2. CASE ConnectTimeout(r) \/ HandleTimeout(r) \/ Leave(r)
  BY <1>2, MoveOnly DEF ConnectTimeout, HandleTimeout, Leave
<1> QED
  BY <1>1, <1>2, ConnectStep, HandleStep, CloseStep DEF ReqStep

\* The service keeps its limits and gives back what it takes, for any number of
\* bots, requests, threads and connections, with either database.
THEOREM Invariance == Spec => []IInv
<1>1. Init => IInv
  BY InitInv
<1>2. ASSUME IInv, [Next]_vars PROVE IInv'
  <2>1. CASE Next
    BY <1>2, <2>1, PassStepInv, ArriveStep, ReqStepInv DEF Next
  <2>2. CASE UNCHANGED vars
    BY <1>2, <2>2
       DEF vars, IInv, TypeOK, RequestInv, PassInv, LockInv, LimitInv, InThread
  <2> QED
    BY <1>2, <2>1, <2>2
<1> QED
  BY <1>1, <1>2, PTL DEF Spec

\* No path, a timeout's included, leaves a connection or a lock with nobody there
\* to give it back (Database.session, get_db).
THEOREM NothingIsLeaked == Spec => []NothingLeaks
<1>1. IInv => NothingLeaks
  BY DEF IInv, NothingLeaks, RequestInv, PassInv, LockInv, LimitInv
<1> QED
  BY <1>1, Invariance, PTL

\* With Oracle the pass and a request that wait for each other, the one for the
\* row and the other for the event loop, wait for ever (the flush in _run_tick).
THEOREM StallsLast == Spec => StallIsForever
<1> DEFINE Stay == \A r \in Requests : NeedsLoop(r) => req'[r] = req[r]
           A == Stalled => /\ Stalled' /\ UNCHANGED <<phase, cur>>
                           /\ Stay
<1>1. IInv /\ [Next]_vars => [A]_vars
  <2> SUFFICES ASSUME IInv, Next, Stalled
               PROVE  Stalled' /\ UNCHANGED <<phase, cur>> /\ Stay
    BY DEF vars
  <2> DEFINE h == owner[LockOf(cur)]
  <2>1. /\ phase = "flush" /\ backend = "oracle" /\ cur \in Bots
        /\ h \in Requests /\ req[h].pc = "done"
    BY DEF Stalled, IInv, TypeOK, PassInv
  <2>2. h # "free" /\ h # "tick" /\ ~LoopFree
    BY <2>1, EventLoopAssumption DEF LoopFree
  <2>3. LockOf(cur) = cur /\ cur \in Locks
    BY <2>1 DEF LockOf, Locks
  <2>4. ~PassStart /\ ~PassStep
    BY <2>1, <2>2
       DEF PassStart, PassStep, Checkout, CheckoutTimeout, Turn, Quote,
           NothingNew, TickFlush, BusyTimeout, PassEnd
  <2>5. PICK r \in Requests : Connect(r) \/ ConnectTimeout(r) \/ Handle(r)
                              \/ HandleTimeout(r) \/ Close(r)
    BY <2>2, <2>4 DEF Next, Arrive, ReqStep, Dispatch, Leave
  <2>6. UNCHANGED <<backend, phase, cur>>
    BY <2>5 DEF Connect, ConnectTimeout, Handle, HandleTimeout, Close
  <2>7. r # h
    BY <2>1, <2>5 DEF Connect, ConnectTimeout, Handle, HandleTimeout, Close
  <2>8. req'[h] = req[h]
    BY <2>1, <2>5, <2>7
       DEF Connect, ConnectTimeout, Handle, HandleTimeout, Close, Goto, IInv,
           TypeOK
  <2>9. owner'[cur] = h
    <3>1. CASE Connect(r) \/ ConnectTimeout(r) \/ HandleTimeout(r)
      BY <3>1, <2>3 DEF Connect, ConnectTimeout, HandleTimeout
    <3>2. CASE Close(r)
      BY <3>2, <2>3, <2>7 DEF Close, Release
    <3>3. CASE Handle(r)
      <4>1. \/ owner' = owner
            \/ /\ owner[LockOf(req[r].bot)] = "free"
               /\ owner' = [owner EXCEPT ![LockOf(req[r].bot)] = r]
        BY <3>3 DEF Handle
      <4>2. LockOf(req[r].bot) = cur => owner[LockOf(req[r].bot)] # "free"
        BY <2>2, <2>3
      <4> QED
        BY <4>1, <4>2, <2>3 DEF IInv, TypeOK
    <3> QED
      BY <2>5, <3>1, <3>2, <3>3
  <2>10. LockOf(cur)' = cur
    BY <2>1, <2>6 DEF LockOf
  <2>11. Stay
    <3>1. ~NeedsLoop(r)
      BY <2>5 DEF NeedsLoop, Connect, ConnectTimeout, Handle, HandleTimeout, Close
    <3>2. \A q \in Requests \ {r} : req'[q] = req[q]
      BY <2>5 DEF Connect, ConnectTimeout, Handle, HandleTimeout, Close, Goto, IInv,
                  TypeOK
    <3> QED
      BY <3>1, <3>2
  <2> QED
    BY <2>1, <2>6, <2>8, <2>9, <2>10, <2>11 DEF Stalled
<1> QED
  BY <1>1, Invariance, PTL DEF Spec, StallIsForever

-------------------------------------------------------------------------------
(* Somebody can go on, for as long as there is work, and the work shrinks.  *)

\* Who holds the row that the pass waits for has done its work: it is about to
\* give the row back, or waits for the loop, and that is the stall.
LEMMA PassWaits ==
  ASSUME IInv, phase # "idle", ~Stalled
  PROVE  PassMayStep \/ \E r \in Requests : ReqMayStep(r)
<1>1. CASE phase # "flush"
  BY <1>1 DEF IInv, TypeOK, PassMayStep
<1>2. CASE phase = "flush" /\ ~PassMayStep
  <2> DEFINE h == owner[LockOf(cur)]
  <2>1. backend = "oracle" /\ h \in Requests
    BY <1>2, EventLoopAssumption DEF PassMayStep, IInv, TypeOK
  <2>2. LockOf(cur) \in Locks
    BY <1>2, <2>1 DEF LockOf, Locks, IInv, TypeOK, PassInv
  <2>3. req[h].pc \in {"done", "exiting"}
    BY <2>1, <2>2, EventLoopAssumption DEF IInv, LockInv
  <2>4. req[h].pc = "exiting"
    BY <1>2, <2>1, <2>3 DEF Stalled
  <2> QED
    BY <2>1, <2>4 DEF ReqMayStep
<1> QED
  BY <1>1, <1>2

\* With the loop free a request waits for a thread, or for a row: the threads are
\* those of requests that are in one, and a row's holder is past its handler.
LEMMA RequestWaits ==
  ASSUME IInv, phase = "idle", NEW r \in Requests, req[r].pc # "idle"
  PROVE  \E q \in Requests : ReqMayStep(q)
<1>1. LoopFree /\ "tick" \notin conns
  BY DEF LoopFree, IInv, PassInv
<1>2. ASSUME NEW q \in Requests, req[q].pc = "handler"
      PROVE  \E p \in Requests : ReqMayStep(p)
  <2> DEFINE l == LockOf(req[q].bot)
  <2>1. CASE req[q].bot = None \/ owner[l] = "free"
    BY <1>2, <2>1 DEF ReqMayStep
  <2>2. CASE req[q].bot # None /\ owner[l] # "free"
    <3>1. l \in Locks
      BY <2>2 DEF LockOf, Locks, IInv, TypeOK
    <3>2. owner[l] \in conns /\ owner[l] \in Requests \cup {"tick"}
      BY <2>2, <3>1 DEF IInv, LockInv, TypeOK
    <3>3. owner[l] \in Requests /\ req[owner[l]].pc \in {"done", "exiting"}
      BY <1>1, <2>2, <3>1, <3>2 DEF IInv, LockInv
    <3> QED
      BY <1>1, <3>3 DEF ReqMayStep
  <2> QED
    BY <2>1, <2>2
<1>3. ASSUME \A q \in Requests : req[q].pc \notin {"auth", "handler"}
      PROVE  ReqMayStep(r)
  <2>1. InThread = {}
    BY <1>3 DEF InThread
  <2>2. ThreadFree
    BY <2>1, FS_EmptySet, EventLoopAssumption DEF ThreadFree
  <2>3. req[r].pc \in {"arrived", "authed", "done", "exiting"}
    BY <1>3 DEF IInv, TypeOK
  <2> QED
    BY <1>1, <2>2, <2>3 DEF ReqMayStep
<1>4. ASSUME NEW q \in Requests, req[q].pc = "auth" PROVE ReqMayStep(q)
  BY <1>4 DEF ReqMayStep
<1> QED
  BY <1>2, <1>3, <1>4

\* Unless the pass and a request are stalled on Oracle, nobody waits in a circle:
\* threads wait for connections, connections for the loop, the loop for rows, and
\* there is always somebody who waits for nobody (the flush in _run_tick, get_db).
THEOREM NoOtherStall == Spec => []NobodyIsStuck
<1>1. IInv => NobodyIsStuck
  <2> SUFFICES ASSUME IInv, ~Stalled,
                      phase # "idle" \/ \E r \in Requests : req[r].pc # "idle"
               PROVE  PassMayStep \/ \E r \in Requests : ReqMayStep(r)
    BY DEF NobodyIsStuck
  <2> QED
    BY PassWaits, RequestWaits
<1> QED
  BY <1>1, Invariance, PTL

\* What the pass has still to do is finite, and a turn is one bot's.
LEMMA BotsCount ==
  ASSUME NEW S, S \subseteq Bots
  PROVE  /\ Cardinality(S) \in Nat /\ Cardinality(Bots) \in Nat
         /\ Cardinality(S) <= Cardinality(Bots)
<1>1. IsFiniteSet(Bots)
  BY EventLoopAssumption
<1>2. IsFiniteSet(S) /\ Cardinality(S) <= Cardinality(Bots)
  BY <1>1, FS_Subset
<1> QED
  BY <1>1, <1>2, FS_CardinalityType

LEMMA TodoShrinks ==
  ASSUME IInv
  PROVE  /\ Cardinality(todo) \in Nat /\ Cardinality(Bots) \in Nat
         /\ Cardinality(todo) <= Cardinality(Bots)
         /\ phase \in {"await", "flush"}
              => /\ Cardinality(todo) > 0
                 /\ Cardinality(todo \ {cur}) = Cardinality(todo) - 1
<1>1. IsFiniteSet(Bots) /\ todo \subseteq Bots
  BY EventLoopAssumption DEF IInv, TypeOK
<1>2. IsFiniteSet(todo)
  BY <1>1, FS_Subset
<1>3. /\ Cardinality(todo) \in Nat /\ Cardinality(Bots) \in Nat
      /\ Cardinality(todo) <= Cardinality(Bots)
  BY <1>1, BotsCount
<1>4. ASSUME phase \in {"await", "flush"}
      PROVE  /\ Cardinality(todo) > 0
             /\ Cardinality(todo \ {cur}) = Cardinality(todo) - 1
  <2>1. cur \in todo
    BY <1>4 DEF IInv, PassInv
  <2>2. /\ IsFiniteSet(todo \ {cur})
        /\ Cardinality(todo \ {cur}) = Cardinality(todo) - 1
    BY <1>2, <2>1, FS_RemoveElement
  <2>3. Cardinality(todo \ {cur}) \in Nat
    BY <2>2, FS_CardinalityType
  <2> QED
    BY <1>3, <2>2, <2>3
<1> QED
  BY <1>3, <1>4

LEMMA PassWorks ==
  ASSUME IInv, todo' \subseteq Bots, PassStep
  PROVE  PassWork' \in Int /\ PassWork' < PassWork /\ UNCHANGED req
<1>1. /\ Cardinality(todo) \in Nat /\ Cardinality(Bots) \in Nat
      /\ phase \in {"await", "flush"}
           => /\ Cardinality(todo) > 0
              /\ Cardinality(todo \ {cur}) = Cardinality(todo) - 1
  BY TodoShrinks
<1>2. CASE Checkout
  <2>1. Cardinality(todo') \in Nat /\ Cardinality(todo') <= Cardinality(Bots)
    BY BotsCount
  <2> QED
    BY <1>1, <1>2, <2>1 DEF Checkout, PassWork
<1>3. CASE CheckoutTimeout
  BY <1>1, <1>3 DEF CheckoutTimeout, PassWork
<1>4. ASSUME NEW b \in Bots, Turn(b)
      PROVE  PassWork' \in Int /\ PassWork' < PassWork /\ UNCHANGED req
  BY <1>1, <1>4 DEF Turn, PassWork
<1>5. CASE Quote
  BY <1>1, <1>5 DEF Quote, PassWork
<1>6. CASE NothingNew
  BY <1>1, <1>6 DEF NothingNew, TurnOver, PassWork
<1>7. CASE TickFlush
  BY <1>1, <1>7 DEF TickFlush, TurnOver, PassWork
<1>8. CASE BusyTimeout \/ PassEnd
  BY <1>1, <1>8 DEF BusyTimeout, PassEnd, PassOver, PassWork
<1> QED
  BY <1>2, <1>3, <1>4, <1>5, <1>6, <1>7, <1>8 DEF PassStep

LEMMA RequestWorks ==
  ASSUME IInv, NEW r \in Requests, ReqStep(r)
  PROVE  /\ ReqWork(r)' < ReqWork(r)
         /\ \A q \in Requests : q # r => ReqWork(q)' = ReqWork(q)
         /\ UNCHANGED <<phase, todo>>
<1>1. UNCHANGED <<phase, todo>>
  BY DEF ReqStep, Dispatch, Connect, ConnectTimeout, Handle, HandleTimeout, Leave,
         Close
<1>2. ASSUME NEW pc, Goto(r, pc)
      PROVE  req'[r].pc = pc /\ \A q \in Requests : q # r => req'[q] = req[q]
  BY <1>2 DEF Goto, IInv, TypeOK
<1>3. CASE Close(r)
  <2>1. /\ req[r].pc = "exiting" /\ req'[r].pc = "idle"
        /\ \A q \in Requests : q # r => req'[q] = req[q]
    BY <1>3 DEF Close, Idle, IInv, TypeOK
  <2> QED
    BY <1>1, <2>1 DEF ReqWork
<1>4. ASSUME NEW pc, NEW from, Goto(r, pc), req[r].pc = from,
             <<from, pc>> \in {<<"arrived", "auth">>, <<"authed", "handler">>,
                              <<"auth", "authed">>, <<"auth", "done">>,
                              <<"handler", "done">>, <<"done", "exiting">>}
      PROVE  /\ ReqWork(r)' < ReqWork(r)
             /\ \A q \in Requests : q # r => ReqWork(q)' = ReqWork(q)
  <2>1. req'[r].pc = pc /\ \A q \in Requests : q # r => req'[q] = req[q]
    BY <1>2, <1>4
  <2> QED
    BY <1>4, <2>1 DEF ReqWork
<1>5. CASE Dispatch(r)
  BY <1>1, <1>4, <1>5 DEF Dispatch
<1>6. CASE Connect(r) \/ ConnectTimeout(r)
  BY <1>1, <1>4, <1>6 DEF Connect, ConnectTimeout
<1>7. CASE Handle(r) \/ HandleTimeout(r)
  BY <1>1, <1>4, <1>7 DEF Handle, HandleTimeout
<1>8. CASE Leave(r)
  BY <1>1, <1>4, <1>8 DEF Leave
<1> QED
  BY <1>3, <1>5, <1>6, <1>7, <1>8 DEF ReqStep

\* Unless a pass begins or a request arrives, a step leaves somebody less to do
\* and nobody more: no path, a timeout's included, goes round.  Where somebody can
\* always go on, everything that was begun is then over after finitely many steps
\* (tick_all, get_db).
THEOREM WorkEnds == Spec => WorkShrinks
<1> DEFINE A == \/ PassStart \/ \E r \in Requests, b \in Bots \cup {None} : Arrive(r, b)
                \/ /\ PassWork' <= PassWork
                   /\ \A r \in Requests : ReqWork(r)' <= ReqWork(r)
                   /\ \/ PassWork' < PassWork
                      \/ \E r \in Requests : ReqWork(r)' < ReqWork(r)
<1>1. ASSUME IInv, IInv', [Next]_vars PROVE [A]_vars
  <2>1. /\ PassWork \in Int /\ \A r \in Requests : ReqWork(r) \in Int
    BY <1>1, TodoShrinks DEF PassWork, ReqWork, IInv, TypeOK
  <2>2. CASE PassStep
    <3>1. todo' \subseteq Bots
      BY <1>1 DEF IInv, TypeOK
    <3>2. PassWork' \in Int /\ PassWork' < PassWork /\ UNCHANGED req
      BY <1>1, <2>2, <3>1, PassWorks
    <3>3. \A r \in Requests : ReqWork(r)' = ReqWork(r)
      BY <3>2 DEF ReqWork
    <3> QED
      BY <2>1, <3>2, <3>3
  <2>3. ASSUME NEW r \in Requests, ReqStep(r) PROVE A
    <3>1. /\ ReqWork(r)' < ReqWork(r)
          /\ \A q \in Requests : q # r => ReqWork(q)' = ReqWork(q)
          /\ UNCHANGED <<phase, todo>>
      BY <1>1, <2>3, RequestWorks
    <3>2. PassWork' = PassWork
      BY <3>1 DEF PassWork
    <3>3. ReqWork(r)' \in Int
      BY <1>1 DEF ReqWork, IInv, TypeOK
    <3> QED
      BY <2>1, <3>1, <3>2, <3>3
  <2> HIDE DEF A
  <2> QED
    BY <1>1, <2>2, <2>3 DEF Next, A
<1>2. Spec => [][A]_vars
  BY <1>1, Invariance, PTL DEF Spec
<1> QED
  BY <1>2 DEF WorkShrinks
===============================================================================
