--------------------------- MODULE LifecycleProofs ---------------------------
(***************************************************************************)
(* BotService implements Lifecycle, whatever the bots, requests, payloads, *)
(* quotes and prices are.  Two more layers of the inductive invariant are  *)
(* needed: what the writers know of the book they sell from, which settles *)
(* the properties about stale portfolios, and what the open transaction    *)
(* will change when it is committed.  The promise, once it is shown to be  *)
(* kept, is in turn what NoFreeMoney is proved from.                       *)
(***************************************************************************)
EXTENDS BotServiceProofs

HoldingInv == TableInv /\ TraderInv /\ AverageInv /\ SellerInv

Asks == {t.ask : t \in Tickers}
Bids == {t.bid : t \in Tickers}

LEMMA CoreParts ==
  CoreInv <=> TypeInv /\ LockInv /\ MoneyInv /\ LateInv /\ MergeInv
  BY DEF CoreInv, TypeInv, MoneyInv

LEMMA CoreStep == CoreInv /\ [Next]_vars => CoreInv'
<1>1. CoreInv' <=> TypeInv' /\ LockInv' /\ MoneyInv' /\ LateInv' /\ MergeInv'
  BY DEF CoreInv, TypeInv, MoneyInv
<1> QED
  BY <1>1, CoreParts, TypeStep, LockStep, MoneyStep, LateStep, MergeStep

-------------------------------------------------------------------------------
(* The sixth layer: what the writers know of the balance.                   *)

LEMMA HoldingInit == Init => HoldingInv
  BY LockAssumption
     DEF Init, HoldingInv, TableInv, TraderInv, AverageInv, SellerInv, EmptyBook,
         Idle

\* What a request's row does to the book it is added to.
LEMMA RecordBySale ==
  ASSUME NEW book \in Books, NEW row \in SaleRows, SalePays(row)
  PROVE  /\ Record(book, row).usdt <= book.usdt
         /\ Record(book, row).krw >= book.krw
         /\ Record(book, row).short >= book.short
         /\ \/ Record(book, row) = book /\ row.side = "NONE"
            \/ Record(book, row).rows = book.rows + 1
         /\ Record(book, row).usdt = 0 \/ Record(book, row).avg = book.avg
<1>1. row \in TradeRows /\ row.side \in {"NONE", "SELL"}
  BY DEF SaleRows, TradeRows
<1>2. book.usdt \in Nat /\ book.krw \in Int /\ book.short \in Nat
  BY DEF Books
<1>3. CASE row.side = "NONE"
  BY <1>1, <1>2, <1>3, RecordSums
<1>4. CASE row.side = "SELL"
  BY <1>2, <1>4, RecordSold
<1> QED
  BY <1>1, <1>3, <1>4

\* What a request's write leaves of the bot it is for.
LEMMA ReqWriteEffect ==
  ASSUME TypeInv, LockInv, SaleInv, NEW r \in Requests, ReqWrite(r)
  PROVE  /\ req[r] \in Jobs /\ pending = db /\ lock = "free"
         /\ UNCHANGED <<db, phase, cur, loaded, trader, late>>
         /\ lock' = r
         /\ pending'[req[r].bot] =
              Flush(db[req[r].bot], req[r].old, req[r].new, req[r].row)
         /\ SalePays(req[r].row)
         /\ req'[r] = [req[r] EXCEPT !.pc = "flushed"]
         /\ \A q \in Requests \ {r} : req'[q] = req[q]
         /\ \A b \in Bots \ {req[r].bot} : pending'[b] = db[b]
<1>1. req[r] \in Jobs
  BY DEF ReqWrite, TypeInv, TypeOK, Idle
<1>2. req[r].bot \in Bots
  BY <1>1 DEF Jobs
<1> QED
  BY <1>1, <1>2 DEF ReqWrite, TypeInv, TypeOK, LockInv, SaleInv, SalePays

LEMMA TableStep ==
  ASSUME TypeInv, TypeInv', LockInv, SaleInv, TableInv, [Next]_vars
  PROVE  TableInv'
<1> USE LockAssumption
<1>0. \A b \in Bots : /\ db[b].book \in Books /\ pending[b].book \in Books
                      /\ db[b].book.rows \in Nat /\ pending[b].book.rows \in Nat
                      /\ db[b].book.usdt \in Nat /\ pending[b].book.usdt \in Nat
                      /\ db[b].book.short \in Nat
                      /\ pending[b].book.short \in Nat
  BY DEF TypeInv, TypeOK, BotRows, Books
<1>1. CASE UNCHANGED <<db, pending>> /\ (lock' \in Requests => lock' = lock)
  BY <1>1 DEF TableInv
<1>2. ASSUME phase \in {"await", "blocked"}, lock \in {"free", "tick"},
             UNCHANGED <<db, req, late>>,
             NEW status \in Statuses, NEW row \in TradeRows,
             TickRow(row), TickWrite(status, row)
      PROVE  TableInv'
  <2>1. /\ pending'[cur].book = Record(pending[cur].book, row)
        /\ \A b \in Bots \ {cur} : pending'[b] = pending[b]
        /\ cur \in Bots /\ lock' = "tick" /\ db' = db
    BY <1>2, TickWriteEffect DEF TickWrite, TypeInv, TypeOK, TurnInv
  <2>2. /\ \/ pending'[cur].book = pending[cur].book
           \/ pending'[cur].book.rows = pending[cur].book.rows + 1
        /\ pending'[cur].book.short >= pending[cur].book.short
    <3>1. CASE row.side = "NONE"
      BY <1>0, <2>1, <3>1, RecordSums
    <3>2. CASE row.side = "BUY"
      BY <1>0, <1>2, <2>1, <3>2, RecordBought DEF TickRow, Affordable
    <3>3. CASE row.side = "SELL"
      BY <1>0, <1>2, <2>1, <3>3, RecordSold DEF TickRow, SaleRows
    <3> QED
      BY <3>1, <3>2, <3>3 DEF TradeRows
  <2>3. pending'[cur].book.short \in Nat
    BY <2>1 DEF TypeInv, TypeOK, BotRows, Books
  <2> QED
    BY <1>0, <2>1, <2>2, <2>3 DEF TableInv
<1>3. ASSUME NEW r \in Requests, ReqWrite(r) PROVE TableInv'
  <2> DEFINE job == req[r]
  <2>1. /\ job.bot \in Bots /\ job.row \in SaleRows /\ SalePays(job.row)
        /\ pending'[job.bot].book = Record(db[job.bot].book, job.row)
        /\ \A b \in Bots \ {job.bot} : pending'[b] = db[b]
        /\ db' = db
    <3>1. /\ job \in Jobs /\ SalePays(job.row) /\ db' = db
          /\ pending'[job.bot] = Flush(db[job.bot], job.old, job.new, job.row)
          /\ \A b \in Bots \ {job.bot} : pending'[b] = db[b]
      BY <1>3, ReqWriteEffect
    <3> HIDE DEF job
    <3> QED
      BY <3>1 DEF Jobs, Flush
  <2>2. LET book == Record(db[job.bot].book, job.row)
        IN  /\ book.usdt <= db[job.bot].book.usdt
            /\ book.short >= db[job.bot].book.short
            /\ book = db[job.bot].book \/ book.rows = db[job.bot].book.rows + 1
    BY <1>0, <2>1, RecordBySale
  <2>3. pending'[job.bot].book.short \in Nat
    BY <2>1 DEF TypeInv, TypeOK, BotRows, Books
  <2> HIDE DEF job
  <2> QED
    BY <1>0, <2>1, <2>2, <2>3 DEF TableInv
<1>4. CASE db' = pending' /\ lock' \notin Requests
  <2>1. \A b \in Bots : /\ pending'[b].book.rows \in Nat
                        /\ pending'[b].book.usdt \in Nat
                        /\ pending'[b].book.short \in Nat
    BY DEF TypeInv, TypeOK, BotRows, Books
  <2> QED
    BY <1>4, <2>1 DEF TableInv
<1>5. CASE NextDay
  <2>1. lock' = lock
    BY <1>5 DEF NextDay
  <2>2. \A b \in Bots : /\ db'[b].book.usdt = db[b].book.usdt
                        /\ pending'[b].book.usdt = pending[b].book.usdt
                        /\ db'[b].book.rows = db[b].book.rows
                        /\ pending'[b].book.rows = pending[b].book.rows
                        /\ db'[b].book.short = db[b].book.short
                        /\ pending'[b].book.short = pending[b].book.short
    BY <1>5, Midnight
  <2> QED
    BY <2>1, <2>2 DEF TableInv
<1>6. CASE PassEnd
  <2>1. CASE lock = "tick"
    BY <1>4, <1>6, <2>1 DEF PassEnd, PassView
  <2>2. CASE lock # "tick"
    BY <1>1, <1>6, <2>2 DEF PassEnd, PassView
  <2> QED
    BY <2>1, <2>2
<1>7. CASE \E r \in Requests : ReqCommit(r)
  BY <1>4, <1>7 DEF ReqCommit
<1>8. CASE Crash
  BY <1>4, <1>8 DEF Crash
<1>9. CASE \/ PassStart \/ TickBlock \/ TickTimeout \/ UNCHANGED vars
           \/ \E b \in Bots : TickRead(b)
           \/ UNCHANGED <<db, req, late, pending, lock>>
  BY <1>1, <1>9 DEF PassStart, TickBlock, TickTimeout, TickRead, vars
<1>10. CASE \E r \in Requests : \/ ReqTimeout(r) \/ ReqExit(r)
                                \/ \E b \in Bots, new \in Views, row \in SaleRows :
                                     ReqRead(r, b, new, row)
  BY <1>1, <1>10 DEF ReqTimeout, ReqExit, ReqRead
<1> QED
  BY <1>2, <1>3, <1>5, <1>6, <1>7, <1>8, <1>9, <1>10, NextCases

\* The portfolio of the bot that is awaited for stays an upper bound: while the
\* pass waits, requests can only have sold.
LEMMA TraderStep ==
  ASSUME TypeInv, TypeInv', LockInv, SaleInv, TableInv, TraderInv, [Next]_vars
  PROVE  TraderInv'
<1> USE LockAssumption
<1>0. /\ \A b \in Bots : /\ db[b].book.rows \in Nat /\ pending[b].book.rows \in Nat
                         /\ db[b].book.usdt \in Nat /\ pending[b].book.usdt \in Nat
      /\ trader.rows \in Nat /\ trader.usdt \in Nat
      /\ phase \in {"await", "blocked"} => cur \in Bots
  BY DEF TypeInv, TypeOK, TurnInv, BotRows, Books
<1>1. CASE phase' \notin {"await", "blocked"}
  BY <1>1 DEF TraderInv
<1>2. ASSUME NEW b \in Bots, TickRead(b) PROVE TraderInv'
  <2>1. /\ trader' = PassView[b].book /\ cur' = b
        /\ PassView' = PassView
    BY <1>2 DEF TickRead, PassView
  <2> QED
    BY <1>0, <2>1 DEF TraderInv, PassView
<1>3. CASE UNCHANGED <<cur, trader, PassView>> /\ phase \in {"await", "blocked"}
  BY <1>3 DEF TraderInv
<1>4. CASE UNCHANGED <<phase, cur, trader, db, pending, lock>>
  BY <1>3, <1>4, <1>1 DEF PassView
<1>5. CASE TickBlock
  BY <1>3, <1>5 DEF TickBlock, PassView
<1>6. ASSUME NEW r \in Requests, ReqWrite(r) PROVE TraderInv'
  <2>1. UNCHANGED <<phase, cur, trader, PassView>>
    BY <1>6, ReqWriteEffect DEF PassView
  <2> QED
    BY <1>1, <1>3, <2>1
<1>7. ASSUME NEW r \in Requests, ReqCommit(r), phase \in {"await", "blocked"}
      PROVE  TraderInv'
  <2>1. /\ lock = r /\ db' = pending /\ lock' = "free"
        /\ UNCHANGED <<phase, cur, trader>>
    BY <1>7 DEF ReqCommit, LockInv
  <2>2. PassView = db /\ PassView' = pending
    BY <2>1 DEF PassView
  <2>3. /\ db[cur].book.rows <= pending[cur].book.rows
        /\ pending[cur].book.rows = db[cur].book.rows
             => pending[cur].book.usdt = db[cur].book.usdt
        /\ pending[cur].book.usdt <= db[cur].book.usdt
    BY <1>0, <1>7, <2>1 DEF TableInv
  <2>4. /\ trader.rows <= db[cur].book.rows
        /\ trader.rows = db[cur].book.rows => trader.usdt = db[cur].book.usdt
        /\ db[cur].book.usdt <= trader.usdt
    BY <1>7, <2>2 DEF TraderInv
  <2>5. /\ trader.rows <= pending[cur].book.rows
        /\ trader.rows = pending[cur].book.rows => trader.usdt = pending[cur].book.usdt
        /\ pending[cur].book.usdt <= trader.usdt
    BY <1>0, <1>7, <2>3, <2>4
  <2> QED
    BY <2>1, <2>2, <2>5 DEF TraderInv
<1>8. CASE NextDay
  <2>1. /\ UNCHANGED <<phase, cur, trader, lock>>
        /\ \A b \in Bots : /\ PassView'[b].book.rows = PassView[b].book.rows
                           /\ PassView'[b].book.usdt = PassView[b].book.usdt
    BY <1>8, Midnight DEF NextDay, PassView
  <2> QED
    BY <1>0, <2>1 DEF TraderInv
<1>9. CASE \/ PassStart \/ TickTimeout \/ PassEnd \/ Crash
           \/ \E status \in Statuses, row \in TradeRows : TickWrite(status, row)
           \/ TurnOver
  BY <1>1, <1>9 DEF PassStart, TickTimeout, PassEnd, Crash, PassOver, TickWrite, TurnOver
<1>10. CASE \/ \E r \in Requests : \/ ReqTimeout(r) \/ ReqExit(r)
                                   \/ \E b \in Bots, new \in Views, row \in SaleRows :
                                        ReqRead(r, b, new, row)
            \/ UNCHANGED vars
  BY <1>4, <1>10 DEF ReqTimeout, ReqExit, ReqRead, vars
<1>11. ASSUME NEW r \in Requests, ReqCommit(r), phase \notin {"await", "blocked"}
       PROVE  TraderInv'
  BY <1>1, <1>11 DEF ReqCommit
<1> QED
  BY <1>2, <1>5, <1>6, <1>7, <1>8, <1>9, <1>10, <1>11, NextCases

\* Nor does the average of what is held change while the pass waits.
LEMMA AverageStep ==
  ASSUME TypeInv, TypeInv', LockInv, SaleInv, TableInv, AverageInv, [Next]_vars
  PROVE  AverageInv'
<1> USE LockAssumption
<1>0. /\ \A b \in Bots : db[b].book.usdt \in Nat /\ pending[b].book.usdt \in Nat
      /\ phase \in {"await", "blocked"} => cur \in Bots
  BY DEF TypeInv, TypeOK, TurnInv, BotRows, Books
<1>1. CASE lock' \notin Requests /\ phase' \notin {"await", "blocked"}
  BY <1>1 DEF AverageInv
<1>2. CASE UNCHANGED <<db, pending, lock>> /\ phase' \notin {"await", "blocked"}
  BY <1>2 DEF AverageInv
<1>3. CASE /\ UNCHANGED <<db, pending, lock, cur, trader>>
           /\ phase' = phase \/ phase = "await"
  BY <1>3 DEF AverageInv, PassView
<1>4. ASSUME NEW b \in Bots, TickRead(b) PROVE AverageInv'
  <2>1. /\ trader' = PassView[b].book /\ cur' = b /\ PassView' = PassView
        /\ UNCHANGED <<db, pending, lock>>
    BY <1>4 DEF TickRead, PassView
  <2> QED
    BY <2>1 DEF AverageInv
<1>5. ASSUME NEW r \in Requests, ReqWrite(r) PROVE AverageInv'
  <2> DEFINE job == req[r]
  <2>1. /\ job \in Jobs /\ SalePays(job.row)
        /\ pending'[job.bot] = Flush(db[job.bot], job.old, job.new, job.row)
        /\ \A b \in Bots \ {job.bot} : pending'[b] = db[b]
        /\ UNCHANGED <<db, phase, cur, trader, PassView>>
    BY <1>5, ReqWriteEffect DEF PassView
  <2> HIDE DEF job
  <2>2. /\ job.bot \in Bots /\ job.row \in SaleRows
        /\ pending'[job.bot].book = Record(db[job.bot].book, job.row)
        /\ db[job.bot].book \in Books
    BY <2>1 DEF Jobs, Flush, TypeInv, TypeOK, BotRows
  <2>3. \/ pending'[job.bot].book.usdt = 0
        \/ pending'[job.bot].book.avg = db[job.bot].book.avg
    BY <2>1, <2>2, RecordBySale
  <2> QED
    BY <2>1, <2>2, <2>3 DEF AverageInv
<1>6. ASSUME NEW r \in Requests, ReqCommit(r), phase \in {"await", "blocked"}
      PROVE  AverageInv'
  <2>1. /\ lock = r /\ db' = pending /\ lock' = "free"
        /\ UNCHANGED <<phase, cur, trader>>
    BY <1>6 DEF ReqCommit, LockInv
  <2>2. PassView = db /\ PassView' = pending
    BY <2>1 DEF PassView
  <2>3. /\ pending[cur].book.usdt = 0 \/ pending[cur].book.avg = db[cur].book.avg
        /\ db[cur].book.usdt = 0 \/ trader.avg = db[cur].book.avg
        /\ pending[cur].book.usdt <= db[cur].book.usdt
    BY <1>0, <1>6, <2>1, <2>2 DEF AverageInv, TableInv
  <2>4. pending[cur].book.usdt = 0 \/ trader.avg = pending[cur].book.avg
    BY <1>0, <1>6, <2>3
  <2> QED
    BY <2>1, <2>2, <2>4 DEF AverageInv
<1>7. CASE NextDay
  <2>1. /\ UNCHANGED <<phase, cur, trader, lock>>
        /\ \A b \in Bots : /\ db'[b].book.avg = db[b].book.avg
                           /\ pending'[b].book.avg = pending[b].book.avg
                           /\ db'[b].book.usdt = db[b].book.usdt
                           /\ pending'[b].book.usdt = pending[b].book.usdt
    BY <1>7, Midnight DEF NextDay
  <2>2. \A b \in Bots : /\ PassView'[b].book.avg = PassView[b].book.avg
                        /\ PassView'[b].book.usdt = PassView[b].book.usdt
    BY <2>1 DEF PassView
  <2> QED
    BY <1>0, <2>1, <2>2 DEF AverageInv
<1>8. CASE \/ PassStart \/ TickTimeout
           \/ TurnOver /\ UNCHANGED <<db, req, late, pending, lock>>
  BY <1>2, <1>8 DEF PassStart, TickTimeout, PassOver, TurnOver
<1>9. CASE PassEnd
  BY <1>1, <1>2, <1>9 DEF PassEnd, PassOver, PassView
<1>10. CASE \/ Crash
            \/ \E status \in Statuses, row \in TradeRows : TickWrite(status, row)
  BY <1>1, <1>10 DEF Crash, PassOver, TickWrite, TurnOver
<1>11. CASE \/ TickBlock \/ UNCHANGED vars
            \/ \E r \in Requests : \/ ReqTimeout(r) \/ ReqExit(r)
                                   \/ \E b \in Bots, new \in Views, row \in SaleRows :
                                        ReqRead(r, b, new, row)
  BY <1>3, <1>11 DEF TickBlock, ReqTimeout, ReqExit, ReqRead, vars
<1>12. ASSUME NEW r \in Requests, ReqCommit(r), phase \notin {"await", "blocked"}
       PROVE  AverageInv'
  BY <1>1, <1>12 DEF ReqCommit
<1> QED
  BY <1>4, <1>5, <1>6, <1>7, <1>8, <1>9, <1>10, <1>11, <1>12, NextCases

LEMMA SellerStep ==
  ASSUME TypeInv, LockInv, TableInv, SellerInv, [Next]_vars
  PROVE  SellerInv'
<1>0. /\ \A b \in Bots : /\ db[b].book.rows \in Nat /\ pending[b].book.rows \in Nat
                         /\ db[b].book.usdt \in Nat /\ pending[b].book.usdt \in Nat
      /\ \A r \in Requests : req[r] \in Jobs \cup {Idle}
  BY DEF TypeInv, TypeOK, BotRows, Books
\* Who still has to write has read no more rows than there are, and the same
\* balance if there are as many.
<1>1. ASSUME \A r \in Requests : req'[r].pc = "read" => req'[r] = req[r],
             \A b \in Bots : /\ db'[b].book.rows \in Nat
                             /\ db[b].book.rows <= db'[b].book.rows
                             /\ db[b].book.rows = db'[b].book.rows
                                  => db[b].book.usdt = db'[b].book.usdt
      PROVE  SellerInv'
  <2> SUFFICES ASSUME NEW r \in Requests, req'[r].pc = "read"
               PROVE  /\ req[r].rows <= db'[req[r].bot].book.rows
                      /\ (/\ req[r].rows = db'[req[r].bot].book.rows
                          /\ req[r].row.side = "SELL")
                           => req[r].row.volume <= db'[req[r].bot].book.usdt
    BY <1>1 DEF SellerInv
  <2>1. req[r].pc = "read" /\ req[r] \in Jobs
    BY <1>0, <1>1 DEF Idle
  <2>2. req[r].bot \in Bots /\ req[r].rows \in Nat
    BY <2>1 DEF Jobs
  <2> QED
    BY <1>0, <1>1, <2>1, <2>2 DEF SellerInv
<1>2. CASE UNCHANGED <<db, req>>
  BY <1>0, <1>1, <1>2
<1>3. CASE PassEnd
  <2>1. \A b \in Bots : db'[b] = pending[b] \/ db'[b] = db[b]
    BY <1>3 DEF PassEnd, PassView
  <2>2. UNCHANGED req
    BY <1>3 DEF PassEnd
  <2> QED
    BY <1>0, <1>1, <2>1, <2>2 DEF TableInv
<1>4. ASSUME NEW r \in Requests, ReqCommit(r) PROVE SellerInv'
  <2>1. \A q \in Requests : req'[q].pc = "read" => req'[q] = req[q]
    BY <1>4 DEF ReqCommit, TypeInv, TypeOK, Idle
  <2>2. db' = pending
    BY <1>4 DEF ReqCommit
  <2> QED
    BY <1>0, <1>1, <2>1, <2>2 DEF TableInv
<1>5. ASSUME NEW r \in Requests, \/ ReqWrite(r) \/ ReqTimeout(r) \/ ReqExit(r)
      PROVE  SellerInv'
  <2>1. \A q \in Requests : req'[q].pc = "read" => req'[q] = req[q]
    BY <1>0, <1>5 DEF ReqWrite, ReqTimeout, ReqExit, TypeInv, TypeOK, Idle, Jobs
  <2>2. db' = db
    BY <1>5 DEF ReqWrite, ReqTimeout, ReqExit
  <2> QED
    BY <1>0, <1>1, <2>1, <2>2
<1>6. ASSUME NEW r \in Requests, NEW b \in Bots, NEW new \in Views,
             NEW row \in SaleRows, ReqKind(b, new, row), ReqRead(r, b, new, row)
      PROVE  SellerInv'
  <2>1. /\ db' = db
        /\ req'[r].bot = b /\ req'[r].row = row /\ req'[r].rows = db[b].book.rows
        /\ \A q \in Requests \ {r} : req'[q] = req[q]
    BY <1>6 DEF ReqRead, TypeInv, TypeOK
  <2>2. db[b].book.rows <= db[b].book.rows
    BY <1>0
  <2> QED
    BY <1>6, <2>1, <2>2 DEF SellerInv, ReqKind
<1>7. CASE NextDay
  <2>1. UNCHANGED req
    BY <1>7 DEF NextDay
  <2>2. \A b \in Bots : /\ db'[b].book.usdt = db[b].book.usdt
                        /\ db'[b].book.rows = db[b].book.rows
    BY <1>7, Midnight
  <2> QED
    BY <1>0, <1>1, <2>1, <2>2
<1>8. CASE Crash
  BY <1>8 DEF Crash, SellerInv, Idle
<1>9. CASE \/ PassStart \/ TickBlock \/ TickTimeout \/ UNCHANGED vars
           \/ \E b \in Bots : TickRead(b)
  BY <1>2, <1>9 DEF PassStart, TickBlock, TickTimeout, TickRead, vars
<1>10. CASE UNCHANGED <<db, req, late>>
  BY <1>2, <1>10
<1> QED
  BY <1>3, <1>4, <1>5, <1>6, <1>7, <1>8, <1>9, <1>10, NextCases

LEMMA HoldingStep ==
  CoreInv /\ HoldingInv /\ [Next]_vars => HoldingInv'
<1> SUFFICES ASSUME CoreInv, HoldingInv, [Next]_vars PROVE HoldingInv'
  OBVIOUS
<1>1. TypeInv /\ LockInv /\ SaleInv /\ TypeInv'
  BY CoreParts, TypeStep DEF MoneyInv
<1> QED
  BY <1>1, TableStep, TraderStep, AverageStep, SellerStep DEF HoldingInv

-------------------------------------------------------------------------------
(* The seventh layer: what the open transaction will change.                *)

\* A row that buys is a purchase at its price, and one that sells is a sale.
LEMMA TradeChange ==
  ASSUME NEW old \in BotRows, NEW new \in BotRows, NEW row \in TradeRows,
         new.book = Record(old.book, row), NEW prices
  PROVE  /\ (/\ row.side = "BUY" /\ row.volume > 0
             /\ row.price \in Asks /\ new.book.krw >= 0)
              => Promise!Purchase(Account(old), Account(new))
         /\ row.side = "SELL" /\ SalePays(row) /\ row.price \in prices
              => Promise!Sale(Account(old), Account(new), prices)
<1>1. old.book \in Books
  BY DEF BotRows
<1>2. ASSUME row.side = "BUY", row.volume > 0, row.price \in Asks,
             new.book.krw >= 0
      PROVE  Promise!Purchase(Account(old), Account(new))
  <2>1. /\ new.book.rows = old.book.rows + 1
        /\ new.book.krw + row.price * (new.book.usdt - old.book.usdt)
             <= old.book.krw
        /\ new.book.usdt > old.book.usdt
        /\ new.book.short = old.book.short
    BY <1>1, <1>2, RecordBought
  <2>2. \E price \in Asks :
          new.book.krw + price * (new.book.usdt - old.book.usdt) <= old.book.krw
    BY <1>2, <2>1
  <2> QED
    BY <1>2, <2>1, <2>2 DEF Account, Promise!Purchase, Asks
<1>3. ASSUME row.side = "SELL", SalePays(row), row.price \in prices
      PROVE  Promise!Sale(Account(old), Account(new), prices)
  <2>1. row \in SaleRows
    BY <1>3 DEF SaleRows
  <2>2. /\ new.book.rows = old.book.rows + 1
        /\ new.book.krw >= old.book.krw
        /\ new.book.usdt \in 0..old.book.usdt
        /\ new.book.short >= old.book.short
        /\ new.book.krw <=
             old.book.krw + row.price * ((old.book.usdt - new.book.usdt)
                                         + (new.book.short - old.book.short))
    BY <1>1, <1>3, <2>1, RecordSold
  <2>3. \E price \in prices :
          new.book.krw <=
             old.book.krw + price * ((old.book.usdt - new.book.usdt)
                                     + (new.book.short - old.book.short))
    BY <1>3, <2>2
  <2>4. new.book.usdt <= old.book.usdt
    BY <1>1, <2>2 DEF Books
  <2> QED
    BY <2>2, <2>3, <2>4 DEF Account, Promise!Sale
<1> QED
  BY <1>2, <1>3

\* A flush leaves each column as it is, or makes it the session's.
LEMMA FlushMerges ==
  ASSUME NEW bot \in BotRows, NEW old, NEW new, NEW row
  PROVE  Promise!Merged(bot.setting, Flush(bot, old, new, row).setting, new.setting)
<1>1. DOMAIN bot.setting = Columns
  BY ColumnNames DEF BotRows, Settings
<1>2. Flush(bot, old, new, row).setting
        = [c \in Columns |-> IF new.setting[c] = old.setting[c]
                             THEN bot.setting[c] ELSE new.setting[c]]
  BY DEF Flush
<1> QED
  BY <1>1, <1>2 DEF Promise!Merged

\* A request's write is one that the promise allows.
LEMMA ReqWriteChange ==
  ASSUME TypeInv, TypeInv', LockInv, SaleInv, JobInv,
         NEW r \in Requests, ReqWrite(r)
  PROVE  RequestChange(db[req[r].bot], pending'[req[r].bot])
<1> DEFINE job == req[r]
           old == db[job.bot]
           new == pending'[job.bot]
<1>1. /\ job \in Jobs /\ SalePays(job.row)
      /\ new = Flush(old, job.old, job.new, job.row)
  BY ReqWriteEffect
<1>2. /\ old \in BotRows /\ new \in BotRows
      /\ job.row \in SaleRows /\ job.row \in TradeRows
  BY <1>1 DEF Jobs, SaleRows, TypeInv, TypeOK
<1>3. old.book \in Books /\ old.setting \in Settings
  BY <1>2 DEF BotRows
<1>4. /\ new.status = IF job.new.status = job.old.status
                      THEN old.status ELSE job.new.status
      /\ new.book = Record(old.book, job.row)
      /\ job.new.setting = job.old.setting => new.setting = old.setting
      /\ Promise!Merged(old.setting, new.setting, job.new.setting)
  <2> HIDE DEF job, old, new
  <2>1. Promise!Merged(old.setting, new.setting, job.new.setting)
    BY <1>1, <1>2, FlushMerges
  <2> QED
    BY <1>1, <1>3, <2>1, SameSetting DEF Flush
<1>5. job.row.side = "NONE" => Account(new) = Account(old)
  BY <1>2, <1>3, <1>4, RecordSums DEF Account
<1>6. job.row.side = "SELL" /\ job.row.price \in SellPrices
        => Promise!Sale(Account(old), Account(new), SellPrices)
  <2> HIDE DEF job, old, new
  <2> QED
    BY <1>1, <1>2, <1>4, TradeChange
<1>7. job.row.side \in {"NONE", "SELL"}
  BY <1>2 DEF SaleRows, TradeRows
<1>8. \/ /\ job.new.setting = job.old.setting
         /\ job.new.status \in {"RUNNING", "ERROR", "STOPPED"}
         /\ job.row.side = "NONE"
      \/ /\ \E p \in Payloads : job.new.setting = Requested(p)
         /\ job.new.status = job.old.status
         /\ job.row.side = "NONE"
      \/ /\ job.new = job.old
         /\ job.row.side = "SELL" => job.row.price \in SellPrices
  BY DEF JobInv, ReqWrite
<1> HIDE DEF job, old, new
<1>9. RequestChange(old, new)
  BY <1>4, <1>5, <1>6, <1>7, <1>8 DEF RequestChange
<1> QED
  BY <1>9 DEF job, old, new

\* A tick's write on a bot that is as committed is one that the promise allows.
LEMMA TickWriteChange ==
  ASSUME TypeInv, TypeInv', Solvent', TraderInv, phase \in {"await", "blocked"},
         lock \in {"free", "tick"}, PassView[cur] = db[cur],
         pending[cur] = db[cur], db[cur].status # "PAUSED_BY_RISK",
         NEW status \in Statuses, NEW row \in TradeRows,
         TickRow(row), TickOutcome(status, row), TickWrite(status, row)
  PROVE  PassChange(db[cur], pending'[cur])
<1> DEFINE old == db[cur]
           new == pending'[cur]
<1>1. /\ cur \in Bots /\ loaded[cur].status = "RUNNING"
      /\ old \in BotRows /\ new \in BotRows /\ trader \in Books
  BY DEF TypeInv, TypeOK, TurnInv
<1>2. /\ new.book = Record(old.book, row)
      /\ new.setting = old.setting
      /\ status # "RUNNING" => new.status = status
      /\ status = "RUNNING" => new.status = old.status
  BY TickWriteEffect
<1>3. old.book \in Books /\ old.book.usdt \in Nat /\ trader.usdt \in Nat
  BY <1>1 DEF BotRows, Books
<1>4. /\ new.status \in {old.status, "PAUSED_BY_RISK", "ERROR"}
      /\ new.status = "PAUSED_BY_RISK" => status # "RUNNING"
  BY <1>1, <1>2 DEF TickOutcome
<1>5. new.book.krw >= 0
  BY <1>1 DEF Solvent
<1>6. old.book.usdt <= trader.usdt
  BY DEF TraderInv
<1>7. row.side \in {"NONE", "BUY", "SELL"}
  BY DEF TradeRows
<1> SUFFICES PassChange(old, new)
  OBVIOUS
<1> HIDE DEF old, new
<1>8. CASE row.side = "NONE"
  BY <1>2, <1>3, <1>4, <1>8, RecordSums DEF PassChange, Account
<1>9. CASE row.side = "BUY"
  <2>1. row.volume > 0 /\ row.price \in Asks
    BY <1>9 DEF TickRow, Affordable, Asks
  <2>2. Promise!Purchase(Account(old), Account(new))
    BY <1>1, <1>2, <1>5, <1>9, <2>1, TradeChange
  <2>3. status = "RUNNING"
    BY <1>1, <1>9 DEF TickOutcome
  <2> QED
    BY <1>2, <1>4, <2>2, <2>3 DEF PassChange
<1>10. CASE row.side = "SELL"
  <2>1. row \in SaleRows /\ SalePays(row) /\ row.price \in Bids
    BY <1>10 DEF TickRow, SaleRows, Bids
  <2>2. Promise!Sale(Account(old), Account(new), {t.bid : t \in Tickers})
    BY <1>1, <1>2, <1>10, <2>1, TradeChange DEF Bids
  <2>3. status # "RUNNING" => row.volume = trader.usdt
    BY <1>1, <1>10 DEF TickOutcome
  <2>4. new.status = "PAUSED_BY_RISK" => new.book.usdt = 0
    BY <1>2, <1>3, <1>4, <1>6, <1>10, <2>1, <2>3, RecordSold
  <2> QED
    BY <1>2, <1>4, <2>2, <2>4 DEF PassChange
<1> QED
  BY <1>7, <1>8, <1>9, <1>10

LEMMA ChangeInit == Init => ChangeInv
  BY LockAssumption DEF Init, ChangeInv, JobInv, Idle

\* An unchanged bot is one the promise allows.
LEMMA NoChange == \A bot : PassChange(bot, bot)
  BY DEF PassChange

LEMMA JobStep == TypeInv /\ JobInv /\ [Next]_vars => JobInv'
<1> SUFFICES ASSUME TypeInv, JobInv, [Next]_vars PROVE JobInv'
  OBVIOUS
<1>0. \A r \in Requests : req[r] \in Jobs \cup {Idle}
  BY DEF TypeInv, TypeOK
<1>1. CASE \A r \in Requests : req'[r].pc # "idle" =>
             /\ req[r].pc # "idle" /\ req'[r].old = req[r].old
             /\ req'[r].new = req[r].new /\ req'[r].row = req[r].row
  BY <1>1 DEF JobInv
<1>2. ASSUME NEW r \in Requests, NEW b \in Bots, NEW new \in Views,
             NEW row \in SaleRows, ReqKind(b, new, row), ReqRead(r, b, new, row)
      PROVE  JobInv'
  <2>1. /\ req'[r].old = View(db[b]) /\ req'[r].new = new /\ req'[r].row = row
        /\ \A q \in Requests \ {r} : req'[q] = req[q]
    BY <1>2 DEF ReqRead, TypeInv, TypeOK
  <2> QED
    BY <1>2, <2>1 DEF JobInv, ReqKind, View
<1>3. ASSUME NEW r \in Requests,
             ReqWrite(r) \/ ReqTimeout(r) \/ ReqExit(r) \/ ReqCommit(r)
      PROVE  JobInv'
  <2>1. req[r] \in Jobs
    BY <1>0, <1>3 DEF ReqWrite, ReqTimeout, ReqExit, ReqCommit, Idle
  <2>2. /\ req'[r] = Idle \/ \E pc : req'[r] = [req[r] EXCEPT !.pc = pc]
        /\ \A q \in Requests \ {r} : req'[q] = req[q]
        /\ req[r].pc # "idle"
    BY <1>3 DEF ReqWrite, ReqTimeout, ReqExit, ReqCommit, TypeInv, TypeOK
  <2>3. \A pc : LET job == [req[r] EXCEPT !.pc = pc]
                IN  /\ job.old = req[r].old /\ job.new = req[r].new
                    /\ job.row = req[r].row
    BY <2>1 DEF Jobs
  <2>4. CASE req'[r] = Idle
    BY <1>1, <2>2, <2>4 DEF Idle
  <2>5. CASE \E pc : req'[r] = [req[r] EXCEPT !.pc = pc]
    <3>1. /\ req'[r].old = req[r].old /\ req'[r].new = req[r].new
          /\ req'[r].row = req[r].row
      BY <2>3, <2>5
    <3> QED
      BY <1>1, <2>2, <3>1
  <2> QED
    BY <2>2, <2>4, <2>5
<1>4. CASE Crash
  BY <1>4 DEF Crash, JobInv, Idle
<1>5. CASE UNCHANGED req
  BY <1>1, <1>5
<1>6. CASE \/ PassStart \/ TickBlock \/ TickTimeout \/ PassEnd \/ NextDay
           \/ UNCHANGED vars \/ \E b \in Bots : TickRead(b)
  BY <1>5, <1>6
     DEF PassStart, TickBlock, TickTimeout, PassEnd, NextDay, TickRead, vars
<1>7. CASE UNCHANGED <<db, req, late>>
  BY <1>5, <1>7
<1> QED
  BY <1>2, <1>3, <1>4, <1>6, <1>7, NextCases

\* The rest of the layer: what is open, and what the pass still has to handle.
OpenInv ==
  /\ lock = "tick" => \A b \in Bots : PassChange(db[b], pending[b])
  /\ \A r \in Requests : lock = r => \A b \in Bots :
       IF b = req[r].bot THEN RequestChange(db[b], pending[b])
                         ELSE pending[b] = db[b]
  /\ \A b \in DOMAIN loaded : /\ lock = "tick" => pending[b] = db[b]
                              /\ db[b].status # "PAUSED_BY_RISK"

LEMMA OpenStep ==
  ASSUME CoreInv, CoreInv', TraderInv, JobInv, OpenInv, [Next]_vars
  PROVE  OpenInv'
<1> USE LockAssumption
<1>0. /\ TypeInv /\ LockInv /\ SaleInv /\ TypeInv' /\ Solvent'
      /\ \A r \in Requests : req[r] \in Jobs \cup {Idle}
      /\ DOMAIN loaded \subseteq Bots
  BY CoreParts DEF CoreInv, MoneyInv, TypeInv, TypeOK
<1>1. CASE /\ UNCHANGED <<db, pending, lock>>
           /\ DOMAIN loaded' \subseteq DOMAIN loaded
           /\ \A r \in Requests : lock = r => req'[r].bot = req[r].bot
  BY <1>1 DEF OpenInv
<1>2. CASE PassStart
  BY <1>0, <1>2 DEF PassStart, ToTick, OpenInv, LockInv
<1>3. CASE \E b \in Bots : TickRead(b)
  BY <1>1, <1>3 DEF TickRead
<1>4. CASE \/ TurnOver /\ UNCHANGED <<db, req, late, pending, lock>>
           \/ TickBlock \/ TickTimeout \/ UNCHANGED vars
  BY <1>1, <1>4 DEF TurnOver, TickBlock, TickTimeout, PassOver, vars
<1>5. ASSUME phase \in {"await", "blocked"}, lock \in {"free", "tick"},
             UNCHANGED <<db, req, late>>,
             NEW status \in Statuses, NEW row \in TradeRows,
             TickRow(row), TickOutcome(status, row), TickWrite(status, row)
      PROVE  OpenInv'
  <2>1. /\ cur \in Bots /\ cur \in DOMAIN loaded
        /\ lock' = "tick" /\ DOMAIN loaded' = DOMAIN loaded \ {cur}
        /\ \A b \in Bots \ {cur} : pending'[b] = pending[b]
    BY <1>0, <1>5, TickWriteEffect DEF TickWrite, TurnOver, TypeInv, TypeOK, TurnInv
  <2>2. \A b \in DOMAIN loaded : /\ pending[b] = db[b]
                                 /\ db[b].status # "PAUSED_BY_RISK"
    BY <1>0, <1>5 DEF OpenInv, LockInv
  <2>3. PassView[cur] = db[cur] /\ pending[cur] = db[cur]
    BY <2>1, <2>2 DEF PassView
  <2>4. PassChange(db[cur], pending'[cur])
    BY <1>0, <1>5, <2>1, <2>2, <2>3, TickWriteChange
  <2>5. \A b \in Bots : PassChange(db[b], pending[b])
    BY <1>0, <1>5, NoChange DEF OpenInv, LockInv
  <2> QED
    BY <1>0, <1>5, <2>1, <2>2, <2>4, <2>5 DEF OpenInv
<1>6. CASE PassEnd
  <2>1. DOMAIN loaded' = {} /\ lock' # "tick" /\ UNCHANGED req
    BY <1>6 DEF PassEnd, PassOver
  <2>2. lock' \in Requests => UNCHANGED <<db, pending, lock>>
    BY <1>6 DEF PassEnd, PassView
  <2> QED
    BY <2>1, <2>2 DEF OpenInv
<1>7. ASSUME NEW r \in Requests, NEW b \in Bots, NEW new \in Views,
             NEW row \in SaleRows, ReqRead(r, b, new, row)
      PROVE  OpenInv'
  <2>1. lock # r /\ \A q \in Requests \ {r} : req'[q] = req[q]
    BY <1>0, <1>7 DEF ReqRead, LockInv, TypeInv, TypeOK
  <2> QED
    BY <1>1, <1>7, <2>1 DEF ReqRead
<1>8. ASSUME NEW r \in Requests, ReqWrite(r) PROVE OpenInv'
  <2>1. /\ lock' = r /\ req[r] \in Jobs /\ UNCHANGED <<db, loaded>>
        /\ req'[r] = [req[r] EXCEPT !.pc = "flushed"]
        /\ \A b \in Bots \ {req[r].bot} : pending'[b] = db[b]
    BY <1>0, <1>8, ReqWriteEffect
  <2>2. req'[r].bot = req[r].bot
    BY <2>1 DEF Jobs
  <2>3. RequestChange(db[req[r].bot], pending'[req[r].bot])
    BY <1>0, <1>8, ReqWriteChange
  <2> QED
    BY <2>1, <2>2, <2>3 DEF OpenInv
<1>9. ASSUME NEW r \in Requests, ReqTimeout(r) PROVE OpenInv'
  <2>1. lock # r /\ \A q \in Requests \ {r} : req'[q] = req[q]
    BY <1>0, <1>9 DEF ReqTimeout, LockInv, TypeInv, TypeOK
  <2> QED
    BY <1>1, <1>9, <2>1 DEF ReqTimeout
<1>10. ASSUME NEW r \in Requests, ReqExit(r) PROVE OpenInv'
  <2>1. \A q \in Requests : req'[q].bot = req[q].bot
    BY <1>0, <1>10 DEF ReqExit, TypeInv, TypeOK, Jobs, Idle
  <2> QED
    BY <1>1, <1>10, <2>1 DEF ReqExit
<1>11. ASSUME NEW r \in Requests, ReqCommit(r) PROVE OpenInv'
  <2>1. /\ lock = r /\ lock' = "free" /\ db' = pending /\ UNCHANGED loaded
    BY <1>0, <1>11 DEF ReqCommit, LockInv
  <2>2. ASSUME NEW b \in DOMAIN loaded
        PROVE  pending[b].status # "PAUSED_BY_RISK"
    <3>1. b \in Bots /\ db[b].status # "PAUSED_BY_RISK"
      BY <1>0, <2>2 DEF OpenInv
    <3>2. RequestChange(db[b], pending[b]) \/ pending[b] = db[b]
      BY <2>1, <3>1 DEF OpenInv
    <3> QED
      BY <3>1, <3>2 DEF RequestChange
  <2> QED
    BY <2>1, <2>2 DEF OpenInv
<1>12. CASE NextDay
  <2>1. UNCHANGED <<lock, loaded, req>>
    BY <1>12 DEF NextDay
  <2>2. \A b \in Bots : /\ db'[b].status = db[b].status
                        /\ pending'[b].status = pending[b].status
                        /\ db'[b].setting = db[b].setting
                        /\ pending'[b].setting = pending[b].setting
                        /\ Account(db'[b]) = Account(db[b])
                        /\ Account(pending'[b]) = Account(pending[b])
                        /\ pending'[b].book.usdt = pending[b].book.usdt
    BY <1>0, <1>12, Midnight DEF Account
  <2>3. \A b \in Bots : pending[b] = db[b] => pending'[b] = db'[b]
    BY <1>12 DEF NextDay
  <2>4. \A b \in Bots : /\ PassChange(db[b], pending[b])
                             => PassChange(db'[b], pending'[b])
                        /\ RequestChange(db[b], pending[b])
                             => RequestChange(db'[b], pending'[b])
    BY <2>2 DEF PassChange, RequestChange
  <2> QED
    BY <1>0, <2>1, <2>2, <2>3, <2>4 DEF OpenInv
<1>13. CASE Crash
  BY <1>13 DEF Crash, PassOver, OpenInv
<1> QED
  BY <1>0, <1>2, <1>3, <1>4, <1>5, <1>6, <1>7, <1>8, <1>9, <1>10, <1>11,
     <1>12, <1>13, NextCases

\* The strengthening that the runs check holds in every instance.
THEOREM Invariance == Spec => []IInv
<1>1. ChangeInv <=> JobInv /\ OpenInv
  BY DEF ChangeInv, OpenInv
<1>2. IInv <=> CoreInv /\ HoldingInv /\ JobInv /\ OpenInv
  BY <1>1 DEF IInv, HoldingInv
<1>3. Init => CoreInv /\ HoldingInv /\ JobInv /\ OpenInv
  BY <1>1, CoreParts, TypeInit, LockInit, MoneyInit, LateInit, MergeInit,
     HoldingInit, ChangeInit
<1>4. CoreInv /\ HoldingInv /\ JobInv /\ OpenInv /\ [Next]_vars
        => (CoreInv /\ HoldingInv /\ JobInv /\ OpenInv)'
  <2> SUFFICES ASSUME CoreInv, HoldingInv, JobInv, OpenInv, [Next]_vars
               PROVE  CoreInv' /\ HoldingInv' /\ JobInv' /\ OpenInv'
    OBVIOUS
  <2>1. CoreInv' /\ TypeInv /\ TraderInv
    BY CoreStep, CoreParts DEF HoldingInv
  <2> QED
    BY <2>1, HoldingStep, JobStep, OpenStep
<1> QED
  BY <1>2, <1>3, <1>4, PTL DEF Spec

-------------------------------------------------------------------------------
(* The average buy price.                                                   *)

\* Every row keeps the average within the prices asked: a buy is at one of them.
LEMMA RecordPriced ==
  ASSUME NEW book \in Books, NEW row \in TradeRows, Priced(book),
         row.side = "BUY" => /\ row.volume > 0
                             /\ \E t \in Tickers : row.price = t.ask
  PROVE  Priced(Record(book, row))
<1> SUFFICES ASSUME Record(book, row).usdt > 0
             PROVE  \E low, high \in Tickers :
                      /\ low.ask <= Record(book, row).avg
                      /\ Record(book, row).avg <= high.ask
  BY DEF Priced
<1>0. /\ book.usdt \in Nat /\ book.avg \in Nat /\ row.price \in Nat
      /\ \A t \in Tickers : t.ask \in Nat
  BY QuoteAssumption DEF Books, TradeRows
<1>1. ASSUME NEW low \in Tickers, NEW high \in Tickers,
             book.usdt > 0 => low.ask <= book.avg /\ book.avg <= high.ask,
             row.side = "BUY" => low.ask <= row.price /\ row.price <= high.ask
      PROVE  low.ask <= Record(book, row).avg /\ Record(book, row).avg <= high.ask
  <2> DEFINE l == low.ask
             h == high.ask
  <2>1. l \in Nat /\ h \in Nat
    BY <1>0
  <2>2. /\ book.usdt > 0 => l <= book.avg /\ book.avg <= h
        /\ row.side = "BUY" => l <= row.price /\ row.price <= h
    BY <1>1
  <2> HIDE DEF l, h
  <2>3. l <= Record(book, row).avg /\ Record(book, row).avg <= h
    BY <2>1, <2>2, RecordAverage
  <2> QED
    BY <2>3 DEF l, h
<1>2. CASE row.side = "BUY"
  <2>1. PICK t \in Tickers : row.price = t.ask
    BY <1>2
  <2>2. CASE book.usdt > 0
    <3>1. PICK low, high \in Tickers : low.ask <= book.avg /\ book.avg <= high.ask
      BY <2>2 DEF Priced
    <3>2. \E least \in {low, t} : least.ask <= book.avg /\ least.ask <= row.price
      BY <1>0, <2>1, <3>1
    <3>3. \E most \in {high, t} : book.avg <= most.ask /\ row.price <= most.ask
      BY <1>0, <2>1, <3>1
    <3> QED
      BY <1>1, <3>2, <3>3
  <2>3. CASE ~(book.usdt > 0)
    BY <1>0, <1>1, <2>1, <2>3
  <2> QED
    BY <2>2, <2>3
<1>3. CASE row.side # "BUY"
  <2>1. book.usdt > 0
    <3>1. CASE row.side = "NONE"
      BY <3>1, RecordSums
    <3>2. CASE row.side = "SELL"
      <4>1. Record(book, row).usdt
              = IF book.usdt - row.volume <= 0 THEN 0 ELSE book.usdt - row.volume
        BY <3>2 DEF Record, ReplaySell, Books
      <4> QED
        BY <1>0, <4>1 DEF TradeRows
    <3> QED
      BY <1>3, <3>1, <3>2 DEF TradeRows
  <2>2. PICK low, high \in Tickers : low.ask <= book.avg /\ book.avg <= high.ask
    BY <2>1 DEF Priced
  <2> QED
    BY <1>1, <1>3, <2>2
<1> QED
  BY <1>2, <1>3

LEMMA PricedStep ==
  ASSUME TypeInv, LockInv, SaleInv, AveragePaid, [Next]_vars
  PROVE  AveragePaid'
<1> USE LockAssumption
<1>0. \A b \in Bots : db[b].book \in Books /\ pending[b].book \in Books
  BY DEF TypeInv, TypeOK, BotRows
<1>1. CASE db' \in {db, pending} /\ pending' \in {db, pending}
  BY <1>1 DEF AveragePaid, Priced
<1>2. ASSUME phase \in {"await", "blocked"}, UNCHANGED <<db, req, late>>,
             NEW status \in Statuses, NEW row \in TradeRows,
             TickRow(row), TickWrite(status, row)
      PROVE  AveragePaid'
  <2>1. /\ pending'[cur].book = Record(pending[cur].book, row)
        /\ \A b \in Bots \ {cur} : pending'[b] = pending[b]
        /\ cur \in Bots /\ db' = db
    BY <1>2, TickWriteEffect DEF TypeInv, TypeOK, TurnInv
  <2>2. Priced(Record(pending[cur].book, row))
    BY <1>0, <1>2, <2>1, RecordPriced DEF AveragePaid, TickRow, Affordable
  <2>3. \A b \in Bots : Priced(db'[b].book) /\ Priced(pending'[b].book)
    BY <2>1, <2>2 DEF AveragePaid
  <2> QED
    BY <2>3 DEF AveragePaid, Priced
<1>3. ASSUME NEW r \in Requests, ReqWrite(r) PROVE AveragePaid'
  <2> DEFINE job == req[r]
  <2>1. /\ job \in Jobs /\ db' = db
        /\ pending'[job.bot] = Flush(db[job.bot], job.old, job.new, job.row)
        /\ \A b \in Bots \ {job.bot} : pending'[b] = db[b]
    BY <1>3, ReqWriteEffect
  <2> HIDE DEF job
  <2>2. /\ job.bot \in Bots /\ job.row \in TradeRows /\ job.row.side # "BUY"
        /\ pending'[job.bot].book = Record(db[job.bot].book, job.row)
    BY <2>1 DEF Jobs, SaleRows, Flush
  <2>3. Priced(Record(db[job.bot].book, job.row))
    BY <1>0, <2>2, RecordPriced DEF AveragePaid
  <2>4. \A b \in Bots : Priced(db'[b].book) /\ Priced(pending'[b].book)
    BY <2>1, <2>2, <2>3 DEF AveragePaid
  <2> QED
    BY <2>4 DEF AveragePaid, Priced
<1>4. CASE NextDay
  <2>1. ASSUME NEW bot \in BotRows, Priced(bot.book)
        PROVE  Priced([bot EXCEPT !.book.today = 0].book)
    <3> DEFINE book == [bot.book EXCEPT !.today = 0]
    <3>1. book.usdt = bot.book.usdt /\ book.avg = bot.book.avg
      BY DEF BotRows, Books
    <3>2. [bot EXCEPT !.book.today = 0].book = book
      BY DEF BotRows
    <3> HIDE DEF book
    <3> QED
      BY <2>1, <3>1, <3>2 DEF Priced
  <2>2. \A b \in Bots : db[b] \in BotRows /\ pending[b] \in BotRows
    BY DEF TypeInv, TypeOK
  <2>3. \A b \in Bots : Priced(db'[b].book) /\ Priced(pending'[b].book)
    BY <1>4, <2>1, <2>2 DEF NextDay, AveragePaid
  <2> QED
    BY <2>3 DEF AveragePaid, Priced
<1>5. CASE PassEnd \/ Crash \/ \E r \in Requests : ReqCommit(r)
  BY <1>1, <1>5 DEF PassEnd, PassView, Crash, ReqCommit
<1>6. CASE \/ PassStart \/ TickBlock \/ TickTimeout \/ UNCHANGED vars
           \/ \E b \in Bots : TickRead(b)
           \/ UNCHANGED <<db, req, late, pending, lock>>
  BY <1>1, <1>6 DEF PassStart, TickBlock, TickTimeout, TickRead, vars
<1>7. CASE \E r \in Requests : \/ ReqTimeout(r) \/ ReqExit(r)
                               \/ \E b \in Bots, new \in Views, row \in SaleRows :
                                    ReqRead(r, b, new, row)
  BY <1>1, <1>7 DEF ReqTimeout, ReqExit, ReqRead
<1> QED
  BY <1>2, <1>3, <1>4, <1>5, <1>6, <1>7, NextCases

\* The average buy price of a position is within the prices USDT was offered at,
\* whatever was sold from it and however stale the seller was, so that the
\* base-price strategy never waits for a price no purchase explains.
THEOREM AverageIsPaid == Spec => []AveragePaid
<1>1. Init => CoreInv /\ AveragePaid
  <2>1. Init => CoreInv
    BY CoreParts, TypeInit, LockInit, MoneyInit, LateInit, MergeInit
  <2>2. Init => AveragePaid
    BY DEF Init, AveragePaid, Priced, EmptyBook
  <2> QED
    BY <2>1, <2>2
<1>2. CoreInv /\ AveragePaid /\ [Next]_vars => (CoreInv /\ AveragePaid)'
  BY CoreStep, CoreParts, PricedStep DEF MoneyInv
<1> QED
  BY <1>1, <1>2, PTL DEF Spec

-------------------------------------------------------------------------------
(* What a step may not do, continued.                                       *)

\* The pass's own write, if it adds a row.
LEMMA PassRow ==
  ASSUME CoreInv, [Next]_vars, NEW b \in Bots, cur = b, lock' = "tick",
         pending'[b].book.rows # pending[b].book.rows
  PROVE  /\ phase \in {"await", "blocked"} /\ lock \in {"free", "tick"}
         /\ \E status \in Statuses, row \in TradeRows :
              /\ TickRow(row) /\ TickOutcome(status, row) /\ row.side # "NONE"
              /\ pending'[b].book = Record(pending[b].book, row)
              /\ status = "RUNNING" => pending'[b].status = pending[b].status
<1>1. TypeInv /\ LockInv
  BY CoreParts
<1>2. /\ TickFail \/ TickAct
      /\ phase \in {"await", "blocked"} /\ lock \in {"free", "tick"}
  BY <1>1, PendingChanges, Midnight
<1>3. PICK status \in Statuses, row \in TradeRows :
        TickRow(row) /\ TickOutcome(status, row) /\ TickWrite(status, row)
  BY <1>1, <1>2, TickWrites
<1>4. /\ pending'[b].book = Record(pending[b].book, row)
      /\ status = "RUNNING" => pending'[b].status = pending[b].status
  BY <1>1, <1>2, <1>3, TickWriteEffect
<1>5. pending[b].book \in Books
  BY <1>1 DEF TypeInv, TypeOK, BotRows
<1>6. row.side # "NONE"
  BY <1>4, <1>5, RecordSums
<1> QED
  BY <1>2, <1>3, <1>4, <1>6

\* A loss cut leaves nothing, whatever was sold by hand while it awaited.
THEOREM LossCutIsWhole == Spec => LossCutSellsAll
<1>1. ASSUME IInv, [Next]_vars, NEW b \in Bots, cur = b, lock' = "tick",
             pending'[b].status = "PAUSED_BY_RISK",
             pending'[b].book.rows > pending[b].book.rows
      PROVE  pending'[b].book.usdt = 0
  <2>1. CoreInv /\ TraderInv /\ ChangeInv /\ TypeInv /\ LockInv
    BY <1>1, CoreParts DEF IInv
  <2>2. /\ pending[b].book \in Books /\ pending[b].book.rows \in Nat
        /\ trader.usdt \in Nat /\ pending[b].book.usdt \in Nat
    BY <2>1 DEF TypeInv, TypeOK, BotRows, Books
  <2>3. /\ phase \in {"await", "blocked"} /\ lock \in {"free", "tick"}
        /\ \E status \in Statuses, row \in TradeRows :
             /\ TickRow(row) /\ TickOutcome(status, row) /\ row.side # "NONE"
             /\ pending'[b].book = Record(pending[b].book, row)
             /\ status = "RUNNING" => pending'[b].status = pending[b].status
    BY <1>1, <2>1, <2>2, PassRow
  <2>4. PICK status \in Statuses, row \in TradeRows :
          /\ TickRow(row) /\ TickOutcome(status, row) /\ row.side # "NONE"
          /\ pending'[b].book = Record(pending[b].book, row)
          /\ status = "RUNNING" => pending'[b].status = pending[b].status
    BY <2>3
  <2>5. /\ PassView[b] = pending[b] /\ pending[b] = db[b]
        /\ db[b].status # "PAUSED_BY_RISK"
        /\ loaded[b].status = "RUNNING"
    BY <1>1, <2>1, <2>3 DEF PassView, LockInv, TypeInv, TurnInv, ChangeInv
  <2>6. row.side = "SELL" /\ row.volume = trader.usdt
    BY <1>1, <2>4, <2>5 DEF TickOutcome
  <2>7. row \in SaleRows /\ SalePays(row) /\ row.volume >= pending[b].book.usdt
    BY <1>1, <2>1, <2>2, <2>3, <2>4, <2>5, <2>6 DEF TickRow, SaleRows, TraderInv
  <2> QED
    BY <2>2, <2>4, <2>6, <2>7, RecordSold
<1>2. IInv /\ [Next]_vars =>
        [\A b \in Bots :
           (/\ cur = b /\ lock' = "tick"
            /\ pending'[b].status = "PAUSED_BY_RISK"
            /\ pending'[b].book.rows > pending[b].book.rows)
             => pending'[b].book.usdt = 0]_vars
  BY <1>1
<1> QED
  BY <1>2, Invariance, PTL DEF Spec, LossCutSellsAll

\* If some of a portfolio is sold, a decision to buy still holds for what is left,
\* and one to sell does if anything is.
LEMMA DecideAgain ==
  ASSUME NEW s, NEW before, NEW now, NEW trade_price, NEW fx,
         before.usdt \in Nat, now.usdt \in Nat, now.usdt <= before.usdt,
         now.usdt = 0 \/ before.avg = now.avg
  PROVE  /\ Decide(s, before, trade_price, fx) = "BUY"
              => Decide(s, now, trade_price, fx) = "BUY"
         /\ Decide(s, before, trade_price, fx) = "SELL" /\ now.usdt > 0
              => Decide(s, now, trade_price, fx) = "SELL"
<1>1. CASE s.strategy_type # "base_price_gap"
  BY <1>1 DEF Decide
<1>2. CASE s.strategy_type = "base_price_gap"
  <2>1. ASSUME Decide(s, before, trade_price, fx) = "BUY"
        PROVE  /\ s.base_price # None /\ before.usdt <= 0
               /\ trade_price <= s.base_price - s.price_gap
    BY <1>2, <2>1 DEF Decide, BasePriceGap
  <2>2. ASSUME Decide(s, before, trade_price, fx) = "SELL"
        PROVE  /\ s.base_price # None
               /\ trade_price >= before.avg + s.price_gap
    BY <1>2, <2>2 DEF Decide, BasePriceGap
  <2> QED
    BY <1>2, <2>1, <2>2 DEF Decide, BasePriceGap
<1> QED
  BY <1>1, <1>2

\* What a tick does with its order is what it would decide, at the same quote and
\* rate, on the trades there are when it writes: sales by hand during its await can
\* only have emptied the position it sells.
LEMMA DecisionStep ==
  ASSUME IInv, [Next]_vars, phase \in {"await", "blocked"}, NEW t \in Tickers,
         NEW fx \in Rates(loaded[cur].setting),
         TickOn(t, fx), ~LossCut(loaded[cur].setting, t.trade),
         pending'[cur].book.rows > pending[cur].book.rows
  PROVE  LET signal == Decide(loaded[cur].setting, pending[cur].book, t.trade, fx)
         IN  \/ /\ signal = "BUY"
                /\ pending'[cur].book.usdt > pending[cur].book.usdt
             \/ /\ signal = "SELL"
                /\ pending'[cur].book.usdt < pending[cur].book.usdt
             \/ pending[cur].book.usdt = 0 /\ pending'[cur].book.usdt = 0
<1> DEFINE b     == cur
           s     == loaded[b].setting
           book  == pending[b].book
           after == pending'[b].book
           limit == RemainingAmount(s)
<1>1. CoreInv /\ TypeInv /\ LockInv /\ TraderInv /\ AverageInv
  BY CoreParts DEF IInv
<1>0. b \in DOMAIN loaded /\ b \in Bots
  BY <1>1 DEF TypeInv, TypeOK, TurnInv
<1>2. book \in Books /\ book.rows \in Nat /\ book.usdt \in Nat
      /\ trader \in Books /\ trader.usdt \in Nat
  BY <1>0, <1>1 DEF TypeInv, TypeOK, BotRows, Books
<1>3. /\ TickFail \/ TickAct
      /\ phase \in {"await", "blocked"} /\ lock \in {"free", "tick"}
  <2>1. lock' = "tick"
    BY DEF TickOn, TickWrite
  <2> QED
    BY <1>0, <1>1, <1>2, <2>1, PendingChanges, Midnight
<1>4. /\ b \in DOMAIN loaded /\ s \in Settings
      /\ s.daily_max_trade_amount \in Int /\ book.today \in Nat
  BY <1>1, <1>2, <1>3 DEF TypeInv, TypeOK, TurnInv, Views, Settings, Books
<1>5. limit \in Int
  BY <1>4 DEF RemainingAmount, TodayAmount
\* What the tick's portfolio has to do with the current one.
<1>6. /\ book.usdt <= trader.usdt
      /\ book.usdt = 0 \/ trader.avg = book.avg
  <2>1. PassView[b] = pending[b]
    BY <1>1, <1>3 DEF PassView, LockInv
  <2> QED
    BY <1>1, <1>3, <2>1 DEF TraderInv, AverageInv
<1>7. \/ TickWrite("ERROR", NoTrade)
      \/ TickWrite("PAUSED_BY_RISK", NoTrade)
      \/ \E signal \in Signals, price \in {t.ask, t.bid} :
           /\ signal = Decide(s, trader, t.trade, fx)
           /\ TickWrite("RUNNING", Execute(s, trader, signal, price, limit))
  <2> DEFINE signal == Decide(s, trader, t.trade, fx)
  <2>1. \/ TickWrite("ERROR", NoTrade)
        \/ TickWrite("PAUSED_BY_RISK", NoTrade)
        \/ /\ signal # "RAISE"
           /\ TickWrite(loaded[b].status,
                        Execute(s, trader, signal, OrderPrice(signal, t), limit))
    BY DEF TickOn
  <2>2. signal # "RAISE" => signal \in Signals
    BY DEF Decide, BasePriceGap, PremiumRebalance, Signals
  <2>3. OrderPrice(signal, t) \in {t.ask, t.bid}
    BY DEF OrderPrice
  <2>4. loaded[b].status = "RUNNING"
    BY <1>0, <1>1 DEF TypeInv, TurnInv
  <2> HIDE DEF signal, s, limit
  <2>5. \/ TickWrite("ERROR", NoTrade)
        \/ TickWrite("PAUSED_BY_RISK", NoTrade)
        \/ \E g \in Signals, price \in {t.ask, t.bid} :
             /\ g = signal
             /\ TickWrite("RUNNING", Execute(s, trader, g, price, limit))
    BY <2>1, <2>2, <2>3, <2>4
  <2> QED
    BY <2>5 DEF signal
<1>8. t.ask \in Nat \ {0} /\ t.bid \in Nat \ {0}
  BY QuoteType
<1> HIDE DEF s, limit
<1>9. /\ Decide(s, trader, t.trade, fx) = "BUY" => Decide(s, book, t.trade, fx) = "BUY"
      /\ Decide(s, trader, t.trade, fx) = "SELL" /\ book.usdt > 0
           => Decide(s, book, t.trade, fx) = "SELL"
  <2> HIDE DEF book
  <2> QED
    BY <1>2, <1>6, DecideAgain, ZenonT(30)
<1>10. PICK signal \in Signals, price \in {t.ask, t.bid} :
         /\ signal = Decide(s, trader, t.trade, fx)
         /\ TickWrite("RUNNING", Execute(s, trader, signal, price, limit))
  <2>1. ASSUME NEW status \in {"ERROR", "PAUSED_BY_RISK"}
        PROVE  ~TickWrite(status, NoTrade)
    <3>1. NoTrade \in TradeRows /\ status \in Statuses
      BY DEF NoTrade, TradeRows, Statuses
    <3>2. Record(book, NoTrade) = book
      BY DEF Record, NoTrade
    <3> QED
      BY <1>0, <1>1, <1>2, <1>3, <3>1, <3>2, TickWriteEffect
  <2> QED
    BY <1>7, <2>1
<1> DEFINE row == Execute(s, trader, signal, price, limit)
<1>11. /\ row \in TradeRows
       /\ \/ row = NoTrade
          \/ signal = "BUY" /\ row.side = "BUY" /\ row.volume > 0
          \/ signal = "SELL" /\ row \in SaleRows /\ SalePays(row) /\ row.volume > 0
  BY <1>2, <1>4, <1>5, <1>8, ExecuteRow DEF Affordable
<1>12. after = Record(book, row)
  BY <1>1, <1>3, <1>10, <1>11, TickWriteEffect DEF Statuses
<1> HIDE DEF row
<1>13. row.side \in {"BUY", "SELL"}
  BY <1>2, <1>11, <1>12, RecordSums DEF TradeRows
<1>14. CASE signal = "BUY" /\ row.side = "BUY" /\ row.volume > 0
  <2>1. after.usdt > book.usdt
    BY <1>2, <1>11, <1>12, <1>14, RecordBought
  <2>2. Decide(s, book, t.trade, fx) = "BUY"
    BY <1>9, <1>10, <1>14
  <2> QED
    BY <2>1, <2>2 DEF s
<1>15. CASE signal = "SELL" /\ row \in SaleRows /\ SalePays(row) /\ row.volume > 0
  <2>1. /\ after.usdt \in 0..book.usdt
        /\ book.usdt > 0 => after.usdt < book.usdt
    <3>1. row.side = "SELL"
      BY <1>13, <1>15 DEF SaleRows
    <3> QED
      BY <1>2, <1>12, <1>15, <3>1, RecordSold
  <2>2. book.usdt > 0 => Decide(s, book, t.trade, fx) = "SELL"
    BY <1>9, <1>10, <1>15
  <2>3. book.usdt = 0 => after.usdt = 0
    BY <2>1
  <2> QED
    BY <1>2, <2>1, <2>2, <2>3 DEF s
<1>16. row # NoTrade
  BY <1>13 DEF NoTrade
<1> QED
  BY <1>11, <1>14, <1>15, <1>16

\* The strategy's decision is never one that the trades there are when its order is
\* written would not justify, though the quotes were awaited in between.
THEOREM DecisionsHold == Spec => DecisionHolds
<1>1. IInv /\ [Next]_vars =>
        [(phase \in {"await", "blocked"}) =>
           LET s     == loaded[cur].setting
               book  == pending[cur].book
               after == pending'[cur].book
           IN  \A t \in Tickers, usd_krw_rate \in Rates(s) :
                 (/\ TickOn(t, usd_krw_rate)
                  /\ ~LossCut(s, t.trade)
                  /\ after.rows > book.rows)
                   => LET signal == Decide(s, book, t.trade, usd_krw_rate)
                      IN  \/ signal = "BUY" /\ after.usdt > book.usdt
                          \/ signal = "SELL" /\ after.usdt < book.usdt
                          \/ book.usdt = 0 /\ after.usdt = 0]_vars
  BY DecisionStep
<1> QED
  BY <1>1, Invariance, PTL DEF Spec, DecisionHolds

\* The replay finds a sale of more than is held only if its writer had missed a
\* row that was written before: the oversold trades come from stale reads alone.
THEOREM OversoldOnlyWhenStale == Spec => OversoldOnlyIfStale
<1>1. ASSUME IInv, [Next]_vars, NEW b \in Bots,
             pending'[b].book.short > pending[b].book.short
      PROVE  \/ /\ lock' = "tick" /\ cur = b
                /\ trader.rows < pending[b].book.rows
             \/ \E r \in Requests : /\ lock' = r /\ req[r].bot = b
                                    /\ req[r].rows < pending[b].book.rows
  <2>1. /\ CoreInv /\ TableInv /\ TraderInv /\ SellerInv
        /\ TypeInv /\ LockInv /\ SaleInv
    BY <1>1, CoreParts DEF IInv, MoneyInv
  <2>2. /\ pending[b].book \in Books
        /\ db[b].book.short \in Nat /\ pending[b].book.short \in Nat
        /\ db[b].book.usdt \in Nat /\ pending[b].book.usdt \in Nat
        /\ db[b].book.rows \in Nat /\ pending[b].book.rows \in Nat
        /\ trader.rows \in Nat /\ trader.usdt \in Nat
    BY <2>1 DEF TypeInv, TypeOK, BotRows, Books
  <2>3. ASSUME phase \in {"await", "blocked"}, lock \in {"free", "tick"},
               NEW status \in Statuses, NEW row \in TradeRows,
               TickRow(row), TickWrite(status, row)
        PROVE  lock' = "tick" /\ cur = b /\ trader.rows < pending[b].book.rows
    <3>1. /\ pending'[cur].book = Record(pending[cur].book, row)
          /\ \A a \in Bots \ {cur} : pending'[a] = pending[a]
          /\ lock' = "tick"
      BY <2>1, <2>3, TickWriteEffect DEF TickWrite
    <3>2. cur = b
      BY <1>1, <2>2, <3>1
    <3>3. row.side = "SELL"
      BY <1>1, <2>2, <2>3, <3>1, <3>2, RecordSums, RecordBought
         DEF TickRow, Affordable, TradeRows
    <3>4. row \in SaleRows /\ SalePays(row) /\ row.volume <= trader.usdt
      BY <2>3, <3>3 DEF TickRow, SaleRows
    <3>5. ~(row.volume <= pending[b].book.usdt)
      BY <1>1, <2>2, <3>1, <3>2, <3>3, <3>4, RecordSold
    <3>6. PassView[b] = pending[b]
      BY <2>1, <2>3 DEF PassView, LockInv
    <3> QED
      BY <2>1, <2>2, <2>3, <3>1, <3>2, <3>4, <3>5, <3>6 DEF TraderInv
  <2>4. ASSUME NEW r \in Requests, ReqWrite(r)
        PROVE  lock' = r /\ req[r].bot = b /\ req[r].rows < pending[b].book.rows
    <3>1. /\ req[r] \in Jobs /\ pending = db /\ lock' = r /\ SalePays(req[r].row)
          /\ pending'[req[r].bot] =
               Flush(db[req[r].bot], req[r].old, req[r].new, req[r].row)
          /\ \A a \in Bots \ {req[r].bot} : pending'[a] = db[a]
      BY <2>1, <2>4, ReqWriteEffect
    <3>2. req[r].bot = b /\ req[r].row \in SaleRows /\ req[r].row \in TradeRows
      BY <1>1, <2>2, <3>1 DEF Jobs, SaleRows
    <3>3. pending'[b].book = Record(pending[b].book, req[r].row)
      BY <3>1, <3>2 DEF Flush
    <3>4. req[r].row.side = "SELL"
      BY <1>1, <2>2, <3>2, <3>3, RecordSums DEF SaleRows, TradeRows
    <3>5. ~(req[r].row.volume <= pending[b].book.usdt)
      BY <1>1, <2>2, <3>1, <3>2, <3>3, <3>4, RecordSold
    <3>6. req[r].rows <= db[b].book.rows /\ req[r].rows # db[b].book.rows
      BY <2>1, <2>4, <3>1, <3>2, <3>4, <3>5 DEF SellerInv, ReqWrite
    <3> QED
      BY <2>2, <3>1, <3>2, <3>6 DEF Jobs
  <2>5. ~Crash
    BY <1>1, <2>1, <2>2 DEF Crash, TableInv
  <2>6. ~NextDay
    BY <1>1, <2>1, <2>2, Midnight
  <2>7. ~UNCHANGED pending
    BY <1>1, <2>2
  <2>8. ~\/ PassStart \/ TickBlock \/ TickTimeout \/ PassEnd \/ UNCHANGED vars
         \/ \E a \in Bots : TickRead(a)
         \/ UNCHANGED <<db, req, late, pending, lock>>
         \/ \E r \in Requests : \/ ReqTimeout(r) \/ ReqExit(r) \/ ReqCommit(r)
                                \/ \E a \in Bots, new \in Views, row \in SaleRows :
                                     ReqRead(r, a, new, row)
    BY <2>7 DEF PassStart, TickBlock, TickTimeout, PassEnd, vars, TickRead,
                ReqTimeout, ReqExit, ReqCommit, ReqRead
  <2> QED
    BY <1>1, <2>1, <2>3, <2>4, <2>5, <2>6, <2>8, NextCases
<1>2. IInv /\ [Next]_vars =>
        [\A b \in Bots :
           pending'[b].book.short > pending[b].book.short
             => \/ /\ lock' = "tick" /\ cur = b
                   /\ trader.rows < pending[b].book.rows
                \/ \E r \in Requests : /\ lock' = r /\ req[r].bot = b
                                       /\ req[r].rows < pending[b].book.rows]_vars
  BY <1>1
<1> QED
  BY <1>2, Invariance, PTL DEF Spec, OversoldOnlyIfStale

-------------------------------------------------------------------------------
(* The refinement.                                                          *)

\* The bots as the promise sees them: unchanged, or changed by one commit.
LEMMA PromiseStutters ==
  ASSUME \A b \in Bots : /\ db'[b].status = db[b].status
                         /\ db'[b].setting = db[b].setting
                         /\ Account(db'[b]) = Account(db[b])
                         /\ late'[b] = 0 <=> late[b] = 0
  PROVE  UNCHANGED Promise!vars
<1>1. [b \in Bots |-> db'[b].status] = [b \in Bots |-> db[b].status]
  OBVIOUS
<1>2. [b \in Bots |-> db'[b].setting] = [b \in Bots |-> db[b].setting]
  OBVIOUS
<1>3. [b \in Bots |-> Account(db'[b])] = [b \in Bots |-> Account(db[b])]
  OBVIOUS
<1>4. {b \in Bots : late'[b] = 0} = {b \in Bots : late[b] = 0}
  OBVIOUS
<1> QED
  BY <1>1, <1>2, <1>3, <1>4 DEF Promise!vars

\* A request's commit is its operation.
LEMMA CommitImplements ==
  ASSUME TypeInv, LockInv, LateInv, OpenInv, NEW r \in Requests, ReqCommit(r)
  PROVE  [Promise!Next]_(Promise!vars)
<1> DEFINE status  == [b \in Bots |-> db[b].status]
           setting == [b \in Bots |-> db[b].setting]
           account == [b \in Bots |-> Account(db[b])]
           grace   == {b \in Bots : late[b] = 0}
           status1  == [b \in Bots |-> db'[b].status]
           setting1 == [b \in Bots |-> db'[b].setting]
           account1 == [b \in Bots |-> Account(db'[b])]
           grace1   == {b \in Bots : late'[b] = 0}
<1>1. /\ lock = r /\ db' = pending
      /\ late' = [b \in Bots |-> IF pending[b].status = "RUNNING" THEN 0 ELSE late[b]]
  BY DEF ReqCommit, LockInv
<1>2. PICK b0 \in Bots : req[r].bot = b0
  BY DEF ReqCommit, TypeInv, TypeOK, Jobs, Idle
<1>3. /\ RequestChange(db[b0], db'[b0])
      /\ \A b \in Bots \ {b0} : db'[b] = db[b]
  BY <1>1, <1>2 DEF OpenInv
<1>4. \A b \in Bots : db[b].status = "RUNNING" => late[b] = 0
  BY DEF LateInv
<1>5. \A b \in Bots : /\ b # b0 \/ db'[b].status = db[b].status
                           => (late'[b] = 0 <=> late[b] = 0)
                      /\ db'[b].status = "RUNNING" => late'[b] = 0
                      /\ db'[b].status # "RUNNING" => late'[b] = late[b]
  BY <1>1, <1>3, <1>4
<1>6. CASE db'[b0].setting = db[b0].setting /\ Account(db'[b0]) = Account(db[b0])
  <2>1. setting1 = setting /\ account1 = account
    BY <1>3, <1>6
  <2>2. status1 = [status EXCEPT ![b0] = db'[b0].status]
    BY <1>2, <1>3
  <2>3. CASE db'[b0].status = db[b0].status
    BY <1>3, <1>5, <1>6, <2>3, PromiseStutters
  <2>4. CASE db'[b0].status = "RUNNING"
    <3>1. grace1 = grace \cup {b0}
      BY <1>2, <1>5, <2>4
    <3>2. Promise!Start(b0)
      BY <2>1, <2>2, <2>4, <3>1 DEF Promise!Start
    <3> QED
      BY <1>2, <3>2 DEF Promise!Next
  <2>5. CASE db'[b0].status \in {"ERROR", "STOPPED"}
    <3>1. grace1 = grace
      BY <1>5, <2>5
    <3>2. Promise!Start(b0) \/ Promise!Stop(b0)
      BY <2>1, <2>2, <2>5, <3>1 DEF Promise!Start, Promise!Stop
    <3> QED
      BY <1>2, <3>2 DEF Promise!Next
  <2>6. db'[b0].status \in {db[b0].status, "RUNNING", "ERROR", "STOPPED"}
    BY <1>3 DEF RequestChange
  <2> QED
    BY <2>3, <2>4, <2>5, <2>6
<1>7. CASE db'[b0].status = db[b0].status
  <2>1. status1 = status /\ grace1 = grace
    BY <1>3, <1>5, <1>7
  <2>2. CASE /\ Account(db'[b0]) = Account(db[b0])
             /\ \E p \in Payloads :
                  Promise!Merged(db[b0].setting, db'[b0].setting, Requested(p))
    <3>1. account1 = account
      BY <1>3, <2>2
    <3>2. setting1 = [setting EXCEPT ![b0] = setting1[b0]]
      BY <1>2, <1>3
    <3>3. \E s \in {Requested(p) : p \in Payloads} :
            Promise!Merged(setting[b0], setting1[b0], s)
      BY <1>2, <2>2
    <3>4. Promise!Save(b0)
      BY <2>1, <3>1, <3>2, <3>3 DEF Promise!Save
    <3> QED
      BY <1>2, <3>4 DEF Promise!Next
  <2>3. CASE /\ db'[b0].setting = db[b0].setting
             /\ Promise!Sale(Account(db[b0]), Account(db'[b0]), SellPrices)
    <3>1. setting1 = setting
      BY <1>3, <2>3
    <3>2. /\ account1 = [account EXCEPT ![b0] = account1[b0]]
          /\ account[b0] = Account(db[b0]) /\ account1[b0] = Account(db'[b0])
      BY <1>2, <1>3
    <3>3. Promise!Sell(b0)
      BY <2>1, <2>3, <3>1, <3>2 DEF Promise!Sell
    <3> QED
      BY <1>2, <3>3 DEF Promise!Next
  <2>4. \/ /\ db'[b0].setting = db[b0].setting
           /\ Account(db'[b0]) = Account(db[b0])
        \/ /\ Account(db'[b0]) = Account(db[b0])
           /\ \E p \in Payloads :
                Promise!Merged(db[b0].setting, db'[b0].setting, Requested(p))
        \/ /\ db'[b0].setting = db[b0].setting
           /\ Promise!Sale(Account(db[b0]), Account(db'[b0]), SellPrices)
    BY <1>3 DEF RequestChange
  <2> QED
    BY <1>6, <2>2, <2>3, <2>4
<1> QED
  BY <1>3, <1>6, <1>7 DEF RequestChange

\* A pass's commit is a pass: it trades on the bots that run, and once on one
\* that has left RUNNING.
LEMMA PassImplements ==
  ASSUME TypeInv, LateInv, OpenInv, PassEnd, lock = "tick"
  PROVE  Promise!Pass
<1> DEFINE status  == [b \in Bots |-> db[b].status]
           setting == [b \in Bots |-> db[b].setting]
           account == [b \in Bots |-> Account(db[b])]
           grace   == {b \in Bots : late[b] = 0}
           status1  == [b \in Bots |-> db'[b].status]
           setting1 == [b \in Bots |-> db'[b].setting]
           account1 == [b \in Bots |-> Account(db'[b])]
           grace1   == {b \in Bots : late'[b] = 0}
<1>1. /\ db' = pending
      /\ \A b \in Bots : late'[b] = LateRows(b)
      /\ \A b \in Bots : PassChange(db[b], db'[b])
  BY DEF PassEnd, PassView, OpenInv
<1>2. \A b \in Bots : /\ late[b] \in Nat
                      /\ db[b].book.rows \in Nat /\ db'[b].book.rows \in Nat
  BY <1>1 DEF TypeInv, TypeOK, BotRows, Books
<1>3. \A b \in Bots : late[b] = 0 \/ /\ db[b].status # "RUNNING"
                                     /\ db'[b].book.rows = db[b].book.rows
  BY <1>1 DEF LateInv
<1>4. setting1 = setting
  BY <1>1 DEF PassChange
<1>5. ASSUME NEW b \in Bots
      PROVE  /\ status1[b] \in {status[b], "PAUSED_BY_RISK", "ERROR"}
             /\ \/ account1[b] = account[b]
                \/ /\ status[b] = "RUNNING" \/ b \in grace
                   /\ \/ Promise!Purchase(account[b], account1[b])
                      \/ Promise!Sale(account[b], account1[b], Bids)
                   /\ status1[b] = "PAUSED_BY_RISK" => account1[b].usdt = 0
             /\ account1[b] = account[b] <=> db'[b].book.rows = db[b].book.rows
             /\ db'[b].book.rows >= db[b].book.rows
  <2>1. /\ account[b] = Account(db[b]) /\ account1[b] = Account(db'[b])
        /\ status[b] = db[b].status /\ status1[b] = db'[b].status
        /\ account[b].rows = db[b].book.rows
        /\ account1[b].rows = db'[b].book.rows
        /\ account1[b].usdt = db'[b].book.usdt
    BY DEF Account
  <2>2. PassChange(db[b], db'[b])
    BY <1>1
  <2>3. Promise!Purchase(account[b], account1[b])
          \/ Promise!Sale(account[b], account1[b], Bids)
          => db'[b].book.rows = db[b].book.rows + 1
    BY <2>1 DEF Promise!Purchase, Promise!Sale
  <2>4. b \in grace \/ db'[b].book.rows = db[b].book.rows
    BY <1>3
  <2> HIDE DEF account, account1, status, status1, grace
  <2> QED
    BY <1>2, <2>1, <2>2, <2>3, <2>4 DEF PassChange, Bids
<1>6. grace1 = {b \in grace : status[b] = "RUNNING" \/ account1[b] = account[b]}
  <2>1. ASSUME NEW b \in Bots
        PROVE  late'[b] = 0 <=> /\ late[b] = 0
                                /\ db[b].status = "RUNNING" \/ account1[b] = account[b]
    <3>1. /\ db'[b].status = "RUNNING" => db[b].status = "RUNNING"
          /\ db[b].status = "RUNNING" => late[b] = 0
      BY <1>1, <1>3 DEF PassChange
    <3>2. /\ late'[b] = LateRows(b) /\ pending = db'
          /\ db'[b].book.rows > db[b].book.rows <=> account1[b] # account[b]
      BY <1>1, <1>2, <1>5
    <3> HIDE DEF account, account1
    <3> QED
      BY <1>2, <3>1, <3>2 DEF LateRows
  <2>2. \A b \in Bots : status[b] = db[b].status
    OBVIOUS
  <2> HIDE DEF account, account1, status
  <2> QED
    BY <2>1, <2>2
<1>7. /\ status1 = [b \in Bots |-> status1[b]]
      /\ account1 = [b \in Bots |-> account1[b]]
  OBVIOUS
<1> QED
  BY <1>4, <1>5, <1>6, <1>7 DEF Promise!Pass, Promise!Handled, Bids

\* For the users, the service with its sessions, awaits, threads and stale reads
\* is the atomic one of Lifecycle.
THEOREM Refines == Spec => KeepsPromise
<1>1. Init => Promise!Init
  BY DEF Init, Promise!Init, Account, EmptyBook
<1>2. ASSUME IInv, [Next]_vars
      PROVE  [Promise!Next]_(Promise!vars)
  <2>1. TypeInv /\ LockInv /\ LateInv /\ OpenInv
    BY <1>2, CoreParts DEF IInv, ChangeInv, OpenInv
  <2>2. CASE UNCHANGED <<db, late>>
    BY <2>2, PromiseStutters
  <2>3. CASE NextDay
    <3>1. \A b \in Bots : /\ db'[b].status = db[b].status
                          /\ db'[b].setting = db[b].setting
                          /\ Account(db'[b]) = Account(db[b])
      BY <2>1, <2>3, Midnight DEF Account
    <3>2. UNCHANGED late
      BY <2>3 DEF NextDay
    <3> QED
      BY <3>1, <3>2, PromiseStutters
  <2>4. CASE PassEnd
    <3>1. CASE lock = "tick"
      BY <2>1, <2>4, <3>1, PassImplements DEF Promise!Next
    <3>2. CASE lock # "tick"
      <4>1. /\ db' = db
            /\ \A b \in Bots : late'[b] = late[b]
        BY <2>4, <3>2 DEF PassEnd, PassView
      <4> QED
        BY <4>1, PromiseStutters
    <3> QED
      BY <3>1, <3>2
  <2>5. CASE \E r \in Requests : ReqCommit(r)
    BY <2>1, <2>5, CommitImplements
  <2>6. CASE \/ PassStart \/ TickBlock \/ TickTimeout \/ Crash \/ UNCHANGED vars
             \/ \E b \in Bots : TickRead(b)
             \/ UNCHANGED <<db, req, late>>
             \/ \E r \in Requests : \/ ReqWrite(r) \/ ReqTimeout(r) \/ ReqExit(r)
                                    \/ \E b \in Bots, new \in Views, row \in SaleRows :
                                         ReqRead(r, b, new, row)
    BY <2>2, <2>6 DEF PassStart, TickBlock, TickTimeout, Crash, vars, TickRead,
                      ReqWrite, ReqTimeout, ReqExit, ReqRead
  <2> QED
    BY <1>2, <2>1, <2>3, <2>4, <2>5, <2>6, NextCases
<1> QED
  BY <1>1, <1>2, Invariance, PTL DEF Spec, KeepsPromise, Promise!Spec

-------------------------------------------------------------------------------
(* What the promise comes to.                                               *)

\* A purchase at p or more adds nothing to what an account is worth at p.
LEMMA PurchaseWorth ==
  ASSUME NEW before, NEW after, NEW p \in Nat, Flat(p),
         before.krw \in Int, before.usdt \in Nat,
         after.krw \in Int, after.usdt \in Nat,
         Promise!Purchase(before, after)
  PROVE  /\ after.krw + p * after.usdt <= before.krw + p * before.usdt
         /\ after.short = before.short
<1>1. PICK price \in Asks :
        after.krw + price * (after.usdt - before.usdt) <= before.krw
  BY DEF Promise!Purchase, Asks
<1>2. price \in Nat /\ p <= price
  BY QuoteType DEF Flat, Asks
<1> DEFINE bought == after.usdt - before.usdt
<1>3. bought \in Nat /\ after.usdt = before.usdt + bought
      /\ after.short = before.short
  BY DEF Promise!Purchase
<1> HIDE DEF bought
<1>4. p * bought <= price * bought
  BY <1>2, <1>3
<1>5. p * after.usdt = p * before.usdt + p * bought
  BY <1>3
<1>6. after.krw + price * bought <= before.krw
  BY <1>1 DEF bought
<1>7. /\ p * bought \in Int /\ price * bought \in Int
      /\ p * before.usdt \in Int
  BY <1>2, <1>3
<1> QED
  BY <1>3, <1>4, <1>5, <1>6, <1>7

\* A sale at p or less adds nothing but what was not held.
LEMMA SaleWorth ==
  ASSUME NEW before, NEW after, NEW p \in Nat, NEW prices \in SUBSET Nat,
         \A price \in prices : price <= p,
         before.krw \in Int, before.usdt \in Nat, before.short \in Nat,
         after.krw \in Int, after.usdt \in Nat, after.short \in Nat,
         Promise!Sale(before, after, prices)
  PROVE  after.krw + p * after.usdt + p * before.short
           <= before.krw + p * before.usdt + p * after.short
<1> DEFINE sold  == before.usdt - after.usdt
           extra == after.short - before.short
<1>1. PICK price \in prices : after.krw <= before.krw + price * (sold + extra)
  BY DEF Promise!Sale
<1>2. price \in Nat /\ price <= p
  OBVIOUS
<1>3. /\ sold \in Nat /\ before.usdt = after.usdt + sold
      /\ extra \in Nat /\ after.short = before.short + extra
  BY DEF Promise!Sale
<1> HIDE DEF sold, extra
<1>4. price * (sold + extra) <= p * (sold + extra)
  BY <1>2, <1>3
<1>5. p * (sold + extra) = p * sold + p * extra
  BY <1>3
<1>6. /\ p * before.usdt = p * after.usdt + p * sold
      /\ p * after.short = p * before.short + p * extra
  BY <1>3
<1>7. /\ p * sold \in Int /\ p * extra \in Int /\ price * (sold + extra) \in Int
      /\ p * after.usdt \in Int /\ p * before.short \in Int
  BY <1>2, <1>3
<1> QED
  BY <1>1, <1>4, <1>5, <1>6, <1>7

\* What a step of the promise does to one account.
LEMMA AccountStep ==
  ASSUME [Promise!Next]_(Promise!vars), NEW b \in Bots
  PROVE  \/ Account(db'[b]) = Account(db[b])
         \/ Promise!Purchase(Account(db[b]), Account(db'[b]))
         \/ Promise!Sale(Account(db[b]), Account(db'[b]), Bids)
         \/ Promise!Sale(Account(db[b]), Account(db'[b]), SellPrices)
<1> DEFINE account  == [a \in Bots |-> Account(db[a])]
           account1 == [a \in Bots |-> Account(db'[a])]
<1>1. account[b] = Account(db[b]) /\ account1[b] = Account(db'[b])
  OBVIOUS
<1>2. CASE account1 = account
  BY <1>1, <1>2
<1>3. ASSUME NEW a \in Bots, account1 = [account EXCEPT ![a] = account1[a]],
             Promise!Sale(account[a], account1[a], SellPrices)
      PROVE  \/ account1[b] = account[b]
             \/ Promise!Sale(account[b], account1[b], SellPrices)
  BY <1>3
<1>4. CASE UNCHANGED Promise!vars
  BY <1>2, <1>4 DEF Promise!vars
<1>5. CASE \E a \in Bots : Promise!Start(a) \/ Promise!Stop(a) \/ Promise!Save(a)
  BY <1>2, <1>5 DEF Promise!Start, Promise!Stop, Promise!Save
<1>6. CASE \E a \in Bots : Promise!Sell(a)
  BY <1>1, <1>3, <1>6 DEF Promise!Sell
<1>7. CASE Promise!Pass
  BY <1>1, <1>7 DEF Promise!Pass, Promise!Handled, Bids
<1> QED
  BY <1>4, <1>5, <1>6, <1>7 DEF Promise!Next

\* No interleaving makes money: what an account gains beyond the movement of the
\* prices is what stale sales sold without its being held, and nothing else.
THEOREM MoneyIsNotFree == Spec => []NoFreeMoney
<1>1. Init => NoFreeMoney
  <2> SUFFICES ASSUME Init, NEW b \in Bots, NEW p \in SellPrices \cup Asks
               PROVE  db[b].book.krw + p * db[b].book.usdt
                        <= InitialBalance + p * db[b].book.short
    BY DEF NoFreeMoney, Asks
  <2>1. p \in Nat
    BY QuoteType, SaleAssumption DEF Asks
  <2>2. db[b].book = EmptyBook
    BY DEF Init
  <2> QED
    BY <2>1, <2>2, BalanceAssumption DEF EmptyBook
<1>2. ASSUME TypeOK, TypeOK', NoFreeMoney, [Promise!Next]_(Promise!vars)
      PROVE  NoFreeMoney'
  <2> SUFFICES ASSUME NEW b \in Bots, NEW p \in SellPrices \cup Asks, Flat(p)
               PROVE  db'[b].book.krw + p * db'[b].book.usdt
                        <= InitialBalance + p * db'[b].book.short
    BY DEF NoFreeMoney, Flat, Asks
  <2>0. p \in Nat
    BY QuoteType, SaleAssumption DEF Asks
  <2> DEFINE before == Account(db[b])
             after  == Account(db'[b])
  <2>1. /\ before.krw = db[b].book.krw /\ before.usdt = db[b].book.usdt
        /\ before.short = db[b].book.short
        /\ after.krw = db'[b].book.krw /\ after.usdt = db'[b].book.usdt
        /\ after.short = db'[b].book.short
    BY DEF Account
  <2>2. /\ before.krw \in Int /\ before.usdt \in Nat /\ before.short \in Nat
        /\ after.krw \in Int /\ after.usdt \in Nat /\ after.short \in Nat
    BY <1>2, <2>1 DEF TypeOK, BotRows, Books
  <2>3. before.krw + p * before.usdt <= InitialBalance + p * before.short
    BY <1>2, <2>1 DEF NoFreeMoney, Asks
  <2>4. \/ after = before \/ Promise!Purchase(before, after)
        \/ Promise!Sale(before, after, Bids)
        \/ Promise!Sale(before, after, SellPrices)
    BY <1>2, AccountStep
  <2> HIDE DEF before, after
  <2>5. /\ Bids \in SUBSET Nat /\ SellPrices \in SUBSET Nat
        /\ \A price \in Bids : price <= p
        /\ \A price \in SellPrices : price <= p
    BY QuoteType, SaleAssumption DEF Flat, Bids
  <2>6. /\ p * before.usdt \in Int /\ p * before.short \in Int
        /\ p * after.usdt \in Int /\ p * after.short \in Int
        /\ InitialBalance \in Int
    BY <2>0, <2>2, BalanceAssumption
  <2>7. CASE Promise!Purchase(before, after)
    <3>1. /\ after.krw + p * after.usdt <= before.krw + p * before.usdt
          /\ after.short = before.short
      BY <2>0, <2>2, <2>7, PurchaseWorth
    <3>2. after.krw + p * after.usdt <= InitialBalance + p * after.short
      BY <2>0, <2>2, <2>3, <2>6, <3>1
    <3> QED
      BY <2>1, <3>2
  <2>8. CASE Promise!Sale(before, after, Bids) \/ Promise!Sale(before, after, SellPrices)
    <3>1. after.krw + p * after.usdt + p * before.short
            <= before.krw + p * before.usdt + p * after.short
      <4>1. CASE Promise!Sale(before, after, Bids)
        BY <2>0, <2>2, <2>5, <4>1, SaleWorth
      <4>2. CASE Promise!Sale(before, after, SellPrices)
        BY <2>0, <2>2, <2>5, <4>2, SaleWorth
      <4> QED
        BY <2>8, <4>1, <4>2
    <3> QED
      BY <2>1, <2>2, <2>3, <2>6, <3>1
  <2> QED
    BY <2>1, <2>3, <2>4, <2>7, <2>8
<1> QED
  BY <1>1, <1>2, Refines, TypeCorrect, PTL DEF KeepsPromise, Promise!Spec, Spec
===============================================================================
