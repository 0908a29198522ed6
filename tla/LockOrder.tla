------------------------------ MODULE LockOrder ------------------------------
(***************************************************************************)
(* Transactions that take row locks through the lock-order tracker         *)
(* (createLockOrderTracker, admitLock), claim queue rows                   *)
(* (claimRowsSkipLocked) and read the database clock (createDbClock,       *)
(* lockTaken, lockedRow).  A process is one handle of withTx: the WeakMaps *)
(* of the tracker and of the clock are keyed by it, and a retry of the     *)
(* call is another handle.                                                 *)
(*                                                                         *)
(* External: the server's row locks, the order in which one client runs    *)
(* the statements it was given, and the body of a lock helper, which is    *)
(* the consumer's and follows docs/code/lib-postgres.md: an unconditional  *)
(* helper records what was admitted before its statement, a try-lock when  *)
(* a row came back, and both report the row to lockedRow.                  *)
(***************************************************************************)
EXTENDS Integers

CONSTANTS
  Txs,
  Modes, DefaultMode,   \* spec.orders, spec.defaultMode
  CheckDefault,         \* rankCheckDefault, which configure sets once, at start
  Orders,               \* the names of the ranks of each mode, lowest first
  Helpers, Places,      \* spec.helpers: the name a helper takes in a mode, or NoName
  NoName,
  Rows, HelperOf,       \* the helper that locks a row; NoName: a row of a queue
  Clocked,              \* the transactions that may bind a clock
  Careless,             \* those that may run helpers at once
  Unchecked,            \* those that may switch the check off
  MaxTime               \* bound on the server's clock

\* lockOrderPlan throws for a spec that would leave the order silently off.
ValidPlan ==
  /\ DefaultMode \in Modes
  /\ \A m \in Modes : \A i, j \in DOMAIN Orders[m] : Orders[m][i] = Orders[m][j] => i = j
  /\ \A h \in Helpers, m \in Modes :
       Places[h][m] # NoName => \E i \in DOMAIN Orders[m] : Orders[m][i] = Places[h][m]
  /\ \A h \in Helpers : \E m \in Modes : Places[h][m] # NoName

ASSUME LockAssumption ==
  /\ \A m \in Modes : DOMAIN Orders[m] \subseteq Nat \ {0}
  /\ HelperOf \in [Rows -> Helpers \cup {NoName}]
  /\ NoName \notin Helpers
  /\ CheckDefault \in {"on", "off"}
  /\ MaxTime \in Nat
ASSUME PlanAssumption == ValidPlan

\* order.ranks.get(helper): 0 for a helper that has no place in the mode.
RankOf(m, h) ==
  IF Places[h][m] = NoName THEN 0
  ELSE CHOOSE i \in DOMAIN Orders[m] : Orders[m][i] = Places[h][m]

VARIABLES
  mode, check,   \* ITrackerState.order and .rankCheck ("unset": no state yet)
  rank,          \* .rank: the highest recorded, 0 when none
  clock,         \* createDbClock: "none", "read" or "write"
  locked,        \* IClockSlot.locked
  pending,       \* .pending: "none", "running", "done" or "failed"
  instant,       \* .instant, or None
  running,       \* the statement the server is working on for the transaction
  queued,        \* one more statement, sent before the first was answered
  lock,          \* the rows each transaction has locked
  now,           \* the server's clock
  freed,         \* when a transaction that held x last ended
  ended,         \* the transactions that are over
  floor,         \* history, for Clocked: freed of the first locked row, at that moment
  loose          \* history: the transaction left the discipline of the tracker

tracker == <<mode, check, rank>>
slot == <<clock, locked, pending, instant>>
lockServer == <<running, queued, lock, now, freed, ended>>
lockVars == <<tracker, slot, lockServer, floor, loose>>

None == -1
Idle == [kind |-> "idle"]
ClockCall == [kind |-> "clock"]
LockCalls == [kind : {"lock", "try", "claim"}, row : Rows, rank : Nat]
Statements == LockCalls \cup {Idle, ClockCall}

LockTypeOK ==
  /\ mode \in [Txs -> Modes]
  /\ check \in [Txs -> {"unset", "on", "off"}]
  /\ rank \in [Txs -> Nat]
  /\ clock \in [Txs -> {"none", "read", "write"}]
  /\ locked \in [Txs -> BOOLEAN]
  /\ pending \in [Txs -> {"none", "running", "done", "failed"}]
  /\ instant \in [Txs -> Nat \cup {None}]
  /\ running \in [Txs -> Statements]
  /\ queued \in [Txs -> Statements]
  /\ lock \in [Txs -> SUBSET Rows]
  /\ now \in 0..MaxTime
  /\ freed \in [Rows -> 0..MaxTime]
  /\ ended \subseteq Txs
  /\ floor \in [Txs -> 0..MaxTime]
  /\ loose \in [Txs -> BOOLEAN]

LockInit ==
  /\ mode = [t \in Txs |-> DefaultMode]
  /\ check = [t \in Txs |-> "unset"]
  /\ rank = [t \in Txs |-> 0]
  /\ clock = [t \in Txs |-> "none"]
  /\ locked = [t \in Txs |-> FALSE]
  /\ pending = [t \in Txs |-> "none"]
  /\ instant = [t \in Txs |-> None]
  /\ running = [t \in Txs |-> Idle]
  /\ queued = [t \in Txs |-> Idle]
  /\ lock = [t \in Txs |-> {}]
  /\ now = 0
  /\ freed = [x \in Rows |-> 0]
  /\ ended = {}
  /\ floor = [t \in Txs |-> 0]
  /\ loose = [t \in Txs |-> FALSE]

----------------------------------------------------------------------------
(* The tracker                                                             *)

Max2(a, b) == IF a >= b THEN a ELSE b

\* stateOf: a transaction that is new to the tracker starts with its default.
CheckOf(t) == IF check[t] = "unset" THEN CheckDefault ELSE check[t]

Switch(t) == IF t \in Unchecked THEN {"on", "off"} ELSE {"on"}

\* Mutant: the mode may change after the first lock.
TrackAnyTime(t) ==
  \E m \in Modes, on \in Switch(t) :
    /\ mode' = [mode EXCEPT ![t] = m]
    /\ check' = [check EXCEPT ![t] = on]
    /\ loose' = [loose EXCEPT ![t] = @ \/ on = "off" \/ running[t] # Idle]
    /\ UNCHANGED <<rank, slot, lockServer, floor>>

\* track throws TRACKER_STARTED once a lock is recorded.
Track(t) ==
  /\ rank[t] = 0
  /\ \E m \in Modes, on \in Switch(t) :
       /\ mode' = [mode EXCEPT ![t] = m]
       /\ check' = [check EXCEPT ![t] = on]
       /\ loose' = [loose EXCEPT ![t] = @ \/ on = "off" \/ running[t] # Idle]
  /\ UNCHANGED <<rank, slot, lockServer, floor>>

\* Mutant: a lower rank is not refused.
AdmitsAnyRank(t, h) == CheckOf(t) = "off" \/ RankOf(mode[t], h) # 0

\* admit: with the check on, a helper outside the order of the mode
\* (MODE_REQUIRED, NOT_IN_MODE_ORDER) or below the recorded rank
\* (RANK_INVERSION) throws, and its statement is never sent.
Admits(t, h) ==
  CheckOf(t) = "on" =>
    /\ RankOf(mode[t], h) # 0
    /\ RankOf(mode[t], h) >= rank[t]

\* record: no admission (rank 0) records nothing; the highest rank wins.
Record(t, r) == rank' = [rank EXCEPT ![t] = Max2(@, r)]

MaySend(t) == running[t] = Idle \/ (t \in Careless /\ queued[t] = Idle)

\* A statement is sent on the client of the transaction: it waits for the one
\* before it.
Send(t, c) ==
  IF running[t] = Idle
  THEN running' = [running EXCEPT ![t] = c] /\ UNCHANGED queued
  ELSE queued' = [queued EXCEPT ![t] = c] /\ UNCHANGED running

\* A helper is called: admit, record unless it is a try-lock, and the statement.
\* A helper called while another is on its way leaves the discipline.
Lock(t, x, kind) ==
  LET h == HelperOf[x]
      r == RankOf(mode[t], h)
  IN /\ h # NoName
     /\ kind \in {"lock", "try"}
     /\ MaySend(t)
     /\ Admits(t, h)
     /\ check' = [check EXCEPT ![t] = CheckOf(t)]
     /\ IF kind = "lock" THEN Record(t, r) ELSE UNCHANGED rank
     /\ Send(t, [kind |-> kind, row |-> x, rank |-> r])
     /\ loose' = [loose EXCEPT ![t] = @ \/ CheckOf(t) = "off" \/ running[t] # Idle]
     /\ UNCHANGED <<mode, slot, lock, now, freed, ended, floor>>

\* claimRowsSkipLocked takes no rank and is not admitted by anything.
Claim(t, x) ==
  /\ HelperOf[x] = NoName
  /\ MaySend(t)
  /\ Send(t, [kind |-> "claim", row |-> x, rank |-> 0])
  /\ loose' = [loose EXCEPT ![t] = @ \/ running[t] # Idle]
  /\ UNCHANGED <<tracker, slot, lock, now, freed, ended, floor>>

----------------------------------------------------------------------------
(* The clock                                                               *)

\* createDbClock throws ALREADY_BOUND for a second clock.
Bind(t) ==
  /\ t \in Clocked
  /\ clock[t] = "none"
  /\ \E kind \in {"read", "write"} : clock' = [clock EXCEPT ![t] = kind]
  /\ UNCHANGED <<tracker, locked, pending, instant, lockServer, floor, loose>>

\* Mutant: a write transaction may read the time at once.
MayReadAtOnce(t) == clock[t] # "none"

\* read() rejects with WRITE_BEFORE_LOCK before the first lock of a write.
MayRead(t) == clock[t] = "read" \/ (clock[t] = "write" /\ locked[t])

\* Mutant: every read() sends its own statement.
NeedsEveryTime(t) == TRUE

\* slot.pending ??= fetchInstant(): one statement, also when it has failed.
Needs(t) == pending[t] = "none"

Read(t) ==
  /\ MayRead(t)
  /\ Needs(t)
  /\ MaySend(t)
  /\ pending' = [pending EXCEPT ![t] = "running"]
  /\ Send(t, ClockCall)
  /\ loose' = [loose EXCEPT ![t] = @ \/ running[t] # Idle]
  /\ UNCHANGED <<tracker, clock, locked, instant, lock, now, freed, ended, floor>>

\* The next statement of the client; last is what the answer makes it send.
Advance(t, last) ==
  IF queued[t] = Idle
  THEN running' = [running EXCEPT ![t] = last] /\ UNCHANGED queued
  ELSE /\ running' = [running EXCEPT ![t] = queued[t]]
       /\ queued' = [queued EXCEPT ![t] = last]

ReadAnswered(t) ==
  /\ running[t] = ClockCall
  /\ instant' = [instant EXCEPT ![t] = now]
  /\ pending' = [pending EXCEPT ![t] = "done"]
  /\ Advance(t, Idle)
  /\ UNCHANGED <<tracker, clock, locked, lock, now, freed, ended, floor, loose>>

\* The statement fails, or answers something that is no instant: the failure
\* is kept in slot.pending.
ReadFails(t) ==
  /\ running[t] = ClockCall
  /\ pending' = [pending EXCEPT ![t] = "failed"]
  /\ Advance(t, Idle)
  /\ UNCHANGED <<tracker, clock, locked, instant, lock, now, freed, ended, floor, loose>>

----------------------------------------------------------------------------
(* The server's answer to a lock statement                                 *)

\* SELECT ... FOR UPDATE waits for whoever has the row.
Blocks(u, t) == u # t /\ running[t] \in LockCalls /\ running[t].row \in lock[u]
Free(t) == \A u \in Txs : ~Blocks(u, t)

\* lockTaken: the slot is marked and a bound clock reads now, unless it has.
LockTaken(t) ==
  /\ locked' = [locked EXCEPT ![t] = TRUE]
  /\ IF clock[t] # "none" /\ Needs(t)
     THEN /\ pending' = [pending EXCEPT ![t] = "running"]
          /\ Advance(t, ClockCall)
     ELSE /\ UNCHANGED pending
          /\ Advance(t, Idle)

\* The row comes back locked, and the helper goes on: a try-lock records its
\* rank, and lockedRow tells the clock.
Granted(t) ==
  LET c == running[t]
  IN /\ c \in LockCalls
     /\ Free(t)
     /\ lock' = [lock EXCEPT ![t] = @ \cup {c.row}]
     /\ IF c.kind = "try" THEN Record(t, c.rank) ELSE UNCHANGED rank
     /\ LockTaken(t)
     /\ floor' = [floor EXCEPT ![t] = IF locked[t] \/ t \notin Clocked THEN @ ELSE freed[c.row]]
     /\ UNCHANGED <<mode, check, clock, instant, now, freed, ended, loose>>

\* No row: there is none, or SKIP LOCKED passed over it.  lockedRow does nothing.
NoRow(t) ==
  /\ running[t] \in LockCalls
  /\ running[t].kind = "lock" => Free(t)
  /\ Advance(t, Idle)
  /\ UNCHANGED <<tracker, slot, lock, now, freed, ended, floor, loose>>

----------------------------------------------------------------------------
(* The end of a transaction, by COMMIT when all is answered or by ROLLBACK *)
(* at any time (a failure, a deadlock found by the server).  Nothing of    *)
(* the handle is read again: its state is put back to save states.         *)

End(t) ==
  /\ ended' = ended \cup {t}
  /\ freed' = [x \in Rows |-> IF x \in lock[t] THEN now ELSE freed[x]]
  /\ lock' = [lock EXCEPT ![t] = {}]
  /\ mode' = [mode EXCEPT ![t] = DefaultMode]
  /\ check' = [check EXCEPT ![t] = "unset"]
  /\ rank' = [rank EXCEPT ![t] = 0]
  /\ clock' = [clock EXCEPT ![t] = "none"]
  /\ locked' = [locked EXCEPT ![t] = FALSE]
  /\ pending' = [pending EXCEPT ![t] = "none"]
  /\ instant' = [instant EXCEPT ![t] = None]
  /\ running' = [running EXCEPT ![t] = Idle]
  /\ queued' = [queued EXCEPT ![t] = Idle]
  /\ floor' = [floor EXCEPT ![t] = 0]
  /\ loose' = [loose EXCEPT ![t] = FALSE]
  /\ UNCHANGED now

Tick ==
  /\ now < MaxTime
  /\ now' = now + 1
  /\ UNCHANGED <<tracker, slot, running, queued, lock, freed, ended, floor, loose>>

LockNext ==
  \/ Tick
  \/ \E t \in Txs \ ended :
       \/ Track(t)
       \/ \E x \in Rows, kind \in {"lock", "try"} : Lock(t, x, kind)
       \/ \E x \in Rows : Claim(t, x)
       \/ Bind(t)
       \/ Read(t)
       \/ ReadAnswered(t)
       \/ ReadFails(t)
       \/ Granted(t)
       \/ NoRow(t)
       \/ End(t)

LockSpec == LockInit /\ [][LockNext]_lockVars

----------------------------------------------------------------------------
(* Properties                                                              *)

\* t is stuck at an unconditional lock statement because of a lock of u.
WaitsFor(t, u) == running[t] # Idle /\ running[t].kind = "lock" /\ Blocks(u, t)

\* createLockOrderTracker.mts:11: "So that two requests can never wait for each
\* other, a transaction takes its locks in the order of its mode".  Among
\* transactions of one mode that keep to the discipline (check on throughout,
\* one helper at a time), nobody waits for a row of a higher rank than the row
\* its blocker waits for.  So a circle of waits stays within one rank: the
\* tracker leaves open only the circles among the rows of one rank.
WaitsNeverDescend ==
  \A t, u \in Txs :
    /\ ~loose[t] /\ ~loose[u] /\ mode[t] = mode[u]
    /\ WaitsFor(t, u)
    /\ running[u] # Idle /\ running[u].kind = "lock"
    => running[t].rank <= running[u].rank

\* createDbClock.mts:20: the instant of a write transaction is not before the
\* end of any transaction that held, earlier, the row it locked first.
InstantAfterFirstLock ==
  \A t \in Txs : clock[t] = "write" /\ instant[t] # None => locked[t] /\ instant[t] >= floor[t]

\* "every comparison in one request uses one instant": it never changes while
\* the transaction lasts, however many helpers and callers read the clock.
OneInstant ==
  [][\A t \in Txs : instant[t] # None /\ instant'[t] # instant[t] => clock'[t] = "none"]_lockVars

\* What the proofs need.  A transaction that keeps to the discipline holds
\* nothing above its recorded rank, and what it waits for is that rank.
RankOk(t) ==
  /\ check[t] = "off" => loose[t]
  /\ ~loose[t] =>
       /\ queued[t] = Idle
       /\ \A x \in Rows : x \in lock[t] /\ HelperOf[x] # NoName =>
            0 < RankOf(mode[t], HelperOf[x]) /\ RankOf(mode[t], HelperOf[x]) <= rank[t]
       /\ running[t] \in LockCalls =>
            /\ running[t].kind = "claim" <=> HelperOf[running[t].row] = NoName
            /\ running[t].kind # "claim" =>
                 /\ running[t].rank = RankOf(mode[t], HelperOf[running[t].row])
                 /\ running[t].rank > 0
                 /\ running[t].kind = "lock" => running[t].rank = rank[t]

RankInv == \A t \in Txs : RankOk(t)

\* A write clock is read only once its first lock is there.
ClockOk(t) ==
  /\ floor[t] <= now
  /\ running[t] = ClockCall \/ queued[t] = ClockCall => pending[t] = "running"
  /\ running[t] = ClockCall => queued[t] # ClockCall
  /\ pending[t] # "none" => clock[t] # "none"
  /\ pending[t] # "none" /\ clock[t] = "write" => locked[t]
  /\ instant[t] # None => pending[t] = "done" /\ instant[t] <= now
  /\ clock[t] = "write" /\ instant[t] # None => instant[t] >= floor[t]

ClockInv ==
  /\ \A x \in Rows : freed[x] <= now
  /\ \A t \in Txs : ClockOk(t)

LockIInv ==
  /\ LockTypeOK
  /\ RankInv
  /\ ClockInv
============================================================================
