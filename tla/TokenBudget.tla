---------------------------- MODULE TokenBudget ----------------------------
(***************************************************************************)
(* The platform-token budget of one user: RateLimiter's reserve, commit    *)
(* and release (services/rate_limit.py), as the generation boundary        *)
(* (services/llm_execution.py) calls them around one provider call each.   *)
(*                                                                         *)
(* A step is what one transaction does between two points where it can     *)
(* wait: the advisory lock of (user, day) and the row lock of a            *)
(* reservation.  now() is the start of the transaction, so each remembers  *)
(* its day and which reservations had expired when it began.  The amounts  *)
(* are small numbers; one entitlement period holds all Days.               *)
(***************************************************************************)
EXTENDS Integers, FiniteSets, FiniteSetsExt

CONSTANTS
  Calls,     \* generation ids, which are also the reservation ids
  NoCall,    \* an advisory lock nobody holds
  Est,       \* Est[c]: accounting.platform_token_reservation
  Actuals,   \* the token counts a provider may report
  Limit,     \* entitlements.platform_token_limit_monthly
  LastDay,   \* bound: the days of the period are 1..LastDay
  TTL,       \* the reservation's ttl, in ticks
  MaxTicks,  \* bound: ticks that pass
  DbFails    \* whether the database may fail under a transaction

ASSUME BudgetAssumption ==
  /\ NoCall \notin Calls /\ IsFiniteSet(Calls)
  /\ Est \in [Calls -> Nat \ {0}]
  /\ Actuals \subseteq Nat
  /\ Limit \in Nat /\ MaxTicks \in Nat
  /\ LastDay \in Nat \ {0} /\ TTL \in Nat \ {0}
  /\ DbFails \in BOOLEAN

Days == 1..LastDay

VARIABLES
  today,   \* the UTC date
  ticks,   \* history: ticks so far
  usage,   \* usage[d]: the row of token_budget_daily_usage
  resv,    \* resv[c]: the row of token_budget_reservations, or NoRow
  charge,  \* charge[c]: the row of token_budget_charges, or NoCharge
  lock,    \* lock[d]: who holds the advisory lock of day d
  call     \* call[c]: the generation and its transaction in progress

vars == <<today, ticks, usage, resv, charge, lock, call>>

-----------------------------------------------------------------------------

NoRow == [day |-> 0, amount |-> 0, ttl |-> 0]
NoCharge == [day |-> 0, tokens |-> 0]

\* A transaction runs from StartReserve or StartSettle to the commit.
Reserving == {"reserving", "expiring", "deciding"}
Settling  == {"settling", "holding", "charging"}
Ended     == {"done", "denied", "crashed"}
Phases    == {"new", "reserved", "dispatched"} \cup Reserving \cup Settling \cup Ended

\* day and expired: the date, and the expired reservations, at the start of the
\* transaction; seen: the usage a reserve read; commits and tokens: what a
\* settlement is for; found: whether it holds its reservation's row.
Call == [pc: Phases, day: Days \cup {0}, expired: SUBSET Calls, seen: Nat,
         commits: BOOLEAN, tokens: Nat, found: BOOLEAN]

NewCall == [pc |-> "new", day |-> 0, expired |-> {}, seen |-> 0,
            commits |-> FALSE, tokens |-> 0, found |-> FALSE]

TypeOK ==
  /\ today \in Days
  /\ ticks \in 0..MaxTicks
  /\ usage \in [Days -> [spent: Nat, reserved: Nat]]
  /\ resv \in [Calls -> [day: Days \cup {0}, amount: Nat, ttl: 0..TTL]]
  /\ charge \in [Calls -> [day: Days \cup {0}, tokens: Nat]]
  /\ lock \in [Days -> Calls \cup {NoCall}]
  /\ call \in [Calls -> Call]

Init ==
  /\ today = 1
  /\ ticks = 0
  /\ usage = [d \in Days |-> [spent |-> 0, reserved |-> 0]]
  /\ resv = [c \in Calls |-> NoRow]
  /\ charge = [c \in Calls |-> NoCharge]
  /\ lock = [d \in Days |-> NoCall]
  /\ call = [c \in Calls |-> NewCall]

\* SUM(f)
Total(f, S) == MapThenSumSet(LAMBDA x : f[x], S)

Amount(S) == Total([c \in Calls |-> resv[c].amount], S)

\* What the rows of usage count against the quota, day by day.
Used == [d \in Days |-> usage[d].spent + usage[d].reserved]

\* GREATEST(n - m, 0)
Minus(n, m) == IF n > m THEN n - m ELSE 0

Expired == {e \in Calls : resv[e] # NoRow /\ resv[e].ttl = 0}

\* The rows the DELETE of _expire_reservations takes in c's transaction.
Gone(c, d) == {e \in call[c].expired : resv[e] # NoRow /\ resv[e].day = d}

\* Mutant of Unexpired: expired rows go, their amounts stay.
UnexpiredLeaking(c, d) == usage[d].reserved

\* What _load_budget_totals_for_update leaves reserved on day d.
Unexpired(c, d) == Minus(usage[d].reserved, Amount(Gone(c, d)))

\* A settlement that found its reservation holds the row until it commits.
HoldsRow(e) == call[e].pc \in {"holding", "charging"} /\ call[e].found

\* The day whose lock the transaction of c needs or holds.
LockDay(c) == IF call[c].found THEN resv[c].day ELSE call[c].day

Goto(c, pc) == call' = [call EXCEPT ![c].pc = pc]

\* The transaction ends, one way or another, and its locks with it.
EndsAt(c, pc) ==
  /\ call' = [call EXCEPT ![c] = [NewCall EXCEPT !.pc = pc]]
  /\ lock' = [d \in Days |-> IF lock[d] = c THEN NoCall ELSE lock[d]]

Begin(c, pc, commits, tokens) ==
  call' = [call EXCEPT ![c] =
    [NewCall EXCEPT !.pc = pc, !.day = today, !.expired = Expired,
                    !.commits = commits, !.tokens = tokens]]

-----------------------------------------------------------------------------
(* reserve_token_budget *)

StartReserve(c) ==
  /\ call[c].pc = "new"
  /\ Begin(c, "reserving", FALSE, 0)
  /\ UNCHANGED <<today, ticks, usage, resv, charge, lock>>

\* pg_advisory_xact_lock, by a reserve or by a settlement.
TakeLock(c) ==
  /\ \/ call[c].pc = "reserving" /\ Goto(c, "expiring")
     \/ call[c].pc = "holding" /\ Goto(c, "charging")
  /\ lock[LockDay(c)] = NoCall
  /\ lock' = [lock EXCEPT ![LockDay(c)] = c]
  /\ UNCHANGED <<today, ticks, usage, resv, charge>>

\* Whom the DELETE of c waits for.
RowsHeldAgainst(c) == {e \in Gone(c, LockDay(c)) \ {c} : HoldsRow(e)}

\* The expired rows are deleted, not yet committed, and the period's usage is
\* read: other days as committed, this day without the expired amount.
ReadUsage(c) ==
  LET d == call[c].day
      others == Total(Used, Days \ {d})
  IN
  /\ call[c].pc = "expiring"
  /\ RowsHeldAgainst(c) = {}
  /\ call' = [call EXCEPT ![c].pc = "deciding",
                          ![c].seen = others + usage[d].spent + Unexpired(c, d)]
  /\ UNCHANGED <<today, ticks, usage, resv, charge, lock>>

\* Mutant of Fits: the test of check_token_budget, without the estimate.
FitsUsage(c) == call[c].seen < Limit

\* next_total <= monthly_limit
Fits(c) == call[c].seen + Est[c] <= Limit

\* The expired rows go, the new one and its amount are inserted, committed.
ReserveWrites(c) ==
  LET d == call[c].day IN
  /\ resv' = [e \in Calls |->
       IF e = c THEN [day |-> d, amount |-> Est[c], ttl |-> TTL]
       ELSE IF e \in Gone(c, d) THEN NoRow ELSE resv[e]]
  /\ usage' = [usage EXCEPT ![d].reserved = Unexpired(c, d) + Est[c]]

\* An id is fresh (start_call allocates it), so the existing row the code looks
\* for is never there.  When the commit's answer is lost the caller sees
\* E_RATE_LIMITER_UNAVAILABLE and never settles what it reserved.
Admit(c) ==
  /\ call[c].pc = "deciding"
  /\ Fits(c)
  /\ ReserveWrites(c)
  /\ EndsAt(c, "reserved") \/ (DbFails /\ EndsAt(c, "denied"))
  /\ UNCHANGED <<today, ticks, charge>>

\* E_TOKEN_BUDGET_EXCEEDED: a rollback, the expiry included.
Deny(c) ==
  /\ call[c].pc = "deciding"
  /\ ~ Fits(c)
  /\ EndsAt(c, "denied")
  /\ UNCHANGED <<today, ticks, usage, resv, charge>>

-----------------------------------------------------------------------------
(* The provider call, and its settlement *)

Dispatch(c) ==
  /\ call[c].pc = "reserved"
  /\ Goto(c, "dispatched")
  /\ UNCHANGED <<today, ticks, usage, resv, charge, lock>>

\* _settle_success, _settle_defect: release when nothing was dispatched or it is
\* confirmed not billable, commit what was reported, or else the reservation.
StartSettle(c) ==
  /\ \/ call[c].pc \in {"reserved", "dispatched"} /\ Begin(c, "settling", FALSE, 0)
     \/ call[c].pc = "dispatched" /\ \E n \in Actuals \cup {Est[c]} : Begin(c, "settling", TRUE, n)
  /\ UNCHANGED <<today, ticks, usage, resv, charge, lock>>

\* SELECT ... FOR UPDATE of the reservation, which waits while another
\* transaction deletes the row as expired.  A release that finds none is over.
FindReservation(c) ==
  /\ call[c].pc = "settling"
  /\ ~ \E r \in Calls : call[r].pc = "deciding" /\ c \in Gone(r, call[r].day)
  /\ \/ /\ resv[c] # NoRow
        /\ call' = [call EXCEPT ![c].pc = "holding", ![c].found = TRUE]
        /\ UNCHANGED lock
     \/ resv[c] = NoRow /\ call[c].commits /\ Goto(c, "holding") /\ UNCHANGED lock
     \/ resv[c] = NoRow /\ ~ call[c].commits /\ EndsAt(c, "done")
  /\ UNCHANGED <<today, ticks, usage, resv, charge>>

\* Mutant of Spent: the settlement of a lost reservation is not counted.
SpentIfFound(c) == IF call[c].commits /\ call[c].found THEN call[c].tokens ELSE 0

Spent(c) == IF call[c].commits THEN call[c].tokens ELSE 0

\* Mutant of Freed: the settled reservation's amount stays reserved.
FreedExpiredOnly(c, d) == Unexpired(c, d)

\* What stays reserved: the expired amounts are taken off, then the amount of
\* the row found before them.
Freed(c, d) == Minus(Unexpired(c, d), IF call[c].found THEN resv[c].amount ELSE 0)

\* The rest of commit_token_budget and release_token_budget, committed.
Charge(c) ==
  LET d == LockDay(c) IN
  /\ call[c].pc = "charging"
  /\ RowsHeldAgainst(c) = {}
  /\ usage' = [usage EXCEPT ![d].reserved = Freed(c, d), ![d].spent = @ + Spent(c)]
  /\ resv' = [e \in Calls |-> IF e = c \/ e \in Gone(c, d) THEN NoRow ELSE resv[e]]
  /\ charge' = IF call[c].commits
               THEN [charge EXCEPT ![c] = [day |-> d, tokens |-> call[c].tokens]]
               ELSE charge
  /\ EndsAt(c, "done")
  /\ UNCHANGED <<today, ticks>>

-----------------------------------------------------------------------------
(* Failures *)

\* A transaction rolls back.  A reserve raises (_db_strict), a settlement only
\* logs (_db_swallow): the generation goes on as if it had settled.
RollBack(c) ==
  /\ \/ call[c].pc \in Reserving /\ EndsAt(c, "denied")
     \/ call[c].pc \in Settling /\ EndsAt(c, "done")
  /\ UNCHANGED <<today, ticks, usage, resv, charge>>

DbFailure(c) == DbFails /\ RollBack(c)

\* h holds the lock and waits for a row, e holds the row and waits for the lock:
\* PostgreSQL aborts one of the two.
Deadlocked(h, e) ==
  /\ call[h].pc \in {"expiring", "charging"}
  /\ e \in RowsHeldAgainst(h)
  /\ call[e].pc = "holding"

AbortDeadlock(c) ==
  /\ \E o \in Calls : Deadlocked(c, o) \/ Deadlocked(o, c)
  /\ RollBack(c)

\* The process dies: its transaction rolls back and its generation is not
\* settled by anyone (a retried job allocates a new generation id).
Crash(c) ==
  /\ call[c].pc \notin Ended \cup {"new"}
  /\ EndsAt(c, "crashed")
  /\ UNCHANGED <<today, ticks, usage, resv, charge>>

Tick ==
  /\ ticks < MaxTicks
  /\ ticks' = ticks + 1
  /\ resv' = [c \in Calls |-> [resv[c] EXCEPT !.ttl = IF @ > 0 THEN @ - 1 ELSE 0]]
  /\ UNCHANGED <<today, usage, charge, lock, call>>

Midnight ==
  /\ today < LastDay
  /\ today' = today + 1
  /\ UNCHANGED <<ticks, usage, resv, charge, lock, call>>

-----------------------------------------------------------------------------

Step(c) ==
  \/ StartReserve(c) \/ TakeLock(c) \/ ReadUsage(c) \/ Admit(c) \/ Deny(c)
  \/ Dispatch(c) \/ StartSettle(c) \/ FindReservation(c) \/ Charge(c)
  \/ DbFailure(c) \/ AbortDeadlock(c) \/ Crash(c)

Next == (\E c \in Calls : Step(c)) \/ Tick \/ Midnight

Spec == Init /\ [][Next]_vars

-----------------------------------------------------------------------------
(* Properties *)

RowsOf(d) == {c \in Calls : resv[c] # NoRow /\ resv[c].day = d}

\* A day never counts as reserved more than its reservation rows say: whatever
\* expires, crashes, rolls back or is settled twice over, no quota is lost for
\* good to a reservation that is gone.
NoReservationLeaks == \A d \in Days : usage[d].reserved <= Amount(RowsOf(d))

\* ... nor less: every live reservation is counted once until it is settled or
\* expires, which is what makes the check of a reserve mean something.
ReservedIsExact == \A d \in Days : usage[d].reserved = Amount(RowsOf(d))

\* ReservedIsExact, as long as no reservation is old enough to expire.
ExactUntilExpiry == ticks < TTL => ReservedIsExact

\* What is counted as spent is what was charged, charge by charge and day by
\* day, also for a reservation that expired before its settlement.
SpentIsCharged ==
  \A d \in Days :
    usage[d].spent = Total([c \in Calls |-> charge[c].tokens], {c \in Calls : charge[c].day = d})

\* While providers report no more than was reserved, spent and reserved tokens
\* together stay within the monthly limit: concurrent reserves cannot both take
\* the last tokens.  Only of the first day, as the lock is a day's and
\* the limit a month's, and before anything expires.
QuotaKept ==
  today = 1 /\ ticks < TTL /\ (\A c \in Calls : charge[c].tokens <= Est[c]) =>
  Total(Used, Days) <= Limit

=============================================================================
