---------------------------- MODULE FxRatesProofs ----------------------------
(***************************************************************************)
(* FxRates for any currencies, days, backfills and faults: every table      *)
(* keeps its type, a published rate has the source its row has, and a month *)
(* nobody is about to write is current in KV unless its write was lost or   *)
(* landed after one whose rows were read later.                            *)
(***************************************************************************)
EXTENDS FxRates, TLAPS

\* A run of the object, and what holds of it wherever it is.
Run == [at : {"idle", "ask", "publish", "put"},
        job : {"none", "latest", "day", "gaps", "all"},
        day : Days \cup Months \cup {None}, wanted : SUBSET Currencies,
        next : Nat, gaps : SUBSET Gap, months : SUBSET Months, blob : Table]

Placed(run) ==
    /\ run.at = "idle" => run = Idle
    /\ run.at = "ask" => run.next \in 1..2 /\ (run.wanted # {} \/ run.gaps # {})

Typed ==
    /\ TypeOK
    /\ today > HISTORY_DAYS
    /\ requests \in [Days -> [attempts : 0..BACKFILL_ATTEMPTS, cooling : BOOLEAN]]
    /\ task \in [Tasks -> Run]
    /\ \A t \in Tasks : Placed(task[t])

\* What a run is about to write names no other source than the rows do.
Held ==
    \A t \in Tasks : task[t].at = "put" =>
        task[t].day \in task[t].months /\ Contains(rows, task[t].blob)

Putting(t) == task[t].at = "put"

Covers(m, new, old) ==
    \A d \in Days : Month(d) = m =>
        \A c \in Currencies : old[d][c] # None => new[d][c] = old[d][c]

\* Two writes under way to one month were read one after the other, and the
\* later one has all the earlier one has.
InOrder ==
    /\ older \subseteq Tasks \X Tasks
    /\ \A u, t \in Tasks : <<u, t>> \in older =>
          /\ Putting(u) /\ Putting(t) /\ task[u].day = task[t].day
          /\ Covers(task[t].day, task[t].blob, task[u].blob)
    /\ \A u, t \in Tasks : u # t /\ Putting(u) /\ Putting(t) /\ task[u].day = task[t].day =>
          <<u, t>> \in older \/ <<t, u>> \in older

\* A write that has not been overtaken has all that KV has of its month.
Ahead ==
    /\ \A t \in overtaken : t \in Tasks /\ Putting(t)
    /\ \A t \in Tasks : Putting(t) /\ t \notin overtaken => Covers(task[t].day, task[t].blob, kv)

\* KV has the month as the rows have it.
Current(m) == \A d \in Days : Month(d) = m => kv[d] = rows[d]

\* The run will write the month as the rows have it now: it has not read it
\* yet, or nothing was stored since.
Due(t, m) ==
    /\ m \in task[t].months
    /\ task[t].at = "put" /\ task[t].day = m => task[t].blob = OfMonth(rows, m)

Owed == \A m \in Months : Current(m) \/ m \in stale \/ \E t \in Tasks : Due(t, m)

Inv == Typed /\ Held /\ RatesAgree /\ InOrder /\ Ahead /\ Owed

-----------------------------------------------------------------------------
(* Facts about the operators. *)

LEMMA MonthOf == \A d \in Days : Month(d) \in Months
BY DEF Months

LEMMA Providers ==
    /\ Len(providers) = 2 /\ DOMAIN providers = 1..2
    /\ \A n \in 1..2 : /\ providers[n].name \in Source
                       /\ providers[n].covers \subseteq Currencies
    /\ Official \subseteq Currencies
<1>1. DOMAIN providers = 1..2 /\ Len(providers) = 2
  BY DEF providers
<1>2. \A n \in 1..2 : providers[n].covers \subseteq Currencies
  BY FxAssumption DEF providers
<1> QED
  BY <1>1, <1>2, FxAssumption DEF Source

LEMMA IdleTyped == Idle \in Run /\ Placed(Idle) /\ Idle.months = {} /\ Idle.at = "idle" /\ Idle.gaps = {}
BY DEF Idle, Run, Placed, Empty, Table

\* Storing an answer replaces nothing.
LEMMA StoredTyped ==
    ASSUME Typed, NEW day \in Days, NEW got \in SUBSET Currencies, NEW source \in Source
    PROVE  /\ Stored(day, got, source) \in Table
           /\ Contains(Stored(day, got, source), rows)
<1>1. rows \in [Days -> [Currencies -> Source \cup {None}]]
  BY DEF Typed, TypeOK, Table
<1>2. rows[day] \in [Currencies -> Source \cup {None}]
  BY <1>1
<1> DEFINE new == [c \in Currencies |-> IF c \in got /\ rows[day][c] = None THEN source ELSE rows[day][c]]
<1>3. new \in [Currencies -> Source \cup {None}]
  BY <1>2
<1>4. Stored(day, got, source) = [rows EXCEPT ![day] = new]
  BY <1>1 DEF Stored
<1>5. \A c \in Currencies : rows[day][c] # None => new[c] = rows[day][c]
  OBVIOUS
<1> HIDE DEF new
<1> QED
  BY <1>1, <1>3, <1>4, <1>5 DEF Table, Contains

\* The months a store changed are those of the days it changed.
LEMMA ChangedTyped ==
    ASSUME NEW new
    PROVE  /\ Changed(new) \in SUBSET Months
           /\ \A d \in Days : new[d] # rows[d] => Month(d) \in Changed(new)
BY MonthOf DEF Changed

LEMMA GapsTyped ==
    ASSUME Typed
    PROVE  Gaps \in SUBSET Gap
<1>1. /\ today \in Nat /\ HISTORY_DAYS \in Nat /\ MaxDay \in Nat
      /\ 1 <= today - HISTORY_DAYS /\ today <= MaxDay
  BY FxAssumption DEF Typed, TypeOK, Days
<1>2. (today - HISTORY_DAYS)..today \subseteq Days
  BY <1>1 DEF Days
<1> QED
  BY <1>2 DEF Gaps, Gap

LEMMA LeastOfTwo ==
    ASSUME NEW S \in SUBSET (1..2), S # {}
    PROVE  Min(S) \in S
<1>1. \E x \in S : \A y \in S : x =< y
  <2>1. \A y \in S : y = 1 \/ y = 2
    OBVIOUS
  <2>2. CASE 1 \in S
    <3>1. \A y \in S : 1 =< y
      BY <2>1
    <3> QED
      BY <2>2, <3>1
  <2>3. CASE 1 \notin S
    <3>1. \A y \in S : y = 2
      BY <2>1, <2>3
    <3>2. PICK y \in S : TRUE
      OBVIOUS
    <3> QED
      BY <3>1, <3>2
  <2> QED
    BY <2>2, <2>3
<1> QED
  BY <1>1 DEF Min

\* A run that goes on asks a provider, or publishes what it has.
LEMMA ContinueTyped ==
    ASSUME NEW t \in Tasks, NEW run \in Run, NEW n \in Nat \ {0}, Continue(t, run, n)
    PROVE  \E new \in Run : /\ Placed(new) /\ new.months = run.months
                            /\ new.at \in {"ask", "publish"}
                            /\ task' = [task EXCEPT ![t] = new]
<1>1. CASE run.wanted # {} /\ Usable(run.job, n) # {}
  <2>1. PICK k \in 1..2 : k = Min(Usable(run.job, n))
    <3>1. Usable(run.job, n) \in SUBSET (1..2)
      BY Providers DEF Usable
    <3>2. Min(Usable(run.job, n)) \in Usable(run.job, n)
      BY <1>1, <3>1, LeastOfTwo
    <3> QED
      BY <3>1, <3>2
  <2> DEFINE new == [run EXCEPT !.at = "ask", !.next = k]
  <2>2. task' = [task EXCEPT ![t] = new]
    BY <1>1, <2>1 DEF Continue
  <2>3. new \in Run /\ new.months = run.months /\ new.at = "ask" /\ new.next = k /\ new.wanted = run.wanted
    <3>1. k \in Nat
      OBVIOUS
    <3> QED
      BY <3>1 DEF Run
  <2> HIDE DEF new
  <2>4. Placed(new)
    <3>1. new.wanted # {}
      BY <1>1, <2>3
    <3>2. new.next \in 1..2
      BY <2>1, <2>3
    <3> QED
      BY <2>3, <3>1, <3>2 DEF Placed
  <2> QED
    BY <2>2, <2>3, <2>4
<1>2. CASE ~(run.wanted # {} /\ Usable(run.job, n) # {})
  <2> DEFINE new == [run EXCEPT !.at = "publish", !.next = 0]
  <2>1. task' = [task EXCEPT ![t] = new]
    BY <1>2 DEF Continue
  <2>2. new \in Run /\ new.months = run.months /\ new.at = "publish"
    BY DEF Run
  <2> HIDE DEF new
  <2> QED
    BY <2>1, <2>2 DEF Placed
<1> QED
  BY <1>1, <1>2

LEMMA FillTyped ==
    ASSUME NEW t \in Tasks, NEW run \in Run, NEW gaps \in SUBSET Gap, FillNext(t, run, gaps)
    PROVE  \E new \in Run : /\ Placed(new) /\ new.months = run.months
                            /\ new.at \in {"ask", "publish"}
                            /\ task' = [task EXCEPT ![t] = new]
<1> DEFINE new == [run EXCEPT !.job = "gaps", !.gaps = gaps, !.wanted = {},
                     !.at = IF gaps = {} THEN "publish" ELSE "ask",
                     !.next = IF gaps = {} THEN 0 ELSE 1]
<1>1. task' = [task EXCEPT ![t] = new]
  BY DEF FillNext
<1>2. CASE gaps = {}
  <2>1. new \in Run /\ new.months = run.months /\ new.at = "publish"
    BY <1>2 DEF Run
  <2> HIDE DEF new
  <2> QED
    BY <1>1, <2>1 DEF Placed
<1>3. CASE gaps # {}
  <2>0. new = [run EXCEPT !.job = "gaps", !.gaps = gaps, !.wanted = {}, !.at = "ask", !.next = 1]
    BY <1>3
  <2>1. new \in Run /\ new.months = run.months /\ new.gaps = gaps /\ new.at = "ask" /\ new.next = 1
    BY <2>0 DEF Run
  <2> HIDE DEF new
  <2>2. Placed(new)
    BY <1>3, <2>1 DEF Placed
  <2> QED
    BY <1>1, <2>1, <2>2
<1> QED
  BY <1>2, <1>3

-----------------------------------------------------------------------------
(* Steps. *)

\* A run goes on: what it stores replaces nothing and is in its months, and
\* what it is about to write is read from the rows.
Goes(t, run) ==
    /\ run \in Run /\ Placed(run)
    /\ task' = [task EXCEPT ![t] = run]
    /\ task[t].at # "put" /\ task[t].months \subseteq run.months
    /\ rows' \in Table /\ Contains(rows', rows)
    /\ \A d \in Days : rows'[d] # rows[d] => Month(d) \in run.months
    /\ run.at = "put" =>
          /\ rows' = rows /\ run.day \in run.months /\ run.blob = OfMonth(rows, run.day)
          /\ older' = older \cup (Writing(run.day) \X {t})
    /\ run.at # "put" => older' = older
    /\ UNCHANGED <<kv, overtaken, stale>>

LEMMA SameMonth ==
    ASSUME NEW m, NEW old, NEW new, \A d \in Days : Month(d) = m => new[d] = old[d]
    PROVE  OfMonth(new, m) = OfMonth(old, m)
BY DEF OfMonth

LEMMA Wider ==
    ASSUME NEW new, NEW old, NEW held, Contains(new, old), Contains(old, held)
    PROVE  Contains(new, held)
BY DEF Contains

LEMMA OfMonthHeld ==
    ASSUME NEW table, NEW m
    PROVE  Contains(table, OfMonth(table, m))
BY DEF Contains, OfMonth, Empty

LEMMA OfMonthTyped ==
    ASSUME NEW table \in Table, NEW m
    PROVE  OfMonth(table, m) \in Table
<1>1. \A d \in Days : table[d] \in [Currencies -> Source \cup {None}]
  BY DEF Table
<1>2. \A d \in Days : Empty[d] \in [Currencies -> Source \cup {None}]
  BY DEF Empty
<1> QED
  BY <1>1, <1>2 DEF OfMonth, Table

LEMMA GoesKeeps ==
    ASSUME Inv, NEW t \in Tasks, NEW run, Goes(t, run)
    PROVE  /\ task' \in [Tasks -> Run] /\ \A u \in Tasks : Placed(task'[u])
           /\ rows' \in Table /\ kv' = kv /\ stale' = stale
           /\ Held' /\ RatesAgree' /\ InOrder' /\ Ahead' /\ Owed'
<1>1. task \in [Tasks -> Run] /\ \A u \in Tasks : Placed(task[u])
  BY DEF Inv, Typed
<1>2. task'[t] = run /\ \A u \in Tasks \ {t} : task'[u] = task[u]
  BY <1>1 DEF Goes
<1>3. task' \in [Tasks -> Run] /\ \A u \in Tasks : Placed(task'[u])
  BY <1>1, <1>2 DEF Goes
<1>4. RatesAgree'
  BY Wider DEF Inv, RatesAgree, Goes
<1>5. Held'
  <2> SUFFICES ASSUME NEW u \in Tasks, task'[u].at = "put"
               PROVE  task'[u].day \in task'[u].months /\ Contains(rows', task'[u].blob)
    BY DEF Held
  <2>1. CASE u = t
    <3>1. rows' = rows /\ task'[u].day \in task'[u].months /\ task'[u].blob = OfMonth(rows, run.day)
      BY <1>2, <2>1 DEF Goes
    <3> QED
      BY <3>1, OfMonthHeld
  <2>2. CASE u # t
    <3>1. task[u].day \in task[u].months /\ Contains(rows, task[u].blob) /\ task'[u] = task[u]
      BY <1>2, <2>2 DEF Inv, Held
    <3>2. Contains(rows', task[u].blob)
      BY <3>1, Wider DEF Goes
    <3> QED
      BY <3>1, <3>2
  <2> QED
    BY <2>1, <2>2
<1>6. Owed'
  <2> SUFFICES ASSUME NEW m \in Months
               PROVE  Current(m)' \/ m \in stale \/ \E u \in Tasks : Due(u, m)'
    BY DEF Owed, Goes
  <2>1. CASE \E d \in Days : Month(d) = m /\ rows'[d] # rows[d]
    <3>1. m \in run.months /\ run.at # "put"
      BY <2>1 DEF Goes
    <3>2. Due(t, m)'
      BY <1>2, <3>1 DEF Due
    <3> QED
      BY <3>2
  <2>2. CASE \A d \in Days : Month(d) = m => rows'[d] = rows[d]
    <3>1. OfMonth(rows', m) = OfMonth(rows, m)
      BY <2>2, SameMonth
    <3>2. Current(m) => Current(m)'
      BY <2>2 DEF Current, Goes
    <3>3. ASSUME NEW u \in Tasks, Due(u, m) PROVE Due(u, m)'
      <4>1. CASE u = t
        BY <1>2, <3>1, <3>3, <4>1 DEF Due, Goes
      <4>2. CASE u # t
        BY <1>2, <3>1, <3>3, <4>2 DEF Due
      <4> QED
        BY <4>1, <4>2
    <3> QED
      BY <3>2, <3>3 DEF Inv, Owed
  <2> QED
    BY <2>1, <2>2
<1>7. \A u \in Tasks : Putting(u)' =>
        \/ u # t /\ Putting(u) /\ task'[u] = task[u]
        \/ u = t /\ run.at = "put"
  <2> SUFFICES ASSUME NEW u \in Tasks, task'[u].at = "put"
               PROVE  \/ u # t /\ task[u].at = "put" /\ task'[u] = task[u]
                      \/ u = t /\ run.at = "put"
    BY DEF Putting
  <2>1. u # t => task'[u] = task[u]
    BY <1>2
  <2>2. u = t => task'[u] = run
    BY <1>2
  <2> QED
    BY <2>1, <2>2
<1>8. ~Putting(t) /\ \A u \in Tasks \ {t} : Putting(u) => Putting(u)' /\ task'[u] = task[u]
  BY <1>2 DEF Putting, Goes
<1>9. InOrder'
  <2>1. CASE run.at # "put"
    <3>1. older' = older /\ ~Putting(t)'
      BY <1>2, <2>1 DEF Goes, Putting
    <3>2. \A u, v \in Tasks : <<u, v>> \in older => u # t /\ v # t
      BY <1>8 DEF Inv, InOrder
    <3> QED
      BY <1>7, <1>8, <3>1, <3>2 DEF Inv, InOrder, Covers
  <2>2. CASE run.at = "put"
    <3>1. /\ rows' = rows /\ run.blob = OfMonth(rows, run.day)
          /\ older' = older \cup (Writing(run.day) \X {t})
      BY <2>2 DEF Goes
    <3>2. older' \subseteq Tasks \X Tasks
      BY <3>1 DEF Inv, InOrder, Writing
    <3>3. ASSUME NEW u \in Tasks, NEW v \in Tasks, <<u, v>> \in older'
          PROVE  /\ Putting(u)' /\ Putting(v)' /\ task'[u].day = task'[v].day
                 /\ Covers(task'[v].day, task'[v].blob, task'[u].blob)
      <4>1. CASE <<u, v>> \in older
        <5>1. /\ Putting(u) /\ Putting(v) /\ task[u].day = task[v].day
              /\ Covers(task[v].day, task[v].blob, task[u].blob)
          BY <4>1 DEF Inv, InOrder
        <5>2. u # t /\ v # t
          BY <1>8, <5>1
        <5> QED
          BY <1>8, <5>1, <5>2
      <4>2. CASE u \in Writing(run.day) /\ v = t
        <5>1. Putting(u) /\ task[u].day = run.day /\ u # t
          BY <1>8, <4>2 DEF Writing, Putting
        <5>2. Contains(rows, task[u].blob)
          BY <5>1 DEF Inv, Held, Putting
        <5>3. Covers(run.day, OfMonth(rows, run.day), task[u].blob)
          BY <5>2 DEF Covers, Contains, OfMonth
        <5> QED
          BY <1>2, <1>8, <2>2, <3>1, <4>2, <5>1, <5>3 DEF Putting
      <4> QED
        BY <3>1, <3>3, <4>1, <4>2
    <3>4. ASSUME NEW u \in Tasks, NEW v \in Tasks, u # v, Putting(u)', Putting(v)',
                 task'[u].day = task'[v].day
          PROVE  <<u, v>> \in older' \/ <<v, u>> \in older'
      <4>1. CASE u # t /\ v # t
        BY <1>7, <3>1, <3>4, <4>1 DEF Inv, InOrder
      <4>2. CASE u = t
        BY <1>2, <1>7, <3>1, <3>4, <4>2 DEF Writing, Putting
      <4>3. CASE v = t
        BY <1>2, <1>7, <3>1, <3>4, <4>3 DEF Writing, Putting
      <4> QED
        BY <4>1, <4>2, <4>3
    <3> QED
      BY <3>2, <3>3, <3>4 DEF InOrder
  <2> QED
    BY <2>1, <2>2
<1>10. Ahead'
  <2>1. \A u \in overtaken' : u \in Tasks /\ Putting(u)'
    BY <1>8 DEF Inv, Ahead, Goes
  <2>2. ASSUME NEW u \in Tasks, Putting(u)', u \notin overtaken'
        PROVE  Covers(task'[u].day, task'[u].blob, kv')
    <3>1. CASE u # t
      BY <1>7, <2>2, <3>1 DEF Inv, Ahead, Goes
    <3>2. CASE u = t
      <4>1. task'[u].blob = OfMonth(rows, task'[u].day)
        BY <1>2, <1>7, <2>2, <3>2 DEF Goes
      <4>2. Covers(task'[u].day, OfMonth(rows, task'[u].day), kv)
        BY DEF Inv, RatesAgree, Contains, Covers, OfMonth
      <4> QED
        BY <4>1, <4>2 DEF Goes
    <3> QED
      BY <3>1, <3>2
  <2> QED
    BY <2>1, <2>2 DEF Ahead
<1> QED
  BY <1>3, <1>4, <1>5, <1>6, <1>9, <1>10 DEF Goes

\* The clock, the requests and the bounds.
Rest ==
    /\ today \in Days /\ today > HISTORY_DAYS
    /\ requests \in [Days -> [attempts : 0..BACKFILL_ATTEMPTS, cooling : BOOLEAN]]
    /\ runs \in Nat /\ faults \in Nat

LEMMA TypedAfter ==
    ASSUME Rest', task' \in [Tasks -> Run], \A u \in Tasks : Placed(task'[u]),
           rows' \in Table, kv' \in Table, stale' \subseteq Months,
           InOrder', Ahead'
    PROVE  Typed'
<1>1. ASSUME NEW u \in Tasks
      PROVE  /\ task'[u].at \in {"idle", "ask", "publish", "put"}
             /\ task'[u].gaps \subseteq Gap /\ task'[u].months \subseteq Months
             /\ task'[u].at = "idle" => task'[u] = Idle
             /\ task'[u].at = "ask" => /\ task'[u].next \in DOMAIN providers
                                       /\ task'[u].wanted # {} \/ task'[u].gaps # {}
  <2>1. task'[u] \in Run /\ Placed(task'[u])
    OBVIOUS
  <2> QED
    BY <2>1, Providers DEF Run, Placed
<1> QED
  BY <1>1 DEF Typed, TypeOK, Rest, InOrder, Ahead

LEMMA InvFromGoes ==
    ASSUME Inv, Rest', \E t \in Tasks : \E run \in Run : Goes(t, run)
    PROVE  Inv'
<1>1. PICK t \in Tasks, run \in Run : Goes(t, run)
  OBVIOUS
<1>2. /\ task' \in [Tasks -> Run] /\ \A u \in Tasks : Placed(task'[u])
      /\ rows' \in Table /\ kv' = kv /\ stale' = stale
      /\ Held' /\ RatesAgree' /\ InOrder' /\ Ahead' /\ Owed'
  BY <1>1, GoesKeeps
<1>3. kv \in Table /\ stale \subseteq Months
  BY DEF Inv, Typed, TypeOK
<1>4. kv' \in Table /\ stale' \subseteq Months
  BY <1>2, <1>3
<1>5. Typed'
  BY <1>2, <1>4, TypedAfter
<1> QED
  BY <1>2, <1>5 DEF Inv

\* What holds of the run at hand, idle or not.
LEMMA RunOf ==
    ASSUME Inv, NEW t \in Tasks
    PROVE  /\ task \in [Tasks -> Run] /\ task[t] \in Run /\ Placed(task[t])
           /\ task[t].months \subseteq Months
           /\ task[t].at = "idle" => task[t].months = {}
           /\ rows \in Table /\ Contains(rows, rows)
<1>1. task \in [Tasks -> Run] /\ task[t] \in Run /\ Placed(task[t]) /\ rows \in Table
  BY DEF Inv, Typed, TypeOK
<1>2. Contains(rows, rows)
  BY DEF Contains
<1> QED
  BY <1>1, <1>2, IdleTyped DEF Placed, Run

LEMMA Resting == Inv => Rest
BY DEF Inv, Typed, TypeOK, Rest

\* A run that goes on as Continue or FillNext has it, having stored an answer.
LEMMA GoesStoring ==
    ASSUME Inv, NEW t \in Tasks, NEW run \in Run, UNCHANGED <<kv, ghosts>>,
           task[t].at # "put", task[t].months \subseteq run.months,
           rows' \in Table, Contains(rows', rows),
           \A d \in Days : rows'[d] # rows[d] => Month(d) \in run.months,
           \E new \in Run : /\ Placed(new) /\ new.months = run.months
                            /\ new.at \in {"ask", "publish"}
                            /\ task' = [task EXCEPT ![t] = new]
    PROVE  \E u \in Tasks : \E new \in Run : Goes(u, new)
<1>1. PICK new \in Run : /\ Placed(new) /\ new.months = run.months
                         /\ new.at \in {"ask", "publish"}
                         /\ task' = [task EXCEPT ![t] = new]
  OBVIOUS
<1>2. Goes(t, new)
  BY <1>1 DEF Goes, ghosts
<1> QED
  BY <1>2

\* Or having stored nothing.
LEMMA GoesQuietly ==
    ASSUME Inv, NEW t \in Tasks, NEW run \in Run, UNCHANGED <<rows, kv, ghosts>>,
           task[t].at # "put", task[t].months \subseteq run.months,
           \E new \in Run : /\ Placed(new) /\ new.months = run.months
                            /\ new.at \in {"ask", "publish"}
                            /\ task' = [task EXCEPT ![t] = new]
    PROVE  \E u \in Tasks : \E new \in Run : Goes(u, new)
<1>1. /\ rows' \in Table /\ Contains(rows', rows)
      /\ \A d \in Days : rows'[d] # rows[d] => Month(d) \in run.months
  BY RunOf
<1> QED
  BY <1>1, GoesStoring

LEMMA RefreshGoes ==
    ASSUME Inv, Refresh
    PROVE  \E u \in Tasks : \E new \in Run : Goes(u, new)
<1> DEFINE run == [Idle EXCEPT !.job = "latest", !.wanted = Currencies]
<1>1. "daily" \in Tasks /\ task["daily"].at = "idle" /\ Continue("daily", run, 1)
  BY DEF Refresh, Tasks
<1>2. run \in Run /\ run.months = {}
  BY IdleTyped DEF Run
<1> HIDE DEF run
<1>3. task["daily"].months = {}
  BY <1>1, RunOf
<1>4. \E new \in Run : /\ Placed(new) /\ new.months = run.months
                        /\ new.at \in {"ask", "publish"}
                        /\ task' = [task EXCEPT !["daily"] = new]
  BY <1>1, <1>2, ContinueTyped
<1>5. UNCHANGED <<rows, kv, ghosts>>
  BY DEF Refresh
<1> QED
  BY <1>1, <1>2, <1>3, <1>4, <1>5, GoesQuietly

LEMMA BackfillGoes ==
    ASSUME Inv, NEW t \in Tasks, NEW d \in Days, NEW c \in Currencies, Backfill(t, d, c)
    PROVE  /\ \E u \in Tasks : \E new \in Run : Goes(u, new)
           /\ Rest'
<1> DEFINE run == [Idle EXCEPT !.job = "day", !.day = d, !.wanted = missingFor(d)]
<1>1. task[t].at = "idle" /\ Continue(t, run, 1)
  BY DEF Backfill
<1>2. missingFor(d) \in SUBSET Currencies
  BY DEF missingFor
<1>3. run \in Run /\ run.months = {}
  BY <1>2, IdleTyped DEF Run
<1> HIDE DEF run
<1>4. task[t].months = {}
  BY <1>1, RunOf
<1>5. \E new \in Run : /\ Placed(new) /\ new.months = run.months
                        /\ new.at \in {"ask", "publish"}
                        /\ task' = [task EXCEPT ![t] = new]
  BY <1>1, <1>3, ContinueTyped
<1>6. UNCHANGED <<rows, kv, ghosts>>
  BY DEF Backfill
<1>7. \E u \in Tasks : \E new \in Run : Goes(u, new)
  BY <1>1, <1>3, <1>4, <1>5, <1>6, GoesQuietly
<1>8. requests' \in [Days -> [attempts : 0..BACKFILL_ATTEMPTS, cooling : BOOLEAN]]
  <2> DEFINE row == [attempts |-> requests[d].attempts + 1, cooling |-> TRUE]
  <2>1. requests' = [requests EXCEPT ![d] = row]
    BY Resting DEF Backfill, Rest
  <2>2. requests[d].attempts \in 0..BACKFILL_ATTEMPTS /\ BACKFILL_ATTEMPTS \in Nat
    BY Resting, FxAssumption DEF Rest
  <2>3. requests[d].attempts < BACKFILL_ATTEMPTS
    BY <2>2 DEF Backfill, Throttled
  <2>4. row \in [attempts : 0..BACKFILL_ATTEMPTS, cooling : BOOLEAN]
    BY <2>2, <2>3
  <2> HIDE DEF row
  <2> QED
    BY <2>1, <2>4, Resting DEF Rest
<1> QED
  BY <1>7, <1>8, Resting DEF Backfill, Rest

LEMMA AnswerGoes ==
    ASSUME Inv, NEW t \in Tasks, Answer(t)
    PROVE  \E u \in Tasks : \E new \in Run : Goes(u, new)
<1> DEFINE provider == providers[task[t].next]
           asked == IF task[t].job = "day" THEN task[t].day ELSE today
<1>1. PICK day \in {asked, asked - 1} \cap Days :
        \E got \in SUBSET (provider.covers \cap task[t].wanted) \ {{}} :
          /\ rows' = Stored(day, got, provider.name)
          /\ Continue(t, [task[t] EXCEPT !.wanted = @ \ got,
                            !.months = @ \cup Changed(Stored(day, got, provider.name))],
                       task[t].next + 1)
  BY DEF Answer
<1>2. PICK got \in SUBSET (provider.covers \cap task[t].wanted) :
        /\ rows' = Stored(day, got, provider.name)
        /\ Continue(t, [task[t] EXCEPT !.wanted = @ \ got,
                          !.months = @ \cup Changed(Stored(day, got, provider.name))],
                     task[t].next + 1)
  BY <1>1
<1>3. task[t] \in Run /\ task[t].next \in 1..2
  BY RunOf DEF Answer, Placed
<1>4. provider.name \in Source /\ got \in SUBSET Currencies
  BY <1>3, Providers
<1>5. rows' \in Table /\ Contains(rows', rows)
  BY <1>2, <1>4, StoredTyped DEF Inv
<1> DEFINE run == [task[t] EXCEPT !.wanted = @ \ got, !.months = @ \cup Changed(rows')]
<1>6. Changed(rows') \in SUBSET Months /\ \A d \in Days : rows'[d] # rows[d] => Month(d) \in Changed(rows')
  BY ChangedTyped
<1>7. run \in Run /\ run.months = task[t].months \cup Changed(rows')
  BY <1>3, <1>6 DEF Run
<1>8. PICK go \in Run : go = run
  BY <1>7
<1>9. Continue(t, go, task[t].next + 1)
  BY <1>2, <1>8
<1>10. PICK n \in Nat \ {0} : n = task[t].next + 1
  BY <1>3
<1> HIDE DEF run
<1>11. \E new \in Run : /\ Placed(new) /\ new.months = go.months
                         /\ new.at \in {"ask", "publish"}
                         /\ task' = [task EXCEPT ![t] = new]
  BY <1>9, <1>10, ContinueTyped
<1>12. UNCHANGED <<kv, ghosts>>
  BY DEF Answer
<1>13. /\ task[t].months \subseteq go.months
       /\ \A d \in Days : rows'[d] # rows[d] => Month(d) \in go.months
  BY <1>6, <1>7, <1>8
<1>14. task[t].at # "put"
  BY DEF Answer
<1> QED
  BY <1>5, <1>11, <1>12, <1>13, <1>14, GoesStoring

LEMMA NoAnswerGoes ==
    ASSUME Inv, NEW t \in Tasks, NoAnswer(t)
    PROVE  \E u \in Tasks : \E new \in Run : Goes(u, new)
<1>1. task[t] \in Run /\ task[t].next \in 1..2
  BY RunOf DEF NoAnswer, Placed
<1>2. PICK go \in Run : go = task[t]
  BY <1>1
<1>3. PICK n \in Nat \ {0} : n = task[t].next + 1
  BY <1>1
<1>4. Continue(t, go, n) /\ UNCHANGED <<rows, kv, ghosts>>
  BY <1>2, <1>3 DEF NoAnswer
<1>5. \E new \in Run : /\ Placed(new) /\ new.months = go.months
                        /\ new.at \in {"ask", "publish"}
                        /\ task' = [task EXCEPT ![t] = new]
  BY <1>4, ContinueTyped
<1>6. task[t].at # "put"
  BY DEF NoAnswer
<1> QED
  BY <1>2, <1>4, <1>5, <1>6, GoesQuietly

LEMMA AnswerRangeGoes ==
    ASSUME Inv, NEW t \in Tasks, AnswerRange(t)
    PROVE  \E u \in Tasks : \E new \in Run : Goes(u, new)
<1> DEFINE gap == Oldest(task[t].gaps)
           source == providers[task[t].next].name
           With(days) == [d \in Days |-> IF d \in days
                             THEN Stored(d, Official, source)[d] ELSE rows[d]]
<1>1. PICK days \in SUBSET (gap.from..gap.to) :
        /\ rows' = With(days)
        /\ FillNext(t, [task[t] EXCEPT !.months = @ \cup Changed(With(days))],
                    task[t].gaps \ {gap})
  BY DEF AnswerRange
<1>2. task[t] \in Run /\ task[t].next \in 1..2 /\ source \in Source
  BY RunOf, Providers DEF AnswerRange, Placed
<1>3. rows' \in Table /\ Contains(rows', rows)
  <2> HIDE DEF source
  <2>1. ASSUME NEW d \in Days
        PROVE  /\ Stored(d, Official, source) \in Table
               /\ Contains(Stored(d, Official, source), rows)
    BY <1>2, StoredTyped, Providers DEF Inv
  <2>2. ASSUME NEW d \in Days
        PROVE  /\ rows'[d] \in [Currencies -> Source \cup {None}]
               /\ \A c \in Currencies : rows[d][c] # None => rows'[d][c] = rows[d][c]
    BY <1>1, <2>1, RunOf DEF Table, Contains
  <2>3. rows' = [d \in Days |-> rows'[d]]
    BY <1>1
  <2> QED
    BY <2>2, <2>3 DEF Table, Contains
<1> DEFINE run == [task[t] EXCEPT !.months = @ \cup Changed(rows')]
<1>4. Changed(rows') \in SUBSET Months /\ \A d \in Days : rows'[d] # rows[d] => Month(d) \in Changed(rows')
  BY ChangedTyped
<1>5. run \in Run /\ run.months = task[t].months \cup Changed(rows')
  BY <1>2, <1>4 DEF Run
<1>6. PICK go \in Run : go = run
  BY <1>5
<1>7. PICK gaps \in SUBSET Gap : gaps = task[t].gaps \ {gap}
  BY <1>2 DEF Run
<1>8. FillNext(t, go, gaps)
  BY <1>1, <1>6, <1>7
<1> HIDE DEF run
<1>9. \E new \in Run : /\ Placed(new) /\ new.months = go.months
                        /\ new.at \in {"ask", "publish"}
                        /\ task' = [task EXCEPT ![t] = new]
  BY <1>8, FillTyped
<1>10. UNCHANGED <<kv, ghosts>>
  BY DEF AnswerRange
<1>11. /\ task[t].months \subseteq go.months
       /\ \A d \in Days : rows'[d] # rows[d] => Month(d) \in go.months
  BY <1>4, <1>5, <1>6
<1>12. task[t].at # "put"
  BY DEF AnswerRange
<1> QED
  BY <1>3, <1>9, <1>10, <1>11, <1>12, GoesStoring

LEMMA RepublishGoes ==
    ASSUME Inv, RepublishAll
    PROVE  \E u \in Tasks : \E new \in Run : Goes(u, new)
<1> DEFINE all == {Month(d) : d \in {e \in Days : Holds(rows, e)}}
           run == [Idle EXCEPT !.at = "publish", !.job = "all", !.months = all]
<1>1. /\ "daily" \in Tasks /\ task["daily"].at = "idle"
      /\ task' = [task EXCEPT !["daily"] = run] /\ UNCHANGED <<rows, kv, ghosts>>
  BY DEF RepublishAll, Tasks
<1>2. all \in SUBSET Months
  BY MonthOf
<1> HIDE DEF all
<1>3. run \in Run /\ run.months = all /\ run.at = "publish"
  BY <1>2, IdleTyped DEF Run
<1> HIDE DEF run
<1>4. task["daily"].months = {} /\ Placed(run)
  BY <1>1, <1>3, RunOf DEF Placed
<1>5. Goes("daily", run)
  BY <1>1, <1>3, <1>4, RunOf DEF Goes, ghosts
<1> QED
  BY <1>1, <1>3, <1>5

LEMMA PublishGoes ==
    ASSUME Inv, NEW t \in Tasks, Publish(t)
    PROVE  \E u \in Tasks : \E new \in Run : Goes(u, new)
<1>1. PICK m \in task[t].months :
        /\ task' = [task EXCEPT ![t].at = "put", ![t].day = m, ![t].blob = OfMonth(rows, m)]
        /\ older' = older \cup (Writing(m) \X {t})
  BY DEF Publish
<1>2. PICK blob \in Table : blob = OfMonth(rows, m)
  BY OfMonthTyped, RunOf
<1>3. PICK old \in Run : old = task[t]
  BY RunOf
<1> DEFINE run == [old EXCEPT !.at = "put", !.day = m, !.blob = blob]
<1>4. task' = [task EXCEPT ![t] = run]
  BY <1>1, <1>2, <1>3, RunOf
<1>5. m \in Months
  BY <1>1, RunOf
<1>6. /\ run \in Run /\ run.at = "put" /\ run.day = m /\ run.blob = blob
      /\ run.months = old.months
  BY <1>5 DEF Run
<1> HIDE DEF run
<1>7. UNCHANGED <<rows, kv, overtaken, stale>> /\ Placed(run) /\ task[t].at # "put"
  BY <1>6 DEF Publish, Placed
<1>8. Goes(t, run)
  BY <1>1, <1>2, <1>3, <1>4, <1>6, <1>7, RunOf DEF Goes
<1> QED
  BY <1>6, <1>8

LEMMA PublishedGoes ==
    ASSUME Inv, NEW t \in Tasks, Published(t)
    PROVE  \E u \in Tasks : \E new \in Run : Goes(u, new)
<1>1. task[t].months = {} /\ task[t].at # "put" /\ UNCHANGED <<rows, kv, ghosts>>
  BY DEF Published
<1>2. CASE task[t].job = "latest" /\ Gaps # {}
  <2>1. Gaps \in SUBSET Gap
    BY GapsTyped DEF Inv
  <2>2. FillNext(t, Idle, Gaps)
    BY <1>2 DEF Published
  <2>3. PICK gaps \in SUBSET Gap : gaps = Gaps
    BY <2>1
  <2>4. \E new \in Run : /\ Placed(new) /\ new.months = Idle.months
                          /\ new.at \in {"ask", "publish"}
                          /\ task' = [task EXCEPT ![t] = new]
    BY <2>2, <2>3, IdleTyped, FillTyped
  <2> QED
    BY <1>1, <2>4, IdleTyped, GoesQuietly
<1>3. CASE ~(task[t].job = "latest" /\ Gaps # {})
  <2>1. task' = [task EXCEPT ![t] = Idle]
    BY <1>3 DEF Published
  <2>2. Goes(t, Idle)
    BY <1>1, <2>1, IdleTyped, RunOf DEF Goes, ghosts
  <2> QED
    BY <2>2, IdleTyped
<1> QED
  BY <1>2, <1>3

-----------------------------------------------------------------------------
(* Writes to KV, and what cuts them off. *)

\* A blob that has what a current KV has of its month is what the rows say.
LEMMA Overtaken ==
    ASSUME Inv, NEW m, NEW blob \in Table, Contains(rows, blob), Current(m),
           Covers(m, blob, kv)
    PROVE  \A d \in Days : Month(d) = m => blob[d] = rows[d]
<1> SUFFICES ASSUME NEW d \in Days, Month(d) = m
             PROVE  blob[d] = rows[d]
  OBVIOUS
<1>1. /\ blob[d] \in [Currencies -> Source \cup {None}]
      /\ rows[d] \in [Currencies -> Source \cup {None}]
  BY RunOf DEF Table, Inv, Typed, TypeOK
<1>2. kv[d] = rows[d]
  BY DEF Current
<1>3. ASSUME NEW c \in Currencies PROVE blob[d][c] = rows[d][c]
  <2>1. blob[d][c] # None => rows[d][c] = blob[d][c]
    BY DEF Contains
  <2>2. rows[d][c] # None => blob[d][c] = rows[d][c]
    BY <1>2 DEF Covers
  <2> QED
    BY <2>1, <2>2
<1> QED
  BY <1>1, <1>3

\* The runs not named in S go on writing what they were; the others are not
\* writing any more.
Remain(S) ==
    /\ \A u \in Tasks \ S : task'[u] = task[u]
    /\ \A u \in S : ~Putting(u)'
    /\ older' = {pair \in older : pair[1] \notin S /\ pair[2] \notin S}

LEMMA RemainInOrder ==
    ASSUME Inv, NEW S \in SUBSET Tasks, Remain(S)
    PROVE  InOrder'
<1>1. /\ older' \subseteq older
      /\ \A u, v \in Tasks : <<u, v>> \in older' <=> <<u, v>> \in older /\ u \notin S /\ v \notin S
  BY DEF Remain
<1>2. \A u \in Tasks : u \notin S => task'[u] = task[u] /\ (Putting(u)' <=> Putting(u))
  BY DEF Remain, Putting
<1>3. \A u \in Tasks : u \in S => ~Putting(u)'
  BY DEF Remain
<1> HIDE DEF Remain
<1>4. older' \subseteq Tasks \X Tasks
  BY <1>1 DEF Inv, InOrder
<1>5. ASSUME NEW u \in Tasks, NEW v \in Tasks, <<u, v>> \in older'
      PROVE  /\ Putting(u)' /\ Putting(v)' /\ task'[u].day = task'[v].day
             /\ Covers(task'[v].day, task'[v].blob, task'[u].blob)
  <2>1. /\ Putting(u) /\ Putting(v) /\ task[u].day = task[v].day
        /\ Covers(task[v].day, task[v].blob, task[u].blob)
    BY <1>1, <1>5 DEF Inv, InOrder
  <2> QED
    BY <1>1, <1>2, <1>5, <2>1
<1>6. ASSUME NEW u \in Tasks, NEW v \in Tasks, u # v, Putting(u)', Putting(v)',
             task'[u].day = task'[v].day
      PROVE  <<u, v>> \in older' \/ <<v, u>> \in older'
  <2>1. u \notin S /\ v \notin S
    BY <1>3, <1>6
  <2>2. <<u, v>> \in older \/ <<v, u>> \in older
    BY <1>2, <1>6, <2>1 DEF Inv, InOrder
  <2> QED
    BY <1>1, <2>1, <2>2
<1> QED
  BY <1>4, <1>5, <1>6 DEF InOrder

LEMMA LandsKeeps ==
    ASSUME Inv, NEW t \in Tasks, PutLands(t)
    PROVE  Inv'
<1>1. PICK old \in Run : old = task[t]
  BY RunOf
<1>2. PICK m \in Days \cup Months \cup {None}, blob \in Table : m = old.day /\ blob = old.blob
  BY DEF Run
<1>3. /\ old.at = "put" /\ m \in old.months /\ m \in Months
      /\ Contains(rows, blob)
  BY <1>1, <1>2, RunOf DEF PutLands, Inv, Held
<1>4. /\ kv' = [d \in Days |-> IF Month(d) = m THEN blob[d] ELSE kv[d]]
      /\ older' = Without(t)
      /\ overtaken' = (overtaken \cup {u \in Tasks : <<u, t>> \in older}) \ {t}
      /\ stale' = IF blob = OfMonth(rows, m) THEN stale \ {m}
                  ELSE IF t \in overtaken THEN stale \cup {m} ELSE stale
      /\ UNCHANGED rows
  BY <1>1, <1>2 DEF PutLands
<1> DEFINE run == [old EXCEPT !.at = "publish", !.day = None, !.blob = Empty, !.months = @ \ {m}]
<1>5. task' = [task EXCEPT ![t] = run]
  BY <1>1, <1>2, RunOf DEF PutLands
<1>6. run \in Run /\ run.at = "publish" /\ run.months = old.months \ {m}
  BY IdleTyped DEF Run, Empty, Table
<1> HIDE DEF run
<1>7. /\ task' \in [Tasks -> Run] /\ task'[t] = run
      /\ \A u \in Tasks \ {t} : task'[u] = task[u]
  BY <1>5, <1>6, RunOf
<1>8. \A u \in Tasks : Placed(task'[u])
  BY <1>6, <1>7, RunOf DEF Placed
<1>9. kv \in Table /\ stale \subseteq Months
  BY DEF Inv, Typed, TypeOK
<1>10. kv' \in Table /\ stale' \subseteq Months
  BY <1>3, <1>4, <1>9 DEF Table
<1>11. Rest'
  BY Resting DEF PutLands, Rest
<1>12. Putting(t) /\ ~Putting(t)'
  BY <1>1, <1>3, <1>6, <1>7 DEF Putting
<1>13. InOrder'
  <2>1. Remain({t})
    BY <1>4, <1>7, <1>12 DEF Remain, Without
  <2> QED
    BY <2>1, RemainInOrder
<1>14. Ahead'
  <2>1. \A u \in Tasks : u # t => task'[u] = task[u] /\ (Putting(u)' <=> Putting(u))
    BY <1>7 DEF Putting
  <2>2. ASSUME NEW u \in overtaken' PROVE u \in Tasks /\ Putting(u)'
    <3>1. u # t /\ u \in Tasks /\ Putting(u)
      BY <1>4 DEF Inv, Ahead, InOrder
    <3> QED
      BY <2>1, <3>1
  <2>3. ASSUME NEW u \in Tasks, Putting(u)', u \notin overtaken'
        PROVE  Covers(task'[u].day, task'[u].blob, kv')
    <3>1. u # t /\ Putting(u) /\ task'[u] = task[u]
      BY <1>12, <2>1, <2>3
    <3>2. u \notin overtaken /\ <<u, t>> \notin older
      BY <1>4, <2>3, <3>1
    <3>3. CASE task[u].day = m
      <4>1. <<t, u>> \in older
        BY <1>1, <1>2, <1>12, <3>1, <3>2, <3>3 DEF Inv, InOrder
      <4>2. Covers(m, task[u].blob, blob)
        BY <1>1, <1>2, <3>3, <4>1 DEF Inv, InOrder
      <4> QED
        BY <1>4, <3>1, <3>3, <4>2 DEF Covers
    <3>4. CASE task[u].day # m
      <4>1. Covers(task[u].day, task[u].blob, kv)
        BY <3>1, <3>2 DEF Inv, Ahead
      <4> QED
        BY <1>4, <3>1, <3>4, <4>1 DEF Covers
    <3> QED
      BY <3>3, <3>4
  <2> QED
    BY <2>2, <2>3 DEF Ahead
<1>15. Typed'
  BY <1>4, <1>7, <1>8, <1>10, <1>11, <1>13, <1>14, RunOf, TypedAfter
<1>16. Held'
  BY <1>4, <1>6, <1>7 DEF Inv, Held
<1>17. RatesAgree'
  BY <1>3, <1>4 DEF Inv, RatesAgree, Contains
<1>18. Owed'
  <2> SUFFICES ASSUME NEW n \in Months
               PROVE  Current(n)' \/ n \in stale' \/ \E u \in Tasks : Due(u, n)'
    BY DEF Owed
  <2>1. CASE n # m
    <3>1. Current(n) => Current(n)'
      BY <1>4, <2>1 DEF Current
    <3>2. n \in stale => n \in stale'
      BY <1>4, <2>1
    <3>3. ASSUME NEW u \in Tasks, Due(u, n) PROVE Due(u, n)'
      BY <1>1, <1>4, <1>6, <1>7, <2>1, <3>3 DEF Due
    <3> QED
      BY <3>1, <3>2, <3>3 DEF Inv, Owed
  <2>2. CASE n = m /\ blob = OfMonth(rows, m)
    BY <1>4, <2>2 DEF Current, OfMonth
  <2>3. CASE n = m /\ blob # OfMonth(rows, m)
    <3>1. CASE Current(m)
      <4>1. CASE t \notin overtaken
        <5>1. Covers(m, blob, kv)
          BY <1>1, <1>2, <1>12, <4>1 DEF Inv, Ahead
        <5> QED
          BY <1>3, <1>4, <2>3, <3>1, <5>1, Overtaken DEF Current
      <4>2. CASE t \in overtaken
        BY <1>4, <2>3, <4>2
      <4> QED
        BY <4>1, <4>2
    <3>2. CASE m \in stale
      BY <1>4, <2>3, <3>2
    <3>3. ASSUME NEW u \in Tasks, Due(u, m) PROVE Due(u, m)'
      <4>1. u # t
        BY <1>1, <1>2, <1>3, <2>3, <3>3 DEF Due
      <4> QED
        BY <1>4, <1>7, <3>3, <4>1 DEF Due
    <3> QED
      BY <1>3, <2>3, <3>1, <3>2, <3>3 DEF Inv, Owed
  <2> QED
    BY <2>1, <2>2, <2>3
<1> QED
  BY <1>13, <1>14, <1>15, <1>16, <1>17, <1>18 DEF Inv

\* A write that fails or is cut off leaves the months its run had to write
\* marked, and the run ended.
LEMMA CutOff ==
    ASSUME Inv, NEW S \in SUBSET Tasks, UNCHANGED <<rows, kv>>,
           task' = [u \in Tasks |-> IF u \in S THEN Idle ELSE task[u]],
           stale' = stale \cup UNION {task[u].months : u \in S}, Rest',
           older' = {pair \in older : pair[1] \notin S /\ pair[2] \notin S},
           overtaken' = overtaken \ S
    PROVE  Inv'
<1>1. /\ task' \in [Tasks -> Run] /\ \A u \in Tasks : Placed(task'[u])
      /\ \A u \in Tasks : task'[u].at = "put" => task'[u] = task[u]
  BY RunOf, IdleTyped
<1>2. rows' \in Table /\ kv' \in Table /\ stale' \subseteq Months
  <2>1. kv \in Table /\ stale \subseteq Months /\ rows \in Table
    BY DEF Inv, Typed, TypeOK
  <2>2. \A u \in Tasks : task[u].months \subseteq Months
    BY RunOf
  <2> QED
    BY <2>1, <2>2
<1>6. \A u \in Tasks : /\ u \in S => ~Putting(u)'
                       /\ u \notin S => task'[u] = task[u] /\ (Putting(u)' <=> Putting(u))
  <2> SUFFICES ASSUME NEW u \in Tasks
               PROVE  /\ u \in S => task'[u].at # "put"
                      /\ u \notin S => task'[u] = task[u]
    BY DEF Putting
  <2> QED
    BY IdleTyped
<1>7. InOrder'
  <2>1. Remain(S)
    BY <1>6 DEF Remain
  <2> QED
    BY <2>1, RemainInOrder
<1>8. Ahead'
  <2>1. \A u \in overtaken' : u \in Tasks /\ Putting(u)'
    BY <1>6 DEF Inv, Ahead
  <2>2. ASSUME NEW u \in Tasks, Putting(u)', u \notin overtaken'
        PROVE  Covers(task'[u].day, task'[u].blob, kv')
    <3>1. u \notin S /\ Putting(u) /\ task'[u] = task[u] /\ u \notin overtaken
      BY <1>6, <2>2
    <3> QED
      BY <3>1 DEF Inv, Ahead
  <2> QED
    BY <2>1, <2>2 DEF Ahead
<1>3. Typed'
  BY <1>1, <1>2, <1>7, <1>8, TypedAfter
<1>4. Held' /\ RatesAgree'
  BY <1>1 DEF Inv, Held, RatesAgree, Contains
<1>5. Owed'
  <2> SUFFICES ASSUME NEW m \in Months
               PROVE  Current(m)' \/ m \in stale' \/ \E u \in Tasks : Due(u, m)'
    BY DEF Owed
  <2>1. Current(m) => Current(m)'
    BY DEF Current
  <2>2. m \in stale => m \in stale'
    OBVIOUS
  <2>3. ASSUME NEW u \in Tasks, Due(u, m) PROVE m \in stale' \/ Due(u, m)'
    <3>1. CASE u \in S
      BY <2>3, <3>1 DEF Due
    <3>2. CASE u \notin S
      BY <2>3, <3>2 DEF Due, OfMonth
    <3> QED
      BY <3>1, <3>2
  <2> QED
    BY <2>1, <2>2, <2>3 DEF Inv, Owed
<1> QED
  BY <1>3, <1>4, <1>5, <1>7, <1>8 DEF Inv

LEMMA FailsKeeps ==
    ASSUME Inv, NEW t \in Tasks, PutFails(t)
    PROVE  Inv'
<1>1. task' = [u \in Tasks |-> IF u \in {t} THEN Idle ELSE task[u]]
  BY RunOf DEF PutFails
<1>2. /\ stale' = stale \cup UNION {task[u].months : u \in {t}} /\ UNCHANGED <<rows, kv>>
      /\ older' = {pair \in older : pair[1] \notin {t} /\ pair[2] \notin {t}}
      /\ overtaken' = overtaken \ {t}
  BY DEF PutFails, Without
<1>3. Rest'
  BY Resting DEF PutFails, Rest
<1> QED
  BY <1>1, <1>2, <1>3, CutOff

LEMMA EvictKeeps ==
    ASSUME Inv, Evict
    PROVE  Inv'
<1>1. task' = [u \in Tasks |-> IF u \in Tasks THEN Idle ELSE task[u]]
  BY DEF Evict
<1>2. /\ stale' = stale \cup UNION {task[u].months : u \in Tasks} /\ UNCHANGED <<rows, kv>>
      /\ older' = {} /\ overtaken' = {}
  BY DEF Evict
<1>4. /\ older' = {pair \in older : pair[1] \notin Tasks /\ pair[2] \notin Tasks}
      /\ overtaken' = overtaken \ Tasks
  BY <1>2 DEF Inv, InOrder, Ahead
<1>3. Rest'
  BY Resting DEF Evict, Rest
<1> QED
  BY <1>1, <1>2, <1>3, <1>4, CutOff

LEMMA UntouchedKeeps ==
    ASSUME Inv, Rest', UNCHANGED <<rows, kv, task, ghosts>>
    PROVE  Inv'
<1> USE DEF ghosts
<1>1. InOrder' /\ Ahead'
  BY DEF Inv, InOrder, Ahead, Putting, Covers
<1>2. Typed'
  BY <1>1, RunOf, TypedAfter DEF Inv, Typed, TypeOK
<1>3. Held' /\ RatesAgree'
  BY DEF Inv, Held, RatesAgree, Contains
<1>4. Owed'
  BY DEF Inv, Owed, Current, Due, OfMonth
<1> QED
  BY <1>1, <1>2, <1>3, <1>4 DEF Inv

-----------------------------------------------------------------------------
(* The theorems. *)

LEMMA Initially == Init => Inv
<1> SUFFICES ASSUME Init PROVE Inv
  OBVIOUS
<1>1. Empty \in Table
  BY DEF Empty, Table
<1>2. Rest
  BY FxAssumption DEF Init, Rest, Days
<1>3. task \in [Tasks -> Run] /\ \A u \in Tasks : Placed(task[u]) /\ task[u].at = "idle"
  BY IdleTyped DEF Init
<1>4. Typed
  BY <1>1, <1>2, <1>3, IdleTyped DEF Typed, TypeOK, Rest, Init
<1>5. Held /\ RatesAgree /\ InOrder /\ Ahead /\ Owed
  BY <1>3 DEF Init, Held, RatesAgree, Contains, InOrder, Ahead, Putting, Owed, Current
<1> QED
  BY <1>4, <1>5 DEF Inv

LEMMA InvStep == Inv /\ [Next]_vars => Inv'
<1> SUFFICES ASSUME Inv, [Next]_vars PROVE Inv'
  OBVIOUS
<1>1. CASE Refresh
  <2>1. Rest'
    BY <1>1, Resting DEF Refresh, Rest
  <2> QED
    BY <1>1, <2>1, RefreshGoes, InvFromGoes
<1>2. CASE RepublishAll
  <2>1. Rest'
    BY <1>2, Resting DEF RepublishAll, Rest
  <2> QED
    BY <1>2, <2>1, RepublishGoes, InvFromGoes
<1>3. CASE Evict
  BY <1>3, EvictKeeps
<1>4. CASE Midnight
  <2>1. Rest'
    BY <1>4, Resting, FxAssumption DEF Midnight, Rest, Days
  <2> QED
    BY <1>4, <2>1, UntouchedKeeps DEF Midnight
<1>5. ASSUME NEW t \in Backfills, NEW d \in Days, NEW c \in Currencies, Backfill(t, d, c)
      PROVE  Inv'
  BY <1>5, BackfillGoes, InvFromGoes DEF Tasks
<1>6. ASSUME NEW t \in Tasks, Answer(t) \/ NoAnswer(t) \/ AnswerRange(t) \/ Publish(t) \/ Published(t)
      PROVE  Inv'
  <2>1. Rest'
    BY <1>6, Resting DEF Answer, NoAnswer, AnswerRange, Publish, Published, Rest
  <2> QED
    BY <1>6, <2>1, AnswerGoes, NoAnswerGoes, AnswerRangeGoes, PublishGoes, PublishedGoes,
       InvFromGoes
<1>7. ASSUME NEW t \in Tasks, PutLands(t) \/ PutFails(t)
      PROVE  Inv'
  BY <1>7, LandsKeeps, FailsKeeps
<1>8. ASSUME NEW d \in Days, CooldownEnds(d)
      PROVE  Inv'
  <2>1. Rest'
    BY <1>8, Resting DEF CooldownEnds, Rest
  <2> QED
    BY <1>8, <2>1, UntouchedKeeps DEF CooldownEnds
<1>9. CASE UNCHANGED vars
  <2>1. Rest'
    BY <1>9, Resting DEF vars, Rest
  <2> QED
    BY <1>9, <2>1, UntouchedKeeps DEF vars
<1> QED
  BY <1>1, <1>2, <1>3, <1>4, <1>5, <1>6, <1>7, <1>8, <1>9 DEF Next

LEMMA Invariant == Spec => []Inv
BY Initially, InvStep, PTL DEF Spec

\* Every table, key and run holds what it may, and a run that asks has a
\* provider to ask and something to ask for.
THEOREM TypeCorrect == Spec => []TypeOK
<1>1. Inv => TypeOK
  BY DEF Inv, Typed
<1> QED
  BY <1>1, Invariant, PTL

\* A published rate has the source its row has, however runs overlap.
THEOREM RatesHold == Spec => []RatesAgree
<1>1. Inv => RatesAgree
  BY DEF Inv
<1> QED
  BY <1>1, Invariant, PTL

\* A month nobody is about to write is current in KV, unless its last write
\* failed, was cut off, or landed after one whose rows were read later.
THEOREM PublishedHolds == Spec => []PublishedWhole
<1>1. Inv => PublishedWhole
  <2> SUFFICES ASSUME Inv, NEW d \in Days, ~Working(Month(d)), Month(d) \notin stale
               PROVE  kv[d] = rows[d]
    BY DEF PublishedWhole
  <2>1. Current(Month(d))
    BY MonthOf DEF Inv, Owed, Due, Working
  <2> QED
    BY <2>1 DEF Current
<1> QED
  BY <1>1, Invariant, PTL
=============================================================================
