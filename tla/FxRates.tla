-------------------------------- MODULE FxRates --------------------------------
(***************************************************************************)
(* Exchange rates: one Durable Object keeps them, KV serves them.          *)
(*                                                                         *)
(* The object asks providers in turn, stores what they answer and never    *)
(* overwrites it, then writes each changed month to KV whole, as read from *)
(* its rows (do/fx/index.ts).  Asking and writing are awaits, so the daily *)
(* run, backfills that devices ask for and a republication run between     *)
(* each other's steps.  Devices read the month blobs (api/reference.ts)    *)
(* and keep every rate they read.                                          *)
(*                                                                         *)
(* A rate is the provider it came from: two providers never agree on one.  *)
(* provider_health is left out, nothing in the program reads it.           *)
(***************************************************************************)
EXTENDS Integers, FiniteSets, FiniteSetsExt, Sequences

CONSTANTS
    Currencies,
    Official,           \* those the first provider covers (ECB's)
    None,
    Backfills,          \* backfill requests that can be under way at once
    MonthLength,        \* days in a month
    HISTORY_DAYS,       \* how far back history is kept free of gaps
    STALE_AFTER_DAYS,   \* how old a rate may be and still answer for a day
    BACKFILL_ATTEMPTS,  \* how often one day is chased
    MaxDay,             \* bound: the last day
    MaxRuns,            \* bound: daily runs and republications
    MaxFaults           \* bound: failed KV writes and evictions

ASSUME FxAssumption ==
    /\ Official \subseteq Currencies /\ IsFiniteSet(Currencies)
    /\ {MonthLength, STALE_AFTER_DAYS, MaxDay} \subseteq Nat \ {0}
    /\ {HISTORY_DAYS, BACKFILL_ATTEMPTS, MaxRuns, MaxFaults} \subseteq Nat
    /\ HISTORY_DAYS < MaxDay
    /\ "daily" \notin Backfills

VARIABLES
    today,
    rows,        \* fx_rates: the source of each day's rate for each currency
    requests,    \* backfill_requests: attempts, and whether in the cooldown
    kv,          \* the published rates, as the month blobs hold them
    task,        \* what each run in the object does next
    older,       \* ghost: pairs of writes under way to one month, the one whose
                 \* rows were read first before the other
    overtaken,   \* ghost: writes under way after one read later has landed
    stale,       \* ghost: months with a write that failed, was cut off or landed
                 \* overtaken, and not up to date since
    runs, faults

ghosts == <<older, overtaken, stale>>
vars == <<today, rows, requests, kv, task, ghosts, runs, faults>>

Days == 1..MaxDay
Month(d) == (d - 1) \div MonthLength
Months == {Month(d) : d \in Days}
Tasks == {"daily"} \cup Backfills

\* The waterfall: ECB's rates through Frankfurter, then the paid latest-only one.
providers ==
    <<[name |-> "frankfurter", covers |-> Official, history |-> TRUE],
      [name |-> "exchangerate_v6", covers |-> Currencies, history |-> FALSE]>>

Source == {providers[n].name : n \in DOMAIN providers}
Table == [Days -> [Currencies -> Source \cup {None}]]
Empty == [d \in Days |-> [c \in Currencies |-> None]]
Gap == [from : Days, to : Days]
Idle == [at |-> "idle", job |-> "none", day |-> None, wanted |-> {}, next |-> 0,
         gaps |-> {}, months |-> {}, blob |-> Empty]

\* Every variable holds what its table, key or local variable may, and a run
\* that has nothing left to ask or write has ended.
TypeOK ==
    /\ today \in Days
    /\ rows \in Table /\ kv \in Table
    /\ requests \in [Days -> [attempts : 0..BACKFILL_ATTEMPTS, cooling : BOOLEAN]]
    /\ \A t \in Tasks :
          /\ task[t].at \in {"idle", "ask", "publish", "put"}
          /\ task[t].at = "idle" => task[t] = Idle
          /\ task[t].at = "ask" => /\ task[t].next \in DOMAIN providers
                                   /\ task[t].wanted # {} \/ task[t].gaps # {}
          /\ task[t].gaps \subseteq Gap /\ task[t].months \subseteq Months
    /\ older \subseteq Tasks \X Tasks /\ overtaken \subseteq Tasks /\ stale \subseteq Months
    /\ runs \in Nat /\ faults \in Nat

-----------------------------------------------------------------------------
(* What the object knows. *)

Holds(table, d) == \E c \in Currencies : table[d][c] # None

\* Currencies with no rate recent enough to answer for a day.
missingFor(d) ==
    {c \in Currencies : \A e \in Days \cap (d - STALE_AFTER_DAYS)..d : rows[e][c] = None}

\* Stretches of the last HISTORY_DAYS too long without a publication; the
\* edges of the year count as publications.
Gaps ==
    LET floor == today - HISTORY_DAYS
        Published(d) == Holds(rows, d)
    IN {g \in [from : floor..today, to : floor..today] :
          /\ g.from = floor \/ Published(g.from - 1)
          /\ g.to = today \/ Published(g.to + 1)
          /\ \A d \in g.from..g.to : ~Published(d)
          /\ g.to - g.from + 2 > STALE_AFTER_DAYS + 1}

\* Mutant: a later answer replaces what is stored.
Stored_Overwrites(day, got, source) ==
    [rows EXCEPT ![day] = [c \in Currencies |-> IF c \in got THEN source ELSE @[c]]]

\* store: one day's rates; what is there stays.
Stored(day, got, source) ==
    [rows EXCEPT ![day] = [c \in Currencies |->
        IF c \in got /\ @[c] = None THEN source ELSE @[c]]]

\* The months a store added rates to.
Changed(new) == {Month(d) : d \in {e \in Days : new[e] # rows[e]}}

-----------------------------------------------------------------------------
(* The waterfall.  `next` is the provider being asked.                      *)

\* The first provider from n on that this job may ask; a latest-only one asked
\* for a past day would mislabel today's rates.
Usable(job, n) ==
    {k \in n..Len(providers) : job = "latest" \/ providers[k].history}

\* The run t goes on at provider n or after it, or with what it has to publish.
Continue(t, run, n) ==
    task' = [task EXCEPT ![t] =
        IF run.wanted # {} /\ Usable(run.job, n) # {}
        THEN [run EXCEPT !.at = "ask", !.next = Min(Usable(run.job, n))]
        ELSE [run EXCEPT !.at = "publish", !.next = 0]]

\* refresh: the daily run begins with the latest publication.
Refresh ==
    /\ runs < MaxRuns /\ runs' = runs + 1
    /\ task["daily"].at = "idle"
    /\ Continue("daily", [Idle EXCEPT !.job = "latest", !.wanted = Currencies], 1)
    /\ UNCHANGED <<today, rows, requests, kv, ghosts, faults>>

\* Mutant: the attempts already made are not looked at.
Throttled_CooldownOnly(d) == requests[d].cooling

\* Chased within the hour, or too often.
Throttled(d) ==
    requests[d].attempts >= BACKFILL_ATTEMPTS \/ requests[d].cooling

\* backfill: a day a device asked for, counted before anybody is asked.
Backfill(t, d, c) ==
    /\ task[t].at = "idle"
    /\ d <= today /\ c \in missingFor(d) /\ ~Throttled(d)
    /\ requests' = [requests EXCEPT ![d] = [attempts |-> @.attempts + 1, cooling |-> TRUE]]
    /\ Continue(t, [Idle EXCEPT !.job = "day", !.day = d, !.wanted = missingFor(d)], 1)
    /\ UNCHANGED <<today, rows, kv, ghosts, runs, faults>>

\* A provider answers for the latest day or the one asked for, or for the last
\* publication before it, with some of the currencies still wanted.
Answer(t) ==
    /\ task[t].at = "ask" /\ task[t].job \in {"latest", "day"}
    /\ LET run == task[t]
           provider == providers[run.next]
           asked == IF run.job = "day" THEN run.day ELSE today
       IN \E day \in {asked, asked - 1} \cap Days :
          \E got \in SUBSET (provider.covers \cap run.wanted) \ {{}} :
             LET new == Stored(day, got, provider.name)
             IN /\ rows' = new
                /\ Continue(t, [run EXCEPT !.wanted = @ \ got,
                                           !.months = @ \cup Changed(new)], run.next + 1)
    /\ UNCHANGED <<today, requests, kv, ghosts, runs, faults>>

\* It fails, times out or has nothing.
NoAnswer(t) ==
    /\ task[t].at = "ask" /\ task[t].job \in {"latest", "day"}
    /\ Continue(t, task[t], task[t].next + 1)
    /\ UNCHANGED <<today, rows, requests, kv, ghosts, runs, faults>>

-----------------------------------------------------------------------------
(* History and publication.                                                 *)

\* The run goes on with the oldest of these gaps, or publishes.  Only the first
\* provider answers for a range.
FillNext(t, run, gaps) ==
    task' = [task EXCEPT ![t] = [run EXCEPT !.job = "gaps", !.gaps = gaps,
        !.wanted = {}, !.at = IF gaps = {} THEN "publish" ELSE "ask",
        !.next = IF gaps = {} THEN 0 ELSE 1]]

Oldest(gaps) == CHOOSE g \in gaps : \A h \in gaps : g.from <= h.from

\* The provider's answer for one gap: some of its days, or nothing.
AnswerRange(t) ==
    /\ task[t].at = "ask" /\ task[t].job = "gaps"
    /\ LET run == task[t]
           gap == Oldest(run.gaps)
       IN \E days \in SUBSET (gap.from..gap.to) :
             LET new == [d \in Days |-> IF d \in days
                          THEN Stored(d, Official, providers[run.next].name)[d] ELSE rows[d]]
             IN /\ rows' = new
                /\ FillNext(t, [run EXCEPT !.months = @ \cup Changed(new)], run.gaps \ {gap})
    /\ UNCHANGED <<today, requests, kv, ghosts, runs, faults>>

\* republishAll: every month with a rate.
RepublishAll ==
    /\ runs < MaxRuns /\ runs' = runs + 1
    /\ task["daily"].at = "idle"
    /\ task' = [task EXCEPT !["daily"] = [Idle EXCEPT !.at = "publish", !.job = "all",
                  !.months = {Month(d) : d \in {e \in Days : Holds(rows, e)}}]]
    /\ UNCHANGED <<today, rows, requests, kv, ghosts, faults>>

\* Mutant: only the latest day is written, not the whole month.
OfMonth_Latest(table, m) ==
    [d \in Days |-> IF Month(d) = m /\ \A e \in Days : Month(e) = m /\ Holds(table, e) => e <= d
                    THEN table[d] ELSE Empty[d]]

OfMonth(table, m) == [d \in Days |-> IF Month(d) = m THEN table[d] ELSE Empty[d]]

Writing(m) == {t \in Tasks : task[t].at = "put" /\ task[t].day = m}

\* publish: the next month's rows are read, and their write to KV begins.
Publish(t) ==
    /\ task[t].at = "publish"
    /\ \E m \in task[t].months :
          /\ task' = [task EXCEPT ![t].at = "put", ![t].day = m, ![t].blob = OfMonth(rows, m)]
          /\ older' = older \cup (Writing(m) \X {t})
    /\ UNCHANGED <<today, rows, requests, kv, overtaken, stale, runs, faults>>

\* Everything is published: the run ends, or goes from the latest rates to the
\* history.
Published(t) ==
    /\ task[t].at = "publish" /\ task[t].months = {}
    /\ IF task[t].job = "latest" /\ Gaps # {} THEN FillNext(t, Idle, Gaps)
       ELSE task' = [task EXCEPT ![t] = Idle]
    /\ UNCHANGED <<today, rows, requests, kv, ghosts, runs, faults>>

Contains(new, old) ==
    \A d \in Days : \A c \in Currencies : old[d][c] # None => new[d][c] = old[d][c]

\* A write of t is no longer under way.
Without(t) == {pair \in older : pair[1] # t /\ pair[2] # t}

\* The month's key takes this blob; the last write to land wins.  A write whose
\* rows were read before those of one that has landed takes it back.
PutLands(t) ==
    /\ task[t].at = "put"
    /\ LET m == task[t].day
           blob == task[t].blob
       IN /\ kv' = [d \in Days |-> IF Month(d) = m THEN blob[d] ELSE kv[d]]
          /\ older' = Without(t)
          /\ overtaken' = (overtaken \cup {u \in Tasks : <<u, t>> \in older}) \ {t}
          /\ stale' = IF blob = OfMonth(rows, m) THEN stale \ {m}
                      ELSE IF t \in overtaken THEN stale \cup {m} ELSE stale
          /\ task' = [task EXCEPT ![t].at = "publish", ![t].day = None,
                                  ![t].blob = Empty, ![t].months = @ \ {m}]
    /\ UNCHANGED <<today, rows, requests, runs, faults>>

\* The write is refused: the run ends there, its other months unwritten.
PutFails(t) ==
    /\ faults < MaxFaults /\ faults' = faults + 1
    /\ task[t].at = "put"
    /\ older' = Without(t) /\ overtaken' = overtaken \ {t}
    /\ stale' = stale \cup task[t].months
    /\ task' = [task EXCEPT ![t] = Idle]
    /\ UNCHANGED <<today, rows, requests, kv, runs>>

\* The object is evicted: its runs end, its rows stay.
Evict ==
    /\ faults < MaxFaults /\ faults' = faults + 1
    /\ older' = {} /\ overtaken' = {}
    /\ stale' = stale \cup UNION {task[t].months : t \in Tasks}
    /\ task' = [t \in Tasks |-> Idle]
    /\ UNCHANGED <<today, rows, requests, kv, runs>>

-----------------------------------------------------------------------------
(* Time.                                                                    *)

CooldownEnds(d) ==
    /\ requests[d].cooling
    /\ requests' = [requests EXCEPT ![d].cooling = FALSE]
    /\ UNCHANGED <<today, rows, kv, task, ghosts, runs, faults>>

Midnight ==
    /\ today < MaxDay
    /\ today' = today + 1
    /\ UNCHANGED <<rows, requests, kv, task, ghosts, runs, faults>>

Init ==
    /\ today = HISTORY_DAYS + 1
    /\ rows = Empty /\ kv = Empty
    /\ requests = [d \in Days |-> [attempts |-> 0, cooling |-> FALSE]]
    /\ task = [t \in Tasks |-> Idle]
    /\ older = {} /\ overtaken = {} /\ stale = {} /\ runs = 0 /\ faults = 0

Next ==
    \/ Refresh \/ RepublishAll \/ Evict \/ Midnight
    \/ \E t \in Backfills, d \in Days, c \in Currencies : Backfill(t, d, c)
    \/ \E t \in Tasks : \/ Answer(t) \/ NoAnswer(t) \/ AnswerRange(t)
                         \/ Publish(t) \/ Published(t) \/ PutLands(t) \/ PutFails(t)
    \/ \E d \in Days : CooldownEnds(d)

Spec == Init /\ [][Next]_vars

-----------------------------------------------------------------------------
(* Properties. *)

Working(m) == \E t \in Tasks : m \in task[t].months

\* A month nobody is about to write says in KV what the rows say, unless its
\* last write failed, was cut off, or landed after one that was read later:
\* whatever else runs beside each other, every rate stored is published.
PublishedWhole ==
    \A d \in Days : Working(Month(d)) \/ Month(d) \in stale \/ kv[d] = rows[d]

\* "One writer removes the race": with no write refused and no object evicted,
\* a month nobody is about to write says in KV what the rows say.
RaceRemoved ==
    faults = 0 => \A d \in Days : Working(Month(d)) \/ kv[d] = rows[d]

\* An expense keeps the source of the rate it was converted with: whatever
\* runs overlap, no blob names another source for a day than the rows do.
RatesAgree == Contains(rows, kv)

=============================================================================
