# OpenSplit in TLA+

OpenSplit is a local-first expense splitter. A Flutter client keeps a full copy
of its owner's groups and queues its writes; a Cloudflare Worker routes each
request to the one Durable Object that owns the group; D1 holds accounts and a
derived index of who is in which group. This directory models the parts whose
correctness depends on order, concurrency or failure, checks them with TLC, and
proves what holds for any number of accounts, rows and tokens with TLAPS.

## The system

| Component | State it keeps | Operations | Talks to |
|---|---|---|---|
| Group object (`server/src/do/group`) | `meta`, `members`, `entries`, `events`, `invites`, `group_link`, `counter`, `tombstone` | put group / member / entry, links, invites, join, forget, hand over, purge | index (staged rows), devices (change feed), push |
| Index delivery (`do/group/index.ts`, `upkeep.ts`) | `outbox`, `schedule`, the alarm, the flush chain | stage, drain, back off, settle | D1 `memberships`, `link_tokens`, `purged_groups` |
| Ending an account (`forget.ts`, `scheduled.ts`, `api/account.ts`, `auth.ts`) | D1 `user`, `profiles`, `memberships` | delete, sign a guest in elsewhere, daily sweeps | every group the account is in |
| Change feed (`do/group/changes.ts`) | none of its own | a page past a cursor | devices |
| Device sync (`lib/data/sync`) | local tables, `outbox`, cursors, parked conflicts | queue, push, pull, apply, discard, retry | API; the screens (through the database) |
| Sync coordinator (`lib/application/sync_coordinator.dart`) | pending groups, retry timer, paused flag | start, resume, sync one / all, drain | device sync |
| Sync gates (`sync_gate_native/web.dart`) | a lease row, a browser lock | claim, renew, assert, release | isolates and tabs of one device |
| Shared feeds (`shared_feeds.dart`, `db/d1/profile-version.ts`) | the D1 profile version counter, device cursors | page through profiles, currencies, rates | API |
| Exchange rates (`do/fx`) | rates by day and currency, KV month blobs | refresh, backfill, fill history, publish | providers, KV |
| Splitting and balances (`lib/domain/split`, `balance`) | none | allocate, resolve a split, fold, simplify, pair up | forms, screens |
| Identity (`server/src/identity`) | provider links of an account | attach, detach, recover | Better Auth (library) |
| Push (`push/fcm.ts`, `lib/data/push`, `service_worker`) | device tokens | wake, describe | FCM (external) |

What is hard in it:

* **Order inside one object.** The object runs one transaction at a time, so a
  handler is atomic; what can go wrong is a *sequence* of legal requests: leave,
  be invited back as somebody else, claim a placeholder, be handed a guest's
  place, be deleted.
* **Awaits.** Delivery to D1, the deletion of an account, a sign-in and the daily
  sweep all run between each other's awaits, and a call to D1 may fail, take
  effect and still report failure, or land after it was given up on.
* **Crashes.** An object is evicted, a Worker stops halfway.
* **Stale copies.** Devices write offline and retry what was already done; cursors,
  cached rates and index rows are all read later than they were written.

`PROJECT.json` lists each hazard at its line, with the property that would catch
it or a note saying why none does.

## Modules

### `Group` — one group's object

The whole object: 12 tables reduced to the variables `seq`, `meta`, `tombstone`,
`members`, `entries`, `events`, `invites`, `groupLink`, and for the index `minted`,
`staged`, `stagedPurge` (the newest row owed for each account; `IndexFlush` models
how they travel). One action per handler:

| Action | Code |
|---|---|
| `CreateGroup`, `UpdateGroup` | `putGroup` → `createGroup`, `updateGroup` |
| `AddMember`, `UpdateMember` | `putMember`: adding a placeholder; renaming, payment handle, leaving, removal, return |
| `PutEntry` | `putEntry` with every assertion of `ledger.ts` and the snapshot event |
| `CreateInvite`, `CreateGroupLink`, `RevokeGroupLink`, `Expire` | `invites.ts`; time is only what it decides: whether a token has expired |
| `RedeemInvite`, `Rejoin`, `ClaimPlaceholder`, `JoinAsNew` | the four ways through `join` |
| `ForgetProfile`, `HandOverPlace`, `HandOverBeside` | account deletion and the two outcomes of a guest signing in |

A refusal rolls the transaction back, so it is a disabled action; an answer that
changes nothing is a stutter. `alarm`/`runUpkeep` collect only a group without an
active account, which `Owned` shows never exists between requests, so they have no
action. Left out: text, icons, categories, dates, read-only previews, push notices.

`editor` is a history variable: whose request edited a member in the last step, if one did.
The rows do not say it, and `DetailsAreTheirOwn` is about it.

| Run | Instance | Shows |
|---|---|---|
| `group` (`MCGroup`) | 3 accounts, 3 member rows, 2 entries in 2 currencies, 2 tokens, 1 name (or payment handle), 2 looks of the group | Roster: `OnePlacePerAccount`, `Owned`, `LiveXorGone`, `OneOpenInvite`, `SignInKeepsAccess`, `ImplementsParticipation`, `DetailsAreTheirOwn` (the name and payment handle of an account's place change by its own request only). Records: `StagedMirrorsRoster`, `RecordMatchesRoster`, `SnapshotCurrent`, `FeedSeesEveryChange`. Money: `DepartedSettled`, `EndsSettled` |

`MaxSeq` is 5: five numbers reach the sequences the properties turn on (create, add, join
or spend, leave or settle, return or edit; creating takes one and so does every write
after it). Three accounts are enough for a guest, its heir and a bystander; three rows
for two places and a placeholder; two entries for a settlement beside the expense it
settles. Accounts, tokens and looks are interchangeable; member ids are not, because the
entries tell them apart. With one label a handle is set or cleared and no name
changes: the proofs cover any set of labels. An entry has no field here that its snapshot
lacks and a write that changes nothing is a stutter, so `appendSnapshot` never finds its
snapshot unchanged.

### `Participation` — what a group promises about who takes part

The abstract specification of both modules below and above: an account is active, has
left or is nobody; a group begins when somebody enters, goes on while an account is
active, and ends for good with the last one. No rows, tokens, numbers or deliveries.
It has six steps (`Enter`, `Leave`, `Forget`, `HandOver`, `ReturnFor`, `End`) and no
liveness. `Group` implements it with `status` read off the group row and the tombstone
and `place` off the row an account holds; `IndexFlush` with its own two variables of
the same names. That is how the reduced roster inside `IndexFlush` is known to behave
as the real one: both are checked against one specification (`group`,
`index_delivery`), and both are proved to implement it. Each of its steps changes
somebody's standing, which `Next` says first so that TLC passes over the rest quickly.

### `IndexFlush` — the index in D1, and how an account ends

Between its awaits the object's drain is in one of five phases (`send`, `read`,
`clear`, `forget`, `idle`); `asked` stands for the settles queued behind it, `alarm`
for the object's one alarm. A deletion is a run of `forgetAccount` at `read`, `tell`,
`erase` or `empty`; a request and the sweep can each be running one for the same
account. Roster details are `Group`'s: here an account is absent, active or has left,
and an empty roster is collected in the same transaction.

| Action | Code |
|---|---|
| `Arrive`, `Leave`, `Mint` | a handler's transaction, staging its row (`write`) |
| `StartDrain`, `Send`, `ReadAccount`, `Clear`, `EndDrain`, `AlarmFires` | `flush`, `drain`, `apply`, `clearOutbox`, `settle`, `alarm` |
| `Refused`, `StrayLands`, `Evict` | a D1 call that fails before or after its effect (`backoffOutbox`); one that lands late; the object evicted between awaits |
| `DeleteAccount`, `SignIn`, `CollectGuest`, `Sweep` | what removes a `user` row, and `finishDeletions` |
| `ReadMemberships`, `TellGroup`, `EraseRow`, `EmptyProfile`, `Interrupt` | the steps of `forgetAccount`, and its Worker stopping |

Simplifications. One group (so one turn of the loop over groups); a request does not ask
whether its account still exists, because the session was checked before the object
was called; the caller of `forgetProfile` does not wait for the object's settle; a
batch of 20 outbox rows is read one at a time (later rows only have later ids). All these
allow more behaviours or have no effect on the properties. One allows fewer: `EndDrain`
and `Refused` do the rest of `settle` (`index.ts:177-182`) in the same step, whose awaits
are the object's own storage, so two settles never stand between those awaits.

`Faults` names the kinds of fault an instance has, `MaxFaults` how many may happen:
`evict` (the object is evicted), `late` (a D1 write given up on lands later),
`interrupt` (the Worker running a deletion stops). D1 refusing a call is not a fault
to be counted: it may happen any number of times.

| Run | Instance | Shows |
|---|---|---|
| `index_delivery` | 2 accounts, 4 ids, one eviction or late write | `IndexMirrors`: nothing owed means index = roster. `PurgedStaysOut`: a collected group never comes back. `ImplementsParticipation` |
| `index_live` | 2 accounts, 2 ids, one late write or one stopped Worker | `DeletionsComplete` (by the sweep where the request stopped), `EverythingSent` |
| `index_sign_in` | 2 accounts | **violation** of `SignInMovesAccess` |

`index_delivery` needs no stopped Worker: it assumes no fairness, so a deletion may
already take no further step while a sweep runs beside it; what a stopped Worker puts at
risk is liveness. An eviction is left out of `index_live` because `EverythingSent` does not survive
one (Findings).

Fairness (`FairSpec`): the drain, the alarm and the deletion steps are weakly fair
(the runtime resumes a pending promise, the platform repeats an alarm, the cron runs
daily); `Send`, `ReadAccount` and `Clear` are strongly fair because D1 may refuse any
number of times but not for ever. People never have to act, a late write never has to
land, and no crash has to happen. Ids cap what people do; deletions, retries and the
rows they stage are not capped, so the liveness runs reach the end of every retry.

Deadlock checking is off in these runs: people may stop acting, and with nothing owed
the system rests.

### `DeviceSync` — a device's copy, its outbox and a sync run

One device, one group, members and expenses; the server is `Group` reduced to what its
answers depend on, and other people's devices write to it at any moment. A row is its
text, for an expense the members it names, and for a member whether an account holds
the place, which only the server decides. A deleted expense keeps its row, marked
(`Deleted`); an edit is not an undelete (`Writes`). `local`, `queue`, `parked` and `cursor` are
the tables that survive a kill; `step`, `batch`, `sending` and `page` are the run.
`stored`, `origin` and `forgotten` are history: what the server ever had, where a row was
created (an id is made in one place), and what this device gave up because it recorded no
version of it.

| Action | Code |
|---|---|
| `Edit` | the repositories' transaction: row, `enqueueInTransaction`, conflict dismissed |
| `StartRun`, `NextRound`, `SendNext` | `_run`, `push`: rounds of due items in queue order, up to the first that is backing off |
| `PassOver` | an item replaced by a newer edit is passed over and stays queued; the deletion of an expense without a recorded version is completed without being sent (`sync_engine.dart:461`) |
| `ServerTakes`, `Acknowledge`, `Complete` | the request, `_pushOne` recording the answered number, `complete` unless a newer edit came |
| `Park`, `SetAside`, `Lost`, `BackOffEnds` | `_parkConflict`, a final refusal, `fail` and its back-off |
| `AskPage`, `Apply`, `PageLost` | `_pull`, `changesSince` with its cut, `applyGroupChanges` |
| `DiscardRefused`, `RetryRefused` | the screens' two answers to refused writes |
| `StrayArrives`, `Crash` | a request arriving after its time-out, the app killed between any two steps |
| `OthersWrite`, `Claim` | other devices, and somebody joining as a placeholder |

| Run | Instance | Shows |
|---|---|---|
| `device` | 1 expense, 1 member, created by either side; others write 3 times, 2 edits or deletions here, 1 fault, 1 discard or retry, pages of 1 change | `CaughtUp`: a row read past and with nothing unsent says what the server says. `SentInOrder`: an expense is refused for a missing member only after a second edit. `NoEditLost`: a write leaves the queue only stored, parked, discarded or passed over. `EveryWriteAnswered` |
| `device_delete` | the same | **violation** of `NothingRemote` |

One expense, one member and pages of one change are enough for the two ways a row can
refer to another (named, not yet sent) and put a page boundary between any two writes.
Two edits give an edit or a deletion during a push, or one of each row. One
fault is a lost request, a lost answer, a stray or a kill at any step.

`CaughtUp` has one exception, `forgotten`, which names its cause: rows of which no version
was recorded here when their refused write was discarded or their deletion passed over,
and expenses a page brought that were left out because they name such a member. They
stay there until a page brings the row or an answer to it is recorded; until then the
server may have what this device has given up (`device_delete`, and Findings).
`CaughtUp` compares what people write and not who holds a place (Findings).
`NoEditLost` excepts the same deletions (`NeverSent`).

Fairness: runs follow runs and each step of one is answered or times out (`WF` of
`RunStep`: the coordinator asks for a run on start, on resume, after a write and when a
back-off ends), and back-offs end. Faults are capped, edits and discards are the
user's. Deadlock is checked: a run can always start.

Left out: the group row and its creation, the removal of a group the account lost,
refused departures, the cap of 50 rounds,
dismissing a conflict. The lease and ended sessions are `SyncRun`'s, profiles
`Profiles`'.

### `SyncRun` — who synchronizes a ledger, and when

The app's coordinator, and a push handler in an isolate of its own, on one database:
triggers and the flags they are coalesced into (`coord`), one run per isolate (`run`),
the lease row that lets one in at a time, the session's epoch, an outbox of numbered
edits and a cursor over one group. The coordinator's methods are operators on its
fields; the actions call them.

| Action | Code |
|---|---|
| `Write`, `WriteTimerFires`, `RetryTimerFires`, `OpenGroup`, `Resumed` | the coordinator's triggers: `writeQueued`, its timer, the retry, `syncGroup`, `resumed` |
| `StartRun`, `Release` | `_drain`: what was asked is taken and cleared; the report, and `_scheduleRetry` |
| `PushMessage` | `handleBackgroundMessage`, in an isolate of its own |
| `Claim`, `TimesOut`, `Renew`, `Release` | `NativeSyncGate`: taking a free, expired or own lease, giving up, the renewal timer, release |
| `Push`, `Answer`, `Pull`, `Ask`, `Apply` | one run of `SyncEngine`, cut at its awaits, `_assertActive` wherever the code has it |
| `SignOut`, `SignIn` | `forgetLocalLedger`, and opening the ledger again |
| `Suspend`, `Wake`, `Lapses`, `Kill`, `GoOffline`, `GoOnline`, `Retire`, `Change` | the platform, the wall clock, the server, other members |

Time is only what it decides: a lease lapses only while its holder is suspended or gone,
because a running holder renews it long before; timers fire when armed.

| Run | Instance | Shows |
|---|---|---|
| `sync` | the app and a handler, 1 edit, 1 change by others, 1 message, one fault of any of five kinds | `CopyIsWhole`: no suspended, replaced or signed-out run applies an old page. `RestsWhenDone`: no trigger is coalesced away. `EditsArrive` |
| `sync_retry` | the app, offline once | **violation** of `RestsOnceSynced` |

One fault at a time is enough for two runs to overlap (a suspended holder and its
successor), and one page in flight for the late one to be refused. With one edit and
one change of others the group has two changes and, at a page of one, a run has a page
left after each. Fairness: timers fire, runs that are awake take their steps, leases
are renewed or lapse, isolates wake and the network returns. Nobody has to write or
open a group. Refusals and parking are `DeviceSync`'s.

### `FxRates` — the exchange rates' object and the month blobs in KV

`rows` is the object's table, with the *source* of a rate in place of its value; `kv`
what the blobs say; `task` the runs between their awaits: the daily one and backfills.

| Action | Code |
|---|---|
| `Refresh`, `Backfill`, `RepublishAll` | `refresh`, `backfill` with its throttle, `republishAll` |
| `Answer`, `NoAnswer` | one provider of `waterfall`; `store` keeps what is there |
| `FillNext`, `AnswerRange` | `fillHistory`, over `gaps` |
| `Publish`, `PutLands`, `PutFails` | `publish`: reading a month's rows, then the KV write |
| `Published`, `Evict`, `CooldownEnds`, `Midnight` | end of a run, and the platform |

`older`, `overtaken` and `stale` are ghosts: which write was read before which other
still under way, which of them has landed after one read later, and the months whose
last write failed, was cut off or landed overtaken.

| Run | Instance | Shows |
|---|---|---|
| `fx` | 2 currencies, one only the second provider covers; 3 days in 2 months; a backfill beside two daily runs or republications; one failed write or eviction | `PublishedWhole`: a month nobody is about to write is in KV as in the rows, except where a write failed, was cut off or landed overtaken. `RatesAgree`: a blob never names another source for a day than the rows do |
| `fx_race` | the same without faults | **violation** of `RaceRemoved` |

`overtaken` is the order of two writes and nothing about what they hold: a publication of
only the new rates loses a month without any overlap, and `PublishedWhole` catches it
(its mutant). `TypeOK` includes the limit on how often a day is chased. Two months let a
run publish one while another writes to the other; history of one day leaves one gap to
fill. Deadlock is off: days and runs are bounded. Left out: `provider_health`, which
nothing reads, and pruning nothing does.

### `Profiles` — who people are to a reader

D1's profiles and their version counter, the group's places and the index behind them,
a join that adopts a name, and the reader's device with two cursors (`feed`, `read`).
The profile feed skips a profile written before the reader could see it; the group's
pages carry the profiles of the places on them to make up for it.

| Action | Code |
|---|---|
| `UpdateProfile`, `ServerTakes` | `updateProfileRoute`, with `nextProfileVersion` |
| `BeginJoin`, `Join`, `Adopt`, `Interrupt` | `joinRoute`, cut at its awaits |
| `Leave`, `Deliver` | a member goes; a membership row reaches D1 |
| `Type`, `SendName`, `Record`, `Complete`, `SetAside`, `Discard` | the profile's place in the outbox and `_pushOne` |
| `AskProfiles`, `ApplyProfiles` | the profile feed and `pullProfiles` |
| `AskGroup`, `ProfilesOf`, `ApplyGroup` | `pullRoute`: the object's page, then its profiles |
| `Lost`, `Crash`, `StrayLands` | calls without an answer, the app killed, a late request |

`profiles`: a reader and one other account, a valid and a refused name, pages of one
profile, four events (joins, renames, departures, typing, faults). `NamesArrive`: once
both cursors have passed somebody, the device shows them as they are; its own row too,
whatever was typed, lost or refused. `hidden` names the one gap (Findings). Four events
reach a join, a rename past a cursor and a return. One other account is enough: the
feed orders rows by version, and the reader's own row is the second one on it. Deadlock
is checked. Left out: avatars and handles (they travel with the name), removal of a
deleted account's name (`IndexFlush`), other groups.

### `SettleUp` — from expenses to payments

Pure Dart, modelled as the steps it takes: `Record` divides a total by weights
(`allocateLargestRemainder`) and folds it into the balances; `DivideShare` owes each
share to the payers (`debtsWithin`); `Divided` nets it per pair (`pairwiseDebts`);
`BeginSimplify`, `AddTransfer`, `Simplified` are the loop of `simplifyDebts`. The hash
of an expense's id only rotates who is first among equals, so it is any offset. One
currency: the code treats each separately.

`settle_up` records every two expenses of three people, with up to two payers and
weights up to 2, and checks after every step `SplitsExactly` (the total, and never
less for a heavier weight), `PaidBackExactly` (every share finds somebody to be owed
to), `PairwiseSettles` and `SimplifySettles` (both ways of paying leave everybody
square, with fewer payments than people). Two payers of up to 2 each over weights up to
2 already give equal, unequal and zero remainders, zero shares, and shares owed to more
than one payer. Nothing here overflows: amounts are minor units far below 2^53. The models stop with a plan, so
deadlock is not checked.

## What is proved

Every safety invariant, type invariant, action property and refinement that a passing
run checks is also a theorem; each holds for every value of the constants that satisfies
the named `ASSUME`s. What is left to TLC is said at the end of this section.

Of `Group` (in `GroupProofs` and `GroupStepProofs`), for any accounts, member ids,
entries, tokens, inputs and bound:

* `TypeCorrect`: `Spec => []TypeOK`.
* `OnePlaceHolds`, `OwnedHolds`, `GraveHolds`, `MirrorHolds`, `OneOpenHolds`:
  `OnePlacePerAccount`, `Owned`, `LiveXorGone`, `StagedMirrorsRoster` and
  `OneOpenInvite` are invariants.
* `GroupImplementsParticipation`: `Spec => ImplementsParticipation`, a refinement:
  every handler maps to one step of `Participation` or to none.
* `FeedSees`, `DetailsHold`, `SignInHolds`, `EndsHold`: the action properties
  `FeedSeesEveryChange`, `DetailsAreTheirOwn`, `SignInKeepsAccess` and `EndsSettled`.
* `RecordHolds`, `SnapshotHolds`, `DepartedHolds`: `RecordMatchesRoster`,
  `SnapshotCurrent` and `DepartedSettled` are invariants.

Assumptions: the named `ASSUME`s of `Group` (finitely many member ids, `None` outside
every set and not a standing, well-formed inputs).

The first four safety invariants are proved together: their conjunction with `TypeOK`
is inductive and none is alone. `Owned` needs `LiveXorGone` (a new group may only be
made where nothing is left over) and `StagedMirrorsRoster` needs `OnePlacePerAccount`
(the row staged for an account speaks of *its* place). The argument per action goes
through three lemmas about what several handlers share: `PurgeSafe` (collecting),
`ArriveSafe` (an account getting a place by any door) and `ForgetSafe` (a place
becoming nobody's); `RosterUntouched` covers the actions that never reach the roster.
`OneOpenInvite` is inductive with `TypeOK`. The refinement rests on both invariants:
because nobody has two places, changing one row changes one account's standing
(`StandingAt`, `StandingSame`); because a live group is owned, `hasActiveAccounts`
failing means exactly that the last active account goes (`LastOne`, `NotLast`).

The action properties follow from the same invariant. `FeedSees`: every handler
stamps the rows and events it writes with a number it has just spent (`FeedStep`).
`DetailsHold`: `putMember` edits a name or a handle through `MayEdit`, which asks who sent it
(`Entitled`); no other handler changes either (`SameDetails`), but for the last name of an
ended account. `SignInHolds`: the place the code
finds for the guest is the only one they have, and since `Owned` says the group has an
active account, giving it up beside the heir never collects. `EndsHold`: only the last
departure collects without a deletion, and that departure asks whether the group is
settled. The record: `Told` says the last movement recorded of each member, and the
last snapshot of each expense, agree with the rows. It is inductive with the
invariants above (a new group needs an empty record, `LiveXorGone`); what an appended
event does to "the last one of a kind" is `SameAppend` and `LastAppend`, which rest on
`GreatestOf`, about the library's `Max`. `DepartedSettled` is inductive with `TypeOK`. A
position is a fold over the entries that name somebody, so it changes only with one of
those (`PositionSame`). Whoever leaves was found settled in every currency in the same
step; after that an entry may move them only towards zero, where they are already
(`EntrySettled`).

Of `SyncRun` (in `SyncRunProofs`), for any number of handlers and any bounds, page size and faults:

* `TypeCorrect`: `Spec => []TypeOK`.
* `CopyHolds`, `NothingForgotten`: `CopyIsWhole` and `RestsWhenDone` are invariants of
  `Spec`, so also of `FairSpec`, which is stronger.

Assumptions: `IsolatesAssumption` (an owner of a lease is an isolate, somebody who is
gone, or nobody, and these differ) and `BoundsAssumption` (the bounds are natural
numbers, a page is not empty).

`CopyIsWhole` speaks of the copy only; what keeps it true is where the runs are. The
inductive invariant adds `Behind`: no run is of an epoch later than the session's, and
a run that could still pass `_assertActive` - it owns the lease row and began in this
session - asks for, or holds, exactly the page after the cursor. Only such a run moves
the cursor, so every other run's page may grow stale without harm (`StaysBehind`);
a claim puts a run before its read of the cursor (`NotReading`); signing out makes
every run's epoch an old one; and an isolate that is killed leaves its lease to
nobody, because its owner id is never used again. `TypeOK` is inductive together
with it: a page ends no further than the group (`LeastOf`, about the library's `Min`).

`RestsWhenDone` speaks of an app at rest; the invariant says who is still to be heard of
while it is not. What the coordinator was asked for is being drained, unless the server
refuses this version of the app (`Fits`). As long as something is queued, a run or a timer
is left (`QueueWatched`). As long as a screen's group has not been read as far as the
screen asked, the coordinator still has it on its list, or the app's run will read that far or
report an error (`GroupWatched`): which error decides whether a retry is armed.

Of `IndexFlush` (in `IndexFlushProofs`), for any accounts, number
of rows and faults:

* `TypeCorrect`: `Spec => []TypeOK`.
* `MirrorsHold`, `PurgedHolds`: `IndexMirrors` and `PurgedStaysOut` are invariants.
* `IndexImplementsParticipation`: `Spec => ImplementsParticipation`.

Assumptions: `ConstantsAssumption` and `NullAssumption` (`None` is no standing and no
row of the outbox or the index).

That the index agrees with the roster once nothing is owed is not inductive: it says
nothing of the time between. The inductive invariant does. The rows owed are numbered
in one run that ends just below the next id (`Numbered`), each with what its kind needs
(`Formed`). For an account, the last row owed or, where none is, the index says what
the roster says (`Mirrors`); so the index is older than any row still owed for it, or
has just been given the first one (`Behind`). A row being written is in D1 or had a
reason not to be taken that stays a reason (`Sent`); a write that may still land is
the first row owed or one the index has already gone past (`Late`), which is why
`Newer` must compare ids and an account or group that is gone must be asked about in
the same statement. The end of a group is the last thing it tells (`Ends`), and a
deletion runs only for an account whose `user` row is gone (`Gone`). One lemma covers
every transaction of the object, whatever its handler (`CommitKeeps`, for outcomes that
are `Sound`), and one every statement at D1, sent or late (`LandsKeeps`). The
refinement needs besides that a live group has an active account.

Of `FxRates` (in `FxRatesProofs`), for any currencies, days, backfills at once and faults:

* `TypeCorrect`: `Spec => []TypeOK`.
* `RatesHold`, `PublishedHolds`: `RatesAgree` and `PublishedWhole` are invariants.

Assumption: `FxAssumption` (the bounds are natural numbers, the first provider's
currencies are among all, a backfill is not the daily run).

`RatesAgree` needs `Held`: what a run is about to write names no other source than the
rows, which never change once stored, however late the write lands. `PublishedWhole`
needs `Owed`: a month is current in KV, or its last write went wrong, or some run is
*due* to write it as the rows are now - it has not read the month yet, or nothing was
stored in it since. A run that stores becomes due for what it stored (`GoesKeeps`, one
lemma for every step of the waterfall). A write that lands in its turn must not undo what
a due one left: of two writes under way for one month the one read later has all the
earlier one has (`InOrder`), and one not overtaken has all that KV has of its month
(`Ahead`).

Of `DeviceSync` (in `DeviceSyncProofs`), for any members, expenses, page size and bounds:

* `DeviceTyped`: `Spec => []TypeOK`.
* `DeviceLosesNoEdit`: `Spec => NoEditLost`.
* `DeviceSendsInOrder`: `Spec => []SentInOrder`.
* `DeviceCaughtUp`: `Spec => []CaughtUp`.

Assumptions: `RowsAssumption` (finitely many rows, members are no expenses, a deleted
expense says what no other does), `BoundsAssumption` and `NullAssumption`.

The inductive invariant says what each part may rely on: the server's rows are numbered
apart and name members it has (`ServerFits`); a queued row exists, and no two share a place
(`QueueFits`); a version recorded here is one the server had (`CopyFits`); a run waits for
one answer, for the first item of its round (`RunFits`); the body under way is the row as
it stands unless that was edited since, and its answer is what the server did
(`CallFits`); a page has every row whose last change lies between its two cursors, as
the server has it (`PageFits`). `NoEditLost` follows step by step: an item is completed
only where its revision is still the queued one, so what the server stored is what the
row says; the other way out of the queue is `NeverSent`, which the property names.
`CaughtUp` needs the page: what it passes it brings, a row it may not overwrite is queued,
and whom an expense on it names is on it too, known here, or `forgotten` (`PageNames`), so
an expense is left out for no other reason. `SentInOrder` compares places with revisions. A member only this
device has is queued before whatever was last edited to name it (`NamedBefore`), so in a
round it comes first (`RoundInOrder`), and a request that names it while it is still
missing means it was edited again, after the round was read or before it was ever sent
(`CallInOrder`).

Of `Profiles` (in `ProfilesProofs`), for any accounts, names, page size and bound:

* `ProfilesTyped`: `Spec => []TypeOK`.
* `NamesHold`: `Spec => []NamesArrive`.

Assumptions: `AccountsAssumption`, `BoundsAssumption`, `NullAssumption`. A profile held is
one the server had, and the present one if their versions agree (`Snapshot`). The two
cursors are tied together by what a page in flight will bring. A page of the feed has
everybody shown whose version it passes, as they are; a rename while it is under way takes a
version past the page and past every cursor, so it is not missed (`OthersShown`). A page
of the group has whoever it newly shows, as they are, unless the feed is still to bring
them: that is why the object's page must be read before the profiles. The reader's
own row is bound to the feed alone and to what was typed (`ReaderShown`): an answer is
recorded only with a version the cursor has not passed.

Of `SettleUp` (in `SettleUpProofs`), for any finite set of members, any expenses (amounts
and weights of any size, any number of payers), any offset and any number of expenses:

* `SettleUpTyped`: `Spec => []TypeOK`.
* `SplitsHold`, `PaidBackHolds`: `SplitsExactly` and `PaidBackExactly` are invariants.
* `PairwiseHolds`, `SimplifyHolds`: `PairwiseSettles` and `SimplifySettles` are invariants.

Assumptions: `MembersAssumption`, `ExpensesAssumption` (amounts paid are positive, weights
are not negative and not all zero, as the forms and the server's schema require) and
`BoundAssumption`.

A sum over members is a fold, and the laws of sums are induction over sets, which no
theorem of the library with an operator for a parameter can give here. They are had from
a fact of the first order: a collection that has every subset whose own proper subsets
it has, has them all (`SubsetInduction`: take a smallest one left out); hence the fold is the last row of a table that is the only one of its kind
(`TableExists`, `TablesAgree`, `SumIsTable`), and adding a member adds its term (`SumAdd`).
Everything else about sums follows from that (`SumPlus`, `SumOrder`, `SumPart`, ...).

The division: the remainders of all shares are worth a whole number of units, no more
than there are parties with a remainder (`RestsWorth`, `LeftBounds`); `First` puts the parties in a line, so
exactly as many are ahead of the cut as there are units left (`RotatedApart`, `FirstOrders`,
`FirstSeveral`). So a split hands out its total (`SplitTotal`), is never less for a heavier
weight (`SplitOrder`), and never gives a payer more than is still owed to them, given that the
share is no more than what is outstanding in all (`SplitWithin`): that is what
`PaidBackExactly` says of the next share, and why the code divides by what is outstanding and
not by what was paid. `PairwiseSettles` is not inductive, for it says nothing of an
expense half divided; `Underway` does: a balance is what others owe, in earlier expenses
and in this one so far, with what is still outstanding, less the share if it is still to
do. `SimplifySettles` needs that all balances add up to nothing (`Even`), so that the two
sides are worth the same and empty together, and that every payment closes one of the two
for good (`Planning`), which counts the payments.

Only model-checked: the four liveness properties, `DeletionsComplete`, `EverythingSent`,
`EditsArrive` and `EveryWriteAnswered`, because fairness is out of the prover's reach.
`SignInMovesAccess`, `RestsOnceSynced`, `NothingRemote` and `RaceRemoved` do not hold; their
runs are counterexamples.

## Findings

With a run:

* **`device_delete`** — `sync_engine.dart:460` takes an expense deleted while its recorded
  version is null for one "created and deleted before its first push: nothing remote to
  delete", and the deletion is completed unsent (`:461`, `:245`). A version is also missing
  when the answer to the creation was lost: then the server keeps the expense, everybody
  else sees it, and this device shows it deleted with nothing left to send.
* **`fx_race`** — `db/fx/schema.ts:5` says a daily run and a backfill cannot race, and
  `docs/architecture.md:110` that one writer removes the race. `publish` reads a month's
  rows and then awaits its KV write (`do/fx/index.ts:246-256`); another run may store and
  publish the same month meanwhile, and if the older blob lands last the newer rate is
  missing from KV until that month is published again.
* **`index_sign_in`** — `docs/group-lifecycle.md:33` promises that signing in moves a
  guest's access with the person. A guest whose membership has not reached D1 yet is
  in no membership row, so `forgetAccount` hands nothing over and the object, told by
  D1 that the account is gone, forgets the guest; if it was the last account, the
  group is collected.
* **`sync_retry`** — `sync_coordinator.dart:180` and `:197` promise a full sync after a
  failure. Starting any run cancels the armed retry; a local write after a failed full
  sync starts a partial run, which with nothing to read succeeds, clears the error and
  arms nothing. The app rests without ever having synced in full, until it is resumed
  or the network changes.

Read off the code while modelling it; the properties that hold name these as their
exceptions:

* An object evicted between the commit that stages an index row and its flush has no
  alarm (`upkeep.ts:50`; only a failed flush arms one), so the row waits for the next
  request to that group, though `docs/architecture.md:90` says it is sent until D1 has
  taken it. `EverythingSent` is therefore checked without evictions.
* An expense not yet sent that is edited to name a member created after it keeps its
  older place in the queue, is sent first and refused for good, though
  `outbox_queue.dart:156` promises an order the server can accept. A member renamed
  after a push has read its round is passed over with the same effect. `SentInOrder` says
  what does hold: it takes a second edit, of the expense or of a member it names, before
  the server first took it.
* A placeholder's edit whose answer is lost while somebody claims the place is answered
  on its retry as unchanged; only the number is kept (`sync_engine.dart:503`), and the
  device shows the place as unclaimed until the row changes again.
* A new row whose first answer was lost, then edited, refused and discarded, is taken
  for one the server never had (`sync_engine.dart:386`) and deleted here. If it is a
  member, expenses of others that name it are left out (`apply_changes.dart:127`) and the
  cursor passes them; a later page with the member does not bring them back.
* `joinRoute` reads the account's name before the join and adopts the place's name
  after it (`api/invites.ts:154-160`) without looking again: a name chosen meanwhile is
  overwritten, though `auth.ts:103` says only a profile that has none adopts one; on an
  account deleted meanwhile it names the emptied profile.
* Somebody renamed while their membership is on its way to D1, their place already
  read, is not shown under the new name if the reader's profile cursor passes that
  version first; it stays until the next rename or return.
* The object never republishes a month whose KV write failed (`do/fx/index.ts:246-256`),
  until that month next changes.
* Parking a conflict and discarding refused writes rewind a cursor without asking
  whether the run still holds the lease (`sync_engine.dart:340`). It only re-reads.
* An account deleted before its membership reached D1 is forgotten with no name
  (`do/group/index.ts:228`), though `docs/group-lifecycle.md:29` keeps its last one.
* `simplifyDebts` does not always find the fewest payments, as its heuristic
  (largest debtor to largest creditor) cannot; `SimplifySettles` checks the bound it
  does keep.

## Not modelled

* Presentation, forms, formatting, export, app updates: state of one screen.
* Identity: sessions, codes and cookies are Better Auth's, and the routes translate its
  answers. Push delivery: a dropped notification is acceptable by design.
* The generated API client, e-mail, site and tools. `web/drift_worker.js` and
  `docs/brand/support.js`, three quarters of the implementation's lines as counted,
  are a compiled database worker and a drawing runtime, not this program's logic.
* In modelled parts: the group row and its creation on a device, the removal of a group
  a device lost, currencies and the rates' cursor on a device, `provider_health`, the
  web gate (the browser's own lock).

Better Auth, D1, KV, FCM and the Durable Object platform are modelled only from how the
code uses them.

## Plan

1. `DeviceSync`: the group row, its creation, and the removal of a lost group.
2. An abstract register of versioned rows that `DeviceSync` implements, with the proof.
3. The rates' cursor on a device, against `FxRates`.
