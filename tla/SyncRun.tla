-------------------------------- MODULE SyncRun --------------------------------
(***************************************************************************)
(* Who synchronizes one account's local ledger, and when.                  *)
(*                                                                         *)
(* The app's coordinator turns triggers (launch, a local write, a screen,  *)
(* the network, a timer) into one run at a time (sync_coordinator.dart).   *)
(* A push message wakes a handler in an isolate of its own, which runs on  *)
(* the same database.  A lease row in that database lets one run in at a   *)
(* time (sync_gate_native.dart); a run suspended past its lease finds out  *)
(* at its next transaction (SyncEngine._assertActive).                     *)
(*                                                                         *)
(* One group is read, its changes numbered by the server.  What an edit    *)
(* is, and how it is refused or merged, is DeviceSync's; here an edit is   *)
(* queued, sent and answered or not.  Time is what it allows: a lease goes *)
(* stale only while its holder cannot renew it, a timer fires when it may. *)
(***************************************************************************)
EXTENDS Integers, FiniteSets, FiniteSetsExt

CONSTANTS
    App,           \* the app's isolate
    Handlers,      \* isolates that push messages wake
    None,          \* no lease row, no cursor read, no item
    MaxWrites,     \* bound: edits made on this device
    MaxChanges,    \* bound: others change the group while head is below it
    PageSize,      \* changes in a page (200 in the code)
    MaxMessages,   \* bound: push messages
    Faults,        \* which happen: "suspend" or "kill" an isolate, go "offline",
                   \* "retire" this version of the app, "signout"
    MaxFaults      \* bound: how many of them

Isolates == {App} \cup Handlers

ASSUME IsolatesAssumption ==
    /\ App \notin Handlers
    /\ None \notin Nat \cup Isolates \cup {"gone"}
    /\ "gone" \notin Isolates
ASSUME BoundsAssumption ==
    /\ {MaxWrites, MaxChanges, MaxMessages, MaxFaults} \subseteq Nat
    /\ PageSize \in Nat \ {0}
    /\ Faults \subseteq {"suspend", "kill", "offline", "retire", "signout"}

VARIABLES
    head,          \* server: the group's newest change
    taken,         \* server: edits it took
    retired,       \* server: it refuses this version of the app
    written,       \* edits made here so far
    outbox,        \* edits still queued here
    backedOff,     \* the queue's first edit waits for its next attempt
    cursor,        \* the group's cursor
    copy,          \* the changes the local copy reflects
    session,       \* sync_sessions: its epoch, and whether it is enabled
    lease,         \* sync_leases: its owner, and whether it has not expired
    run,           \* what each isolate's run does next
    coord,         \* SyncCoordinator's fields
    owed,          \* ghost: the newest change when a screen last asked for the
                   \* group, 0 after a failure (its retry is its own matter)
    asleep,        \* isolates the platform has suspended
    up,            \* the server can be reached
    messages,      \* push messages so far
    faults         \* faults so far

server == <<head, taken, retired>>
queue == <<written, outbox, backedOff>>
ledger == <<cursor, copy, session>>
platform == <<asleep, up, messages, faults>>
vars == <<server, queue, ledger, lease, run, coord, owed, platform>>

Places == {"idle", "waiting", "push", "sent", "pull", "ask", "page", "release"}
Holding == Places \ {"idle", "waiting"}
Run == [at : Places, full : BOOLEAN, wants : BOOLEAN, since : Nat \cup {None},
        upto : Nat, more : BOOLEAN, item : Nat \cup {None},
        reply : {"none", "taken", "update"}, epoch : Nat, lost : BOOLEAN,
        error : {"none", "failed", "update"}]
Lease == [owner : Isolates \cup {"gone", None}, fresh : BOOLEAN]
NoLease == [owner |-> None, fresh |-> FALSE]
Coordinator ==
    [all : BOOLEAN, partial : BOOLEAN, group : BOOLEAN, active : BOOLEAN,
     retry : {"none", "all", "writes"}, writeTimer : BOOLEAN,
     error : {"none", "failed", "update"}, synced : BOOLEAN]

\* Every variable holds what its column or field may, only edits made here are
\* queued or taken, and a run exists only where the coordinator waits for it.
TypeOK ==
    /\ head \in Nat /\ written \in Nat
    /\ retired \in BOOLEAN /\ backedOff \in BOOLEAN /\ up \in BOOLEAN
    /\ outbox \subseteq 1..written /\ taken \subseteq 1..written
    /\ cursor \in 0..head /\ owed \in 0..head
    /\ copy \subseteq 1..head
    /\ session \in [epoch : Nat, enabled : BOOLEAN]
    /\ lease \in Lease /\ (lease.owner = None => lease = NoLease)
    /\ run \in [Isolates -> Run]
    /\ coord \in Coordinator
    /\ asleep \subseteq Isolates
    /\ messages \in Nat /\ faults \in Nat
    /\ run[App].at # "idle" => coord.active
    /\ backedOff => outbox # {}

-----------------------------------------------------------------------------
(* The coordinator.  Each operator is one of its methods, as the fields it  *)
(* leaves.                                                                  *)

Begin(c) == [c EXCEPT !.retry = "none", !.active = TRUE]

SyncAll(c) == IF c.error = "update" THEN c ELSE Begin([c EXCEPT !.all = TRUE])

SyncWrites(c) ==
    IF c.error = "update" THEN c ELSE Begin([c EXCEPT !.partial = TRUE])

\* One group, unless nothing has synced cleanly yet: then everything.
SyncGroup(c) ==
    IF ~c.synced \/ c.error # "none" THEN SyncAll(c)
    ELSE SyncWrites([c EXCEPT !.group = TRUE])

\* The write timer sends what was written once the writes have paused.
WriteQueued(c) ==
    IF c.error = "update" THEN c ELSE [c EXCEPT !.writeTimer = TRUE]

\* Mutant: only a failed run is tried again.
ScheduleRetry_FailuresOnly(c, nextPush) ==
    [c EXCEPT !.active = FALSE,
              !.retry = IF c.error = "failed" THEN "all" ELSE "none"]

\* The drain is over: try again after a failure, or when the queue is next due.
ScheduleRetry(c, nextPush) ==
    [c EXCEPT !.active = FALSE,
              !.retry = IF c.error = "failed" THEN "all"
                        ELSE IF c.error = "none" /\ nextPush THEN "writes"
                        ELSE "none"]

\* A run's report; a failure ends the pass, whatever was asked meanwhile.
Reported(c, full, error, nextPush) ==
    LET seen == IF error = "none"
                THEN [c EXCEPT !.error = error, !.synced = @ \/ full]
                ELSE [c EXCEPT !.error = error, !.all = FALSE,
                               !.partial = FALSE, !.group = FALSE]
    IN IF seen.all \/ seen.partial THEN seen ELSE ScheduleRetry(seen, nextPush)

Started == SyncAll([all |-> FALSE, partial |-> FALSE, group |-> FALSE,
                    active |-> FALSE, retry |-> "none", writeTimer |-> FALSE,
                    error |-> "none", synced |-> FALSE])

Idle == [at |-> "idle", full |-> FALSE, wants |-> FALSE, since |-> None,
         upto |-> 0, more |-> FALSE, item |-> None, reply |-> "none",
         epoch |-> 0, lost |-> FALSE, error |-> "none"]

Init ==
    /\ head = 0 /\ taken = {} /\ retired = FALSE
    /\ written = 0 /\ outbox = {} /\ backedOff = FALSE
    /\ cursor = 0 /\ copy = {}
    /\ session = [epoch |-> 0, enabled |-> TRUE]
    /\ lease = NoLease
    /\ run = [i \in Isolates |-> Idle]
    /\ coord = Started
    /\ owed = 0
    /\ asleep = {} /\ up = TRUE /\ messages = 0 /\ faults = 0

Awake(i) == i \notin asleep

\* A foreground trigger reaches the coordinator of a signed-in app.
Trigger(changed) ==
    /\ Awake(App) /\ session.enabled
    /\ coord' = changed
    /\ UNCHANGED <<server, ledger, lease, run, platform>>

\* A local write and its queue row commit together; the stream tells the
\* coordinator.
Write ==
    /\ written < MaxWrites
    /\ coord.error # "update"
    /\ written' = written + 1
    /\ outbox' = outbox \cup {written + 1}
    /\ Trigger(WriteQueued(coord))
    /\ UNCHANGED <<backedOff, owed>>

WriteTimerFires ==
    /\ coord.writeTimer
    /\ Trigger(SyncWrites([coord EXCEPT !.writeTimer = FALSE]))
    /\ UNCHANGED <<queue, owed>>

RetryTimerFires ==
    /\ coord.retry # "none"
    /\ Trigger(IF coord.retry = "all"
               THEN SyncAll([coord EXCEPT !.retry = "none"])
               ELSE SyncWrites([coord EXCEPT !.retry = "none"]))
    /\ UNCHANGED <<queue, owed>>

\* A screen showing the group opens.
OpenGroup ==
    /\ coord.error # "update"
    /\ owed' = head
    /\ Trigger(SyncGroup(coord))
    /\ UNCHANGED queue

\* The app comes back, or the network does: everything, unless one just ran.
Resumed == ~coord.all /\ Trigger(SyncAll(coord)) /\ UNCHANGED <<queue, owed>>

\* The edit's next attempt is due.
BackoffEnds ==
    /\ backedOff
    /\ backedOff' = FALSE
    /\ UNCHANGED <<server, written, outbox, ledger, lease, run, coord, owed,
                   platform>>

-----------------------------------------------------------------------------
(* The lease and one run.  `run[i]` is the run in isolate i.                *)

Owns(i) == lease.owner = i

HoldsLease(i) == Owns(i) /\ lease.fresh /\ ~run[i].lost

\* Mutant: the session is enabled, whichever session it is.
AssertActive_AnyEpoch(i) == session.enabled /\ HoldsLease(i)

\* _assertActive: in the session it began in, and still holding the lease.  It
\* is read in the transaction of the write it allows.
AssertActive(i) ==
    session.enabled /\ session.epoch = run[i].epoch /\ HoldsLease(i)

Goes(i, place) == run' = [run EXCEPT ![i].at = place]
Fails(i, error) ==
    run' = [run EXCEPT ![i].at = "release", ![i].error = error]

\* The coordinator's drain begins a run of everything, or of what was asked.
StartRun ==
    /\ Awake(App) /\ coord.active /\ run[App].at = "idle"
    /\ coord' = [coord EXCEPT !.all = FALSE, !.partial = FALSE, !.group = FALSE]
    /\ run' = [run EXCEPT ![App] = [Idle EXCEPT !.at = "waiting",
                  !.full = coord.all, !.wants = coord.all \/ coord.group]]
    /\ UNCHANGED <<server, queue, ledger, lease, owed, platform>>

\* A push message about the group wakes a handler.
PushMessage(i) ==
    /\ messages < MaxMessages
    /\ run[i].at = "idle" /\ Awake(i) /\ session.enabled
    /\ messages' = messages + 1
    /\ run' = [run EXCEPT ![i] = [Idle EXCEPT !.at = "waiting", !.wants = TRUE]]
    /\ UNCHANGED <<server, queue, ledger, lease, coord, owed, asleep, up, faults>>

\* Mutant: a lease its holder never gave up is held for good.
Claimable_NeverLapsed(i) == lease.owner \in {None, i}

\* No lease, an expired one, or one's own.
Claimable(i) == ~lease.fresh \/ Owns(i)

\* A waiting run gets the lease, and finds the session still enabled or not.
Claim(i) ==
    /\ Awake(i) /\ run[i].at = "waiting" /\ Claimable(i)
    /\ lease' = [owner |-> i, fresh |-> TRUE]
    /\ run' = [run EXCEPT ![i].epoch = session.epoch,
                  ![i].at = IF session.enabled THEN "push" ELSE "release",
                  ![i].error = IF session.enabled THEN "none" ELSE "failed"]
    /\ UNCHANGED <<server, queue, ledger, coord, owed, platform>>

\* It waited 15 seconds while another isolate held it.
TimesOut(i) ==
    /\ Awake(i) /\ run[i].at = "waiting" /\ ~Claimable(i)
    /\ Fails(i, "failed")
    /\ UNCHANGED <<server, queue, ledger, lease, coord, owed, platform>>

\* The renewal timer of a run: extends its lease, or finds it gone.
Renew(i) ==
    /\ Awake(i) /\ run[i].at \in Holding
    /\ IF Owns(i)
       THEN lease' = [lease EXCEPT !.fresh = TRUE] /\ UNCHANGED run
       ELSE run' = [run EXCEPT ![i].lost = TRUE] /\ UNCHANGED lease
    /\ UNCHANGED <<server, queue, ledger, coord, owed, platform>>

\* The server takes an edit once, however often it is sent.
Take(w) ==
    /\ taken' = taken \cup {w}
    /\ head' = IF w \in taken THEN head ELSE head + 1
    /\ UNCHANGED retired

Due == IF backedOff THEN {} ELSE outbox

\* push: the first due edit goes out, or there is none.
Push(i) ==
    /\ Awake(i) /\ run[i].at = "push"
    /\ IF ~AssertActive(i) THEN Fails(i, "failed") /\ UNCHANGED server
       ELSE IF Due = {} THEN Goes(i, "pull") /\ UNCHANGED server
       ELSE LET w == Min(Due)
                reply == IF ~up THEN "none"
                         ELSE IF retired THEN "update" ELSE "taken"
            IN /\ run' = [run EXCEPT ![i].at = "sent", ![i].item = w,
                                     ![i].reply = reply]
               /\ IF reply = "taken" THEN Take(w) ELSE UNCHANGED server
    /\ UNCHANGED <<queue, ledger, lease, coord, owed, platform>>

\* complete: the edit leaves the queue, if it is still there.
Complete(w) ==
    /\ outbox' = outbox \ {w}
    /\ backedOff' = (backedOff /\ w \notin outbox)
    /\ UNCHANGED written

\* Mutant: an attempt's failure is recorded whether or not its edit is queued.
BackOff_Any(w) == backedOff' = TRUE /\ UNCHANGED <<written, outbox>>

\* fail: the edit waits for its next attempt, if it is still queued.
BackOff(w) ==
    /\ backedOff' = (backedOff \/ w \in outbox)
    /\ UNCHANGED <<written, outbox>>

Answered(i, place, wants) ==
    run' = [run EXCEPT ![i].at = place, ![i].item = None, ![i].reply = "none",
                       ![i].wants = wants]

\* The answer.  A lost one, or one this run may no longer write down, ends the
\* push; what the push wrote to is read back.
Answer(i) ==
    /\ Awake(i) /\ run[i].at = "sent"
    /\ LET w == run[i].item
           reply == IF up THEN run[i].reply ELSE "none"
       IN IF reply = "update" THEN Fails(i, "update") /\ UNCHANGED queue
          ELSE IF reply = "taken" /\ AssertActive(i)
          THEN Complete(w) /\ Answered(i, "push", run[i].wants \/ w \in outbox)
          ELSE BackOff(w) /\ Answered(i, "pull", run[i].wants)
    /\ UNCHANGED <<server, ledger, lease, coord, owed, platform>>

\* _pull reads the cursors it starts from, when there is a group to read.
Pull(i) ==
    /\ Awake(i) /\ run[i].at = "pull"
    /\ run' = [run EXCEPT ![i].at = IF run[i].wants THEN "ask" ELSE "release",
                          ![i].since = cursor]
    /\ UNCHANGED <<server, queue, ledger, lease, coord, owed, platform>>

\* The server reads one page past the run's cursor.
Ask(i) ==
    /\ Awake(i) /\ run[i].at = "ask"
    /\ IF ~AssertActive(i) \/ ~up THEN Fails(i, "failed")
       ELSE IF retired THEN Fails(i, "update")
       ELSE LET end == Min({head, run[i].since + PageSize})
            IN run' = [run EXCEPT ![i].at = "page", ![i].upto = end,
                                  ![i].more = end < head]
    /\ UNCHANGED <<server, queue, ledger, lease, coord, owed, platform>>

\* applyGroupChanges: the page and its cursor in one transaction.
Apply(i) ==
    /\ Awake(i) /\ run[i].at = "page"
    /\ IF ~up \/ ~AssertActive(i)
       THEN Fails(i, "failed") /\ UNCHANGED ledger
       ELSE /\ copy' = copy \cup (run[i].since + 1)..run[i].upto
            /\ cursor' = run[i].upto
            /\ run' = [run EXCEPT ![i].at = IF run[i].more THEN "ask" ELSE "release",
                                  ![i].since = run[i].upto]
            /\ UNCHANGED session
    /\ UNCHANGED <<server, queue, lease, coord, owed, platform>>

\* The gate checks the lease once more and gives it up; the app's coordinator
\* gets the report.
Release(i) ==
    /\ Awake(i) /\ run[i].at = "release"
    /\ LET error == IF run[i].error = "none" /\ ~HoldsLease(i)
                    THEN "failed" ELSE run[i].error
       IN IF i = App
          THEN /\ coord' = Reported(coord, run[i].full, error, outbox # {})
               /\ owed' = IF error = "none" THEN owed ELSE 0
          ELSE UNCHANGED <<coord, owed>>
    /\ lease' = IF Owns(i) THEN NoLease ELSE lease
    /\ run' = [run EXCEPT ![i] = Idle]
    /\ UNCHANGED <<server, queue, ledger, platform>>

RunStep(i) ==
    \/ Claim(i) \/ TimesOut(i) \/ Push(i) \/ Answer(i) \/ Pull(i) \/ Ask(i)
    \/ Apply(i) \/ Release(i)

-----------------------------------------------------------------------------
(* Everybody else, and the platform.                                        *)

\* Another member changes the group.
Change ==
    /\ head < MaxChanges
    /\ head' = head + 1
    /\ UNCHANGED <<taken, retired, queue, ledger, lease, run, coord, owed, platform>>

Fault(kind) == kind \in Faults /\ faults < MaxFaults /\ faults' = faults + 1

\* The platform stops running an isolate, and later goes on.
Suspend(i) ==
    /\ Fault("suspend") /\ Awake(i)
    /\ i = App \/ run[i].at # "idle"
    /\ asleep' = asleep \cup {i}
    /\ UNCHANGED <<server, queue, ledger, lease, run, coord, owed, up, messages>>

Wake(i) ==
    /\ ~Awake(i)
    /\ asleep' = asleep \ {i}
    /\ UNCHANGED <<server, queue, ledger, lease, run, coord, owed, up, messages,
                   faults>>

\* A lease nobody renews runs out.
Lapses ==
    /\ lease.fresh
    /\ lease.owner = "gone" \/ ~Awake(lease.owner)
    /\ lease' = [lease EXCEPT !.fresh = FALSE]
    /\ UNCHANGED <<server, queue, ledger, run, coord, owed, platform>>

\* An isolate ends without cleaning up; its owner id is never used again.
Vanishes(i) ==
    /\ run' = [run EXCEPT ![i] = Idle]
    /\ lease' = IF Owns(i) THEN [lease EXCEPT !.owner = "gone"] ELSE lease
    /\ asleep' = asleep \ {i}

\* The app is killed and opened again, or a handler is killed.
Kill(i) ==
    /\ Fault("kill")
    /\ i = App \/ run[i].at # "idle"
    /\ Vanishes(i)
    /\ coord' = IF i = App /\ session.enabled THEN Started ELSE coord
    /\ UNCHANGED <<server, queue, ledger, owed, up, messages>>

GoOffline ==
    /\ Fault("offline") /\ up
    /\ up' = FALSE
    /\ UNCHANGED <<server, queue, ledger, lease, run, coord, owed, asleep, messages>>

GoOnline ==
    /\ ~up
    /\ up' = TRUE
    /\ UNCHANGED <<server, queue, ledger, lease, run, coord, owed, asleep, messages,
                   faults>>

Retire ==
    /\ Fault("retire") /\ ~retired
    /\ retired' = TRUE
    /\ UNCHANGED <<head, taken, queue, ledger, lease, run, coord, owed, asleep, up,
                   messages>>

\* forgetLocalLedger: a new epoch, and the ledger cleared in one transaction;
\* the app's coordinator and engine are disposed, its run ends.
SignOut ==
    /\ Fault("signout") /\ Awake(App)
    /\ session.enabled /\ outbox = {} /\ coord.error # "update"
    /\ session' = [epoch |-> session.epoch + 1, enabled |-> FALSE]
    /\ cursor' = 0 /\ copy' = {} /\ owed' = 0
    /\ run' = [run EXCEPT ![App] = Idle]
    /\ lease' = IF Owns(App) THEN NoLease ELSE lease
    /\ coord' = [Started EXCEPT !.all = FALSE, !.active = FALSE]
    /\ UNCHANGED <<server, queue, asleep, up, messages>>

\* The same account signs in again: its database is opened and resumed.
SignIn ==
    /\ Awake(App) /\ ~session.enabled
    /\ session' = [session EXCEPT !.enabled = TRUE]
    /\ coord' = Started
    /\ UNCHANGED <<server, queue, cursor, copy, lease, run, owed, platform>>

Triggers ==
    \/ Write \/ WriteTimerFires \/ RetryTimerFires \/ OpenGroup \/ Resumed
    \/ StartRun \/ BackoffEnds \/ SignOut \/ SignIn

Platform ==
    \/ Change \/ Lapses \/ GoOffline \/ GoOnline \/ Retire
    \/ \E i \in Isolates : Renew(i) \/ Suspend(i) \/ Wake(i) \/ Kill(i)

Next ==
    \/ Triggers \/ Platform
    \/ \E i \in Isolates : RunStep(i)
    \/ \E i \in Handlers : PushMessage(i)

Spec == Init /\ [][Next]_vars

\* Timers fire, runs go on, leases run out, the app and the network come back.
Fairness ==
    /\ WF_vars(WriteTimerFires) /\ WF_vars(RetryTimerFires) /\ WF_vars(StartRun)
    /\ WF_vars(BackoffEnds) /\ WF_vars(Lapses) /\ WF_vars(GoOnline)
    /\ \A i \in Isolates : WF_vars(RunStep(i)) /\ WF_vars(Renew(i)) /\ WF_vars(Wake(i))

FairSpec == Spec /\ Fairness

-----------------------------------------------------------------------------
(* Properties. *)

\* The local copy is the group's changes up to the cursor, none missing: no run
\* that was suspended, replaced or signed out under applies an old page.
CopyIsWhole == copy = 1..cursor

\* The app waits for nothing: no run, no timer.
AtRest ==
    /\ session.enabled /\ coord.error # "update"
    /\ ~coord.active /\ coord.retry = "none" /\ ~coord.writeTimer

\* A trigger is never coalesced away: when the app rests, every edit was sent
\* and, unless a run failed, the group was read since a screen last asked.
RestsWhenDone == AtRest => outbox = {} /\ cursor >= owed

\* After a failure the app owes a full sync: it never rests before one succeeded.
RestsOnceSynced == AtRest => coord.synced

\* Every edit is sent, through suspended, killed and offline spells, unless this
\* version of the app is retired.
EditsArrive == \A w \in 1..MaxWrites : (w \in outbox) ~> (w \in taken \/ retired)

=============================================================================
