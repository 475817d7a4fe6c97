------------------------------ MODULE IndexFlush ------------------------------
(***************************************************************************)
(* How one group keeps the account index in D1, and how an account ends.   *)
(*                                                                         *)
(* The group object stages an index write in the transaction that caused   *)
(* it and sends the staged rows in order, one drain at a time, retried by  *)
(* its alarm (do/group/index.ts, upkeep.ts).  Every D1 call is an await,   *)
(* so requests to the object, deletions in a Worker (forget.ts), the daily *)
(* sweep and a sign-in handing a guest's place over run between its steps. *)
(*                                                                         *)
(* The roster is the one Group keeps, reduced to each account's standing   *)
(* (an account never holds two places, OnePlacePerAccount there).  A D1    *)
(* call can fail, take effect and still report failure, or land after the  *)
(* caller gave up on it; the object can be evicted between two awaits and  *)
(* a Worker between two steps of a deletion.                               *)
(***************************************************************************)
EXTENDS Integers, Sequences, FiniteSets

CONSTANTS
    Profiles,      \* accounts
    None,          \* SQL null, or nothing
    MaxId,         \* bound: people act only while the outbox id is below it
    Faults,        \* which happen: "evict" an object, a D1 write that lands "late"
                   \* after it was given up on, "interrupt" a deletion's Worker
    MaxFaults      \* bound: how many of them

ASSUME ConstantsAssumption ==
    /\ {MaxId, MaxFaults} \subseteq Nat
    /\ Faults \subseteq {"evict", "late", "interrupt"}
    /\ None \notin Profiles

VARIABLES
    status,        \* the group: "none", "live" or "purged" (meta, tombstone)
    place,         \* each account's standing in the roster
    outbox,        \* staged index writes, by id
    nextId,        \* the outbox's next AUTOINCREMENT id
    phase,         \* the drain in progress: what it does next
    asked,         \* a settle is queued behind it
    alarm,         \* the object's one alarm is set
    users,         \* D1: accounts whose user row exists
    named,         \* D1: accounts whose profile has not been emptied
    idx,           \* D1: this group's membership row for each account
    routed,        \* D1: this group's link token is routed
    buried,        \* D1: the group is in purged_groups
    stray,         \* a timed-out D1 write that may still land
    ending,        \* runs of forgetAccount, by who runs them and for whom
    faults         \* how many so far

object == <<status, place, outbox, nextId>>
drain == <<phase, asked, alarm>>
d1 == <<users, named, idx, routed, buried>>
vars == <<object, drain, d1, stray, ending, faults>>

Runs == {"request", "sweep"} \X Profiles
Standings == {"active", "left"}
Row == [id : Nat, kind : {"membership", "link_token", "group_purged"},
        profile : Profiles \cup {None}, standing : Standings \cup {None}]
IndexRow == [standing : Standings, version : Nat]
Step == [at : {"read", "tell", "erase", "empty"}, heir : Profiles \cup {None}]

\* null is no standing, row or step.
ASSUME NullAssumption ==
    None \notin Standings /\ None \notin Row /\ None \notin IndexRow /\ None \notin Step

\* Every variable holds what its table or field may.
TypeOK ==
    /\ status \in {"none", "live", "purged"}
    /\ place \in [Profiles -> Standings \cup {None}]
    /\ outbox \in Seq(Row)
    /\ nextId \in Nat
    /\ phase \in {"idle", "send", "read", "clear", "forget"}
    /\ asked \in BOOLEAN /\ alarm \in BOOLEAN
    /\ users \in SUBSET Profiles
    /\ named \in SUBSET Profiles
    /\ idx \in [Profiles -> IndexRow \cup {None}]
    /\ routed \in BOOLEAN /\ buried \in BOOLEAN
    /\ stray \in Row \cup {None}
    /\ ending \in [Runs -> Step \cup {None}]
    /\ faults \in Nat

-----------------------------------------------------------------------------
(* The object's transactions. *)

Active(roster) == {p \in Profiles : roster[p] = "active"}
Empty == [p \in Profiles |-> None]

Membership(p, standing) ==
    [kind |-> "membership", profile |-> p, standing |-> standing]
LinkToken == [kind |-> "link_token", profile |-> None, standing |-> None]
GroupPurged == [kind |-> "group_purged", profile |-> None, standing |-> None]

\* Mutant: a roster nobody is active in is kept.
Outcome_Kept(roster, rows) == [status |-> "live", place |-> roster, rows |-> rows]

\* A transaction's outcome: the roster it leaves and the rows it stages, in
\* order.  A roster without an active account is collected in the same one.
Outcome(roster, rows) ==
    IF Active(roster) = {}
    THEN [status |-> "purged", place |-> Empty, rows |-> Append(rows, GroupPurged)]
    ELSE [status |-> "live", place |-> roster, rows |-> rows]

Unchanged == [status |-> status, place |-> place, rows |-> <<>>]

\* Commits it after dropping the first `sent` outbox rows.
Commit(outcome, sent) ==
    /\ status' = outcome.status
    /\ place' = outcome.place
    /\ outbox' = SubSeq(outbox, sent + 1, Len(outbox)) \o
                 [i \in 1..Len(outcome.rows) |->
                    [id |-> nextId + i - 1, kind |-> outcome.rows[i].kind,
                     profile |-> outcome.rows[i].profile,
                     standing |-> outcome.rows[i].standing]]
    /\ nextId' = nextId + Len(outcome.rows)

\* forgetProfile: the place becomes nobody's, or the group goes with it.
Forgotten(roster, rows, p) ==
    Outcome([roster EXCEPT ![p] = None], rows)

ForgetProfile(p) ==
    IF status = "live" /\ place[p] # None
    THEN Forgotten(place, <<>>, p) ELSE Unchanged

\* Mutant: the staged row is read off the guest's place after it was given away.
HandOver_StagedAfter(guest, h) ==
    IF status # "live" \/ place[guest] = None THEN Unchanged
    ELSE IF place[h] = None
    THEN [status |-> "live",
          place |-> [place EXCEPT ![h] = place[guest], ![guest] = None],
          rows |-> <<Membership(h, None)>>]
    ELSE IF place[guest] = "active" /\ place[h] = "left"
    THEN Forgotten([place EXCEPT ![h] = "active"], <<Membership(h, "active")>>, guest)
    ELSE Forgotten(place, <<>>, guest)

\* handOver: the guest's place becomes the heir's; beside a place the heir
\* already holds it is given up, after returning an heir who had left.
HandOver(guest, h) ==
    IF status # "live" \/ place[guest] = None THEN Unchanged
    ELSE IF place[h] = None
    THEN [status |-> "live",
          place |-> [place EXCEPT ![h] = place[guest], ![guest] = None],
          rows |-> <<Membership(h, place[guest])>>]
    ELSE IF place[guest] = "active" /\ place[h] = "left"
    THEN Forgotten([place EXCEPT ![h] = "active"], <<Membership(h, "active")>>, guest)
    ELSE Forgotten(place, <<>>, guest)

-----------------------------------------------------------------------------
(* Requests.  Each commits and then asks for a drain (settle).  A session is *)
(* checked before the object is called, so one admitted before its account   *)
(* was deleted may still arrive: no request asks whether the account exists. *)

Request(outcome) ==
    /\ nextId < MaxId
    /\ Commit(outcome, 0)
    /\ asked' = TRUE
    /\ UNCHANGED <<phase, alarm, d1, stray, ending, faults>>

\* putGroup, join and rejoin: an account gets an active place.
Arrive(p) ==
    /\ status = "none" \/ (status = "live" /\ place[p] # "active")
    /\ Request(Outcome([place EXCEPT ![p] = "active"], <<Membership(p, "active")>>))

\* putMember with leftAt set; the last account out takes the group with it.
Leave(p) ==
    /\ status = "live" /\ place[p] = "active"
    /\ Request(Outcome([place EXCEPT ![p] = "left"], <<Membership(p, "left")>>))

\* createInvite and createLink: a token is to be routed.  One at a time.
Mint(p) ==
    /\ status = "live" /\ place[p] = "active"
    /\ ~routed /\ \A i \in DOMAIN outbox : outbox[i].kind # "link_token"
    /\ Request([status |-> status, place |-> place, rows |-> <<LinkToken>>])

-----------------------------------------------------------------------------
(* The drain.  Between any two of its steps anything else may run. *)

\* Mutants: a late copy overwrites; a late copy outlives the group.
Newer_Always(p, id) == TRUE
NotPurged_Unchecked == TRUE

\* The guards of the membership upsert.
Newer(p, id) == idx[p] = None \/ id > idx[p].version
NotPurged == ~buried
AccountExists(p) == p \in users

\* apply: what one staged write does to D1 when it gets there.
Lands(row) ==
    \/ /\ row.kind = "membership"
       /\ idx' = IF /\ AccountExists(row.profile)
                    /\ NotPurged
                    /\ Newer(row.profile, row.id)
                 THEN [idx EXCEPT ![row.profile] =
                         [standing |-> row.standing, version |-> row.id]]
                 ELSE idx
       /\ UNCHANGED <<routed, buried>>
    \/ /\ row.kind = "link_token"
       /\ routed' = (routed \/ NotPurged)
       /\ UNCHANGED <<idx, buried>>
    \/ /\ row.kind = "group_purged"
       /\ buried' = TRUE
       /\ idx' = Empty
       /\ routed' = FALSE

StartDrain ==
    /\ phase = "idle" /\ asked
    /\ phase' = "send"
    /\ asked' = FALSE
    /\ UNCHANGED <<object, alarm, d1, stray, ending, faults>>

\* The oldest row's statement runs in D1.
Send ==
    /\ phase = "send" /\ outbox # <<>>
    /\ Lands(Head(outbox))
    /\ phase' = IF Head(outbox).kind = "membership" THEN "read" ELSE "clear"
    /\ UNCHANGED <<object, asked, alarm, users, named, stray, ending, faults>>

\* Mutant: whatever D1 says of the account, the write was applied.
ReadAccount_Ignored ==
    /\ phase = "read"
    /\ phase' = "clear"
    /\ UNCHANGED <<object, asked, alarm, d1, stray, ending, faults>>

\* The user row is read after the write, so a deletion either side is caught.
ReadAccount ==
    /\ phase = "read"
    /\ phase' = IF Head(outbox).profile \in users THEN "clear" ELSE "forget"
    /\ UNCHANGED <<object, asked, alarm, d1, stray, ending, faults>>

\* clearOutbox, with what deleting the account would have done here.
Clear ==
    /\ phase \in {"clear", "forget"}
    /\ Commit(IF phase = "forget" THEN ForgetProfile(Head(outbox).profile)
              ELSE Unchanged, 1)
    /\ phase' = "send"
    /\ UNCHANGED <<asked, alarm, d1, stray, ending, faults>>

\* Nothing left: settle finds nothing due and deletes the alarm.
EndDrain ==
    /\ phase = "send" /\ outbox = <<>>
    /\ phase' = "idle"
    /\ alarm' = FALSE
    /\ UNCHANGED <<object, asked, d1, stray, ending, faults>>

\* Mutant: a failed write counts its attempt but schedules nothing.
Backoff_Unarmed == alarm

\* backoffOutbox schedules a retry, and settle arms the alarm for it.
Backoff == TRUE

\* One more fault of a kind, and of whatever it brings with it.
Fault(kinds) ==
    /\ kinds \subseteq Faults
    /\ faults + Cardinality(kinds) <= MaxFaults
    /\ faults' = faults + Cardinality(kinds)

\* The call in hand stops; a statement that was under way may still land.
Dropped(kinds) ==
    /\ phase' = "idle"
    /\ \/ UNCHANGED stray /\ Fault(kinds)
       \/ /\ phase = "send" /\ outbox # <<>>
          /\ stray = None
          /\ stray' = Head(outbox)
          /\ Fault(kinds \cup {"late"})

\* A D1 call fails, before its effect or after it.
Refused ==
    /\ \/ phase = "send" /\ outbox # <<>>
       \/ phase = "read"
       \/ phase = "clear" /\ Head(outbox).kind # "membership"
    /\ Dropped({})
    /\ alarm' = Backoff
    /\ UNCHANGED <<object, asked, d1, ending>>

StrayLands ==
    /\ stray # None
    /\ Lands(stray)
    /\ stray' = None
    /\ UNCHANGED <<object, drain, users, named, ending, faults>>

\* alarm: nothing to collect (Group's Owned), so it settles.  The alarm is
\* spent only once that returns, and the platform repeats one cut short.
AlarmFires ==
    /\ alarm /\ ~asked
    /\ asked' = TRUE
    /\ UNCHANGED <<object, phase, alarm, d1, stray, ending, faults>>

\* The object is evicted: what it was doing is lost, what it stored is not.
Evict ==
    /\ phase # "idle" \/ asked
    /\ Dropped({"evict"})
    /\ asked' = FALSE
    /\ UNCHANGED <<object, alarm, d1, ending>>

-----------------------------------------------------------------------------
(* How an account ends.  A run of forgetAccount reads the memberships, tells *)
(* the group, erases the row, and empties the profile.                      *)

Begin(r, at, h) == ending' = [ending EXCEPT ![r] = [at |-> at, heir |-> h]]

\* The user row goes first.
EndUser(p) ==
    /\ p \in users
    /\ users' = users \ {p}
    /\ UNCHANGED <<object, drain, named, idx, routed, buried, stray, faults>>

DeleteAccount(p) ==
    /\ EndUser(p)
    /\ Begin(<<"request", p>>, "read", None)

\* onLinkAccount, handOverGuest: a guest signs in to an existing account.
SignIn(guest, h) ==
    /\ guest # h /\ h \in users
    /\ EndUser(guest)
    /\ Begin(<<"request", guest>>, "read", h)

\* collectAbandonedGuests: an account D1 knows in no group; its profile next.
CollectGuest(p) ==
    /\ idx[p] = None
    /\ EndUser(p)
    /\ ending[<<"sweep", p>>] = None
    /\ Begin(<<"sweep", p>>, "empty", None)

\* Mutant: only accounts with index rows left are finished.
Sweep_RowsOnly(p) ==
    /\ p \notin users
    /\ idx[p] # None
    /\ \A q \in Profiles : ending[<<"sweep", q>>] = None
    /\ Begin(<<"sweep", p>>, "read", None)
    /\ UNCHANGED <<object, drain, d1, stray, faults>>

\* finishDeletions: accounts that are gone but still named in D1, one by one.
Sweep(p) ==
    /\ p \notin users
    /\ idx[p] # None \/ p \in named
    /\ \A q \in Profiles : ending[<<"sweep", q>>] = None
    /\ Begin(<<"sweep", p>>, "read", None)
    /\ UNCHANGED <<object, drain, d1, stray, faults>>

At(r, at) == ending[r] # None /\ ending[r].at = at
GoTo(r, at) == ending' = [ending EXCEPT ![r].at = at]

ReadMemberships(r) ==
    /\ At(r, "read")
    /\ GoTo(r, IF idx[r[2]] # None THEN "tell" ELSE "empty")
    /\ UNCHANGED <<object, drain, d1, stray, faults>>

\* The object's forgetProfile or handOver.  It also settles; the caller's wait
\* for that is left out: the next step may come at any time after the commit.
TellGroup(r) ==
    /\ At(r, "tell")
    /\ Commit(IF ending[r].heir = None THEN ForgetProfile(r[2])
              ELSE HandOver(r[2], ending[r].heir), 0)
    /\ asked' = TRUE
    /\ GoTo(r, "erase")
    /\ UNCHANGED <<phase, alarm, d1, stray, faults>>

EraseRow(r) ==
    /\ At(r, "erase")
    /\ idx' = [idx EXCEPT ![r[2]] = None]
    /\ GoTo(r, "empty")
    /\ UNCHANGED <<object, drain, users, named, routed, buried, stray, faults>>

EmptyProfile(r) ==
    /\ At(r, "empty")
    /\ named' = named \ {r[2]}
    /\ ending' = [ending EXCEPT ![r] = None]
    /\ UNCHANGED <<object, drain, users, idx, routed, buried, stray, faults>>

\* The Worker running it stops.  The sweep finishes a hand-over that stopped
\* as plain forgetting.
Interrupt(r) ==
    /\ ending[r] # None
    /\ ending' = [ending EXCEPT ![r] = None]
    /\ Fault({"interrupt"})
    /\ UNCHANGED <<object, drain, d1, stray>>

-----------------------------------------------------------------------------
Init ==
    /\ status = "none" /\ place = Empty /\ outbox = <<>> /\ nextId = 1
    /\ phase = "idle" /\ asked = FALSE /\ alarm = FALSE
    /\ users = Profiles /\ named = Profiles
    /\ idx = Empty /\ routed = FALSE /\ buried = FALSE
    /\ stray = None
    /\ ending = [r \in Runs |-> None]
    /\ faults = 0

PeopleNext ==
    \E p \in Profiles :
        \/ Arrive(p) \/ Leave(p) \/ Mint(p)
        \/ DeleteAccount(p) \/ CollectGuest(p)
        \/ \E h \in Profiles : SignIn(p, h)

DrainNext ==
    StartDrain \/ Send \/ ReadAccount \/ Clear \/ EndDrain \/ Refused
    \/ StrayLands \/ AlarmFires \/ Evict

EndingNext ==
    \/ \E p \in Profiles : Sweep(p)
    \/ \E r \in Runs :
          ReadMemberships(r) \/ TellGroup(r) \/ EraseRow(r) \/ EmptyProfile(r)

Next == PeopleNext \/ DrainNext \/ EndingNext \/ \E r \in Runs : Interrupt(r)

Spec == Init /\ [][Next]_vars

\* D1 does not refuse for ever, alarms fire, the daily sweep runs, and a
\* deletion that has begun goes on unless its Worker stops.  Nobody has to act.
Fairness ==
    /\ WF_vars(StartDrain \/ EndDrain \/ AlarmFires)
    /\ SF_vars(Send) /\ SF_vars(ReadAccount) /\ SF_vars(Clear)
    /\ WF_vars(EndingNext)

FairSpec == Spec /\ Fairness

-----------------------------------------------------------------------------
(* Safety. *)

StandingIn(row) == IF row = None THEN None ELSE row.standing

\* When the object owes nothing, the index says of every account exactly what
\* the roster says, whatever failed, was repeated or arrived late before.
IndexMirrors ==
    outbox = <<>> =>
        /\ \A p \in users : StandingIn(idx[p]) = place[p]
        /\ buried = (status = "purged")

\* Once D1 has been told the group is collected it holds nothing of it again.
PurgedStaysOut == buried => idx = Empty /\ ~routed

\* Signing in moves a guest's access with the person: while it is under way an
\* active guest's place ends only as the account it signed in to has one
\* (group-lifecycle.md).
SignInMovesAccess ==
    [][ \A g \in Profiles :
          LET run == ending[<<"request", g>>] IN
          /\ run # None /\ run.heir # None
          /\ place[g] = "active" /\ place'[g] = None
          => place'[run.heir] = "active" ]_vars

Abstract == INSTANCE Participation

\* The roster here behaves as the real one does (Group, which implements the
\* same specification), also where a drain or a deletion changes it late.
ImplementsParticipation == Abstract!Spec

-----------------------------------------------------------------------------
(* What must eventually happen. *)

\* A deleted account ends up in no roster, in no index row, and without a name,
\* however its deletion interleaved with joining, delivery and interruption.
DeletionsComplete ==
    <>[](\A p \in Profiles \ users :
            place[p] = None /\ idx[p] = None /\ p \notin named)

\* The object sends every index write until D1 has taken it (architecture.md).
EverythingSent == []<>(outbox = <<>>)
=============================================================================
