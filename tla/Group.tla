-------------------------------- MODULE Group --------------------------------
(***************************************************************************)
(* One group's Durable Object (server/src/do/group): its roster, its       *)
(* ledger, its two doors (invites and the open link), the activity record, *)
(* the sequence counter behind the change feed, and the membership rows it *)
(* owes the account index.  The object runs one request at a time and      *)
(* every method is one SQLite transaction, so every handler is one action; *)
(* a refusal (`refuse`) rolls the transaction back and is a disabled       *)
(* action, and an answer that changes nothing is a stuttering step.        *)
(*                                                                         *)
(* Times are abstracted to what the code asks of them: whether a row has   *)
(* a leftAt / deletedAt / revokedAt, and whether a token has expired.      *)
(* Names and payment handles are opaque labels.                            *)
(***************************************************************************)
EXTENDS Integers, FiniteSets, Sequences, FiniteSetsExt

CONSTANTS
    Profiles,      \* accounts, guests included
    Members,       \* member row ids, minted by devices and by join
    Entries,       \* entry row ids, minted by devices
    Tokens,        \* invite and link tokens (crypto.randomUUID)
    Labels,        \* names and payment handles
    Looks,         \* a group's appearance and whether it simplifies debts
    EntryInputs,   \* the bodies putEntry is called with
    None,          \* SQL null, or an absent row
    MaxSeq         \* bound: no handler runs that could spend a number beyond it

Currencies == {in.currency : in \in EntryInputs}

\* A payer or share list: the people it names, and their amounts.
IsAmounts(list) ==
    /\ DOMAIN list \subseteq Members
    /\ \A m \in DOMAIN list : list[m] \in Nat

ASSUME IdsAssumption ==
    /\ IsFiniteSet(Members)
    /\ None \notin Profiles \cup Members \cup Entries \cup Tokens \cup Labels

ASSUME InputsAssumption ==
    \A in \in EntryInputs :
        /\ in.kind \in {"expense", "settlement"}
        /\ in.amount \in Nat
        /\ IsAmounts(in.payers) /\ IsAmounts(in.shares)
        /\ in.deleted \in BOOLEAN

ASSUME BoundAssumption == MaxSeq \in Nat

VARIABLES
    seq,           \* counter: the last sequence number spent
    meta,          \* the group row, or None
    tombstone,     \* the sequence number of the purge, or None
    members,       \* member rows by id
    entries,       \* entry rows with their payers and shares, by id
    events,        \* the activity record, in (seq, ordinal) order
    invites,       \* invite rows by token
    groupLink,     \* the one open link, or None
    minted,        \* tokens staged for routing: every token ever handed out
    staged,        \* the newest membership row staged for each account
    stagedPurge,   \* whether a group_purged row was staged
    editor         \* history: whose putMember at an existing row the last step was

tables == <<seq, meta, tombstone, members, entries, events, invites, groupLink,
            minted, staged, stagedPurge>>
vars == <<tables, editor>>
doors == <<invites, groupLink, minted>>
index == <<staged, stagedPurge>>

-----------------------------------------------------------------------------
(* Rows. *)

MetaRow == [name : Labels, look : Looks, seq : Nat]
MemberRow == [profile : Profiles \cup {None}, name : Labels,
              handle : Labels \cup {None}, left : BOOLEAN, seq : Nat]
EntryRow == [body : EntryInputs, seq : Nat]
InviteRow == [member : Members, redeemedBy : Profiles \cup {None},
              expired : BOOLEAN]
LinkRow == [token : Tokens, revoked : BOOLEAN, expired : BOOLEAN]
EventRow ==
    [seq : Nat, kind : {"entry", "group_renamed", "member_added", "member_joined",
                        "member_left", "member_renamed", "link_created", "link_revoked"},
     subject : Members \cup Entries \cup Tokens \cup {None},
     actor : Members \cup {None}, entry : EntryInputs \cup {None}]

\* A null is no row, no number and no standing.
ASSUME NullAssumption ==
    /\ None \notin {"active", "left"}
    /\ None \notin Nat
    /\ None \notin MetaRow
    /\ None \notin MemberRow
    /\ None \notin EntryRow
    /\ None \notin InviteRow
    /\ None \notin LinkRow

RowsTyped ==
    /\ seq \in Nat
    /\ meta \in MetaRow \cup {None}
    /\ tombstone \in Nat \cup {None}
    /\ members \in [Members -> MemberRow \cup {None}]
    /\ entries \in [Entries -> EntryRow \cup {None}]
    /\ events \in Seq(EventRow)
    /\ invites \in [Tokens -> InviteRow \cup {None}]
    /\ groupLink \in LinkRow \cup {None}
    /\ minted \in SUBSET Tokens
    /\ staged \in [Profiles -> {"active", "left", None}]
    /\ stagedPurge \in BOOLEAN

\* Every variable holds rows of its table's shape.
TypeOK == RowsTyped /\ editor \in Profiles \cup {None}

-----------------------------------------------------------------------------
(* Queries over the rows. *)

Live == meta # None

Places(roster, p) == {m \in Members : /\ roster[m] # None
                                      /\ roster[m].profile = p}

\* Mutant: looks only among current rows.
PlaceOf_ActiveOnly(p) == {m \in Places(members, p) : ~members[m].left}

\* findMemberByProfile: the account's place, current or left.
PlaceOf(p) == Places(members, p)

\* requireActiveMember: the caller's own current row.
SeatOf(p) == {m \in PlaceOf(p) : ~members[m].left}

\* Mutant: placeholders count as people who can still open the group.
ActiveIn_AnyMember(roster) == {m \in Members : roster[m] # None /\ ~roster[m].left}

\* The accounts that still participate (hasActiveAccounts).
ActiveIn(roster) == {m \in Members : /\ roster[m] # None
                                     /\ roster[m].profile # None
                                     /\ ~roster[m].left}

Departed == {m \in Members : members[m] # None /\ members[m].left}

Total(amounts) ==
    MapThenSumSet(LAMBDA m : amounts[m], DOMAIN amounts)

AmountOf(amounts, m) == IF m \in DOMAIN amounts THEN amounts[m] ELSE 0

\* What one entry body puts on a member in a currency.
Moves(body, m, cur) ==
    IF body.deleted \/ body.currency # cur THEN 0
    ELSE AmountOf(body.payers, m) - AmountOf(body.shares, m)

StoredMoves(e, m, cur) ==
    IF entries[e] = None THEN 0 ELSE Moves(entries[e].body, m, cur)

\* positions: what a member is owed (positive) or owes (negative).
Position(m, cur) == MapThenSumSet(LAMBDA e : StoredMoves(e, m, cur), Entries)

IsSettled(m) == \A cur \in Currencies : Position(m, cur) = 0
IsGroupSettled == \A m \in Members : IsSettled(m)

-----------------------------------------------------------------------------
(* What handlers have in common. *)

Event(s, kind, subject, actor) ==
    [seq |-> s, kind |-> kind, subject |-> subject, actor |-> actor,
     entry |-> None]

\* append: events of one sequence number take consecutive ordinals.
Append1(ev) == events' = Append(events, ev)

\* purge and stagePurge: everything goes, the tombstone stays.
Purge(s) ==
    /\ seq' = s
    /\ tombstone' = s
    /\ meta' = None
    /\ members' = [m \in Members |-> None]
    /\ entries' = [e \in Entries |-> None]
    /\ events' = <<>>
    /\ invites' = [t \in Tokens |-> None]
    /\ groupLink' = None
    /\ stagedPurge' = TRUE
    /\ UNCHANGED minted

\* The leftAt of a staged membership row.
Standing(left) == IF left THEN "left" ELSE "active"

\* Mutant: a departure is staged as if the account were still there.
Stage_AlwaysActive(p, left) == [staged EXCEPT ![p] = "active"]

\* stageMembership: the newest staged row of an account replaces the others.
Stage(p, left) == [staged EXCEPT ![p] = Standing(left)]

\* Mutant: the returning row keeps its old stamp.
Arrive_Unstamped(p, m, row) ==
    /\ seq' = seq + 1
    /\ members' = [members EXCEPT ![m] = row]
    /\ Append1(Event(seq + 1, "member_joined", m, None))
    /\ staged' = Stage(p, FALSE)
    /\ UNCHANGED <<meta, tombstone, entries, stagedPurge>>

\* A row that becomes a current place of account p, with its event and its
\* index row: what claim, rejoin and arriving as somebody new share.
Arrive(p, m, row) ==
    /\ seq' = seq + 1
    /\ members' = [members EXCEPT ![m] = [row EXCEPT !.seq = seq + 1]]
    /\ Append1(Event(seq + 1, "member_joined", m, None))
    /\ staged' = Stage(p, FALSE)
    /\ UNCHANGED <<meta, tombstone, entries, stagedPurge>>

-----------------------------------------------------------------------------
(* The group and its people. *)

\* Mutant: forgets that a collected id stays collected.
Creatable_Again == ~Live

Creatable == ~Live /\ tombstone = None

\* putGroup on an id nothing was ever created at: the group and its
\* creator's place in one change.
CreateGroup(p, m, name, look) ==
    /\ seq < MaxSeq
    /\ Creatable
    /\ seq' = seq + 1
    /\ meta' = [name |-> name, look |-> look, seq |-> seq + 1]
    /\ members' = [members EXCEPT ![m] =
                     [profile |-> p, name |-> name, handle |-> None,
                      left |-> FALSE, seq |-> seq + 1]]
    /\ staged' = Stage(p, FALSE)
    /\ UNCHANGED <<tombstone, entries, events, doors, stagedPurge>>

\* putGroup on a live group.  A new look is not an event.
UpdateGroup(p, name, look, base) ==
    /\ seq < MaxSeq
    /\ Live
    /\ <<name, look>> # <<meta.name, meta.look>>
    /\ base = meta.seq
    /\ \E actor \in SeatOf(p) :
         events' = IF name = meta.name THEN events
                   ELSE Append(events, Event(seq + 1, "group_renamed", None, actor))
    /\ seq' = seq + 1
    /\ meta' = [name |-> name, look |-> look, seq |-> seq + 1]
    /\ UNCHANGED <<tombstone, members, entries, doors, index>>

\* putMember at an unused id: a placeholder.
AddMember(p, m, name, handle) ==
    /\ seq < MaxSeq
    /\ Live
    /\ members[m] = None
    /\ \E actor \in SeatOf(p) :
         Append1(Event(seq + 1, "member_added", m, actor))
    /\ seq' = seq + 1
    /\ members' = [members EXCEPT ![m] =
                     [profile |-> None, name |-> name, handle |-> handle,
                      left |-> FALSE, seq |-> seq + 1]]
    /\ UNCHANGED <<meta, tombstone, entries, doors, index>>

\* Mutant: any member may edit any row.
MayEdit_Anyone(actor, m) == TRUE

\* Your own row and any placeholder are editable; another account's is not.
MayEdit(actor, m) == members[m].profile = None \/ m = actor

\* The last account may only leave a group in which nobody owes anything.
LastAccountLeaves(m) ==
    members[m].profile # None /\ ActiveIn(members) \ {m} = {}

\* Mutant: only the leaver's own balance is looked at.
MayLeave_OwnBalance(m) == IsSettled(m)

MayLeave(m) == IsSettled(m) /\ (LastAccountLeaves(m) => IsGroupSettled)

\* Mutant: bringing a placeholder back goes unrecorded.
MemberEvents_SilentReturn(s, m, actor, old, new) ==
    IF new.left /\ ~old.left THEN <<Event(s, "member_left", m, actor)>> ELSE <<>>

MemberEvents(s, m, actor, old, new) ==
    LET ev(kind) == Event(s, kind, m, actor)
    IN  (IF new.left /\ ~old.left THEN <<ev("member_left")>> ELSE <<>>)
        \o (IF old.left /\ ~new.left THEN <<ev("member_added")>> ELSE <<>>)
        \o (IF new.name # old.name THEN <<ev("member_renamed")>> ELSE <<>>)

\* putMember at an existing id: renaming, a handle, leaving, removing,
\* bringing a placeholder back; the last account out takes the group with it.
UpdateMember(p, m, name, handle, left, base) ==
    /\ seq < MaxSeq
    /\ Live
    /\ members[m] # None
    /\ LET old == members[m]
           new == [old EXCEPT !.name = name, !.handle = handle,
                              !.left = left, !.seq = seq + 1]
           edited == name # old.name \/ handle # old.handle
           leaving == left /\ ~old.left
           returning == old.left /\ ~left
           roster == [members EXCEPT ![m] = new]
       IN /\ edited \/ leaving \/ returning
          /\ base = old.seq
          /\ leaving => MayLeave(m)
          /\ returning => old.profile = None
          /\ \E actor \in SeatOf(p) :
               /\ edited => MayEdit(actor, m)
               /\ \/ /\ leaving /\ ActiveIn(roster) = {}
                     /\ Purge(seq + 2)
                  \/ /\ ~(leaving /\ ActiveIn(roster) = {})
                     /\ seq' = seq + 1
                     /\ members' = roster
                     /\ events' = events \o MemberEvents(seq + 1, m, actor, old, new)
                     /\ UNCHANGED <<meta, tombstone, entries, doors, stagedPurge>>
          /\ staged' = IF old.profile = None THEN staged
                       ELSE Stage(old.profile, left)

-----------------------------------------------------------------------------
(* Accounts that end: deleted, or handed to another one by signing in. *)

\* forgetProfile: the place becomes a placeholder (under the account's last
\* name, when there is one); a group with no other account is collected.
Forget(roster, s, p, name) ==
    IF ActiveIn(roster) \ Places(roster, p) = {}
    THEN Purge(s)
    ELSE /\ seq' = s
         /\ members' = [m \in Members |->
                          IF m \in Places(roster, p)
                          THEN [roster[m] EXCEPT !.profile = None, !.seq = s,
                                   !.name = IF name = None THEN @ ELSE name]
                          ELSE roster[m]]
         /\ UNCHANGED <<meta, tombstone, entries, doors, stagedPurge>>

ForgetProfile(p, name) ==
    /\ seq < MaxSeq
    /\ Live
    /\ PlaceOf(p) # {}
    /\ Forget(members, seq + 1, p, name)
    /\ Live' => UNCHANGED events
    /\ UNCHANGED staged

\* handOver where the heir holds no place here: the guest's becomes theirs.
HandOverPlace(guest, heir) ==
    /\ seq < MaxSeq
    /\ Live
    /\ PlaceOf(heir) = {}
    /\ \E m \in PlaceOf(guest) :
         /\ members' = [members EXCEPT ![m].profile = heir, ![m].seq = seq + 1]
         /\ staged' = Stage(heir, members[m].left)
    /\ seq' = seq + 1
    /\ UNCHANGED <<meta, tombstone, entries, events, doors, stagedPurge>>

\* Mutant: the guest's place is given up without returning the heir's.
HandOverBeside_NoReturn(guest, heir) ==
    /\ seq < MaxSeq
    /\ Live
    /\ guest # heir
    /\ PlaceOf(guest) # {} /\ PlaceOf(heir) # {}
    /\ Forget(members, seq + 1, guest, None)
    /\ Live' => UNCHANGED events
    /\ UNCHANGED staged

\* handOver where both hold a place: the guest's is left as a placeholder,
\* after an heir who had left got theirs back from an active guest.
HandOverBeside(guest, heir) ==
    /\ seq < MaxSeq
    /\ Live
    /\ guest # heir
    /\ \E g \in PlaceOf(guest), h \in PlaceOf(heir) :
         IF members[h].left /\ ~members[g].left
         THEN /\ Forget([members EXCEPT ![h].left = FALSE, ![h].seq = seq + 1],
                        seq + 2, guest, None)
              /\ Live' => Append1(Event(seq + 1, "member_joined", h, None))
              /\ staged' = Stage(heir, FALSE)
         ELSE /\ Forget(members, seq + 1, guest, None)
              /\ Live' => UNCHANGED events
              /\ UNCHANGED staged

-----------------------------------------------------------------------------
(* The two doors. *)

\* Mutant: the invite it replaces stays open.
Reissued_KeepsOld(m) == invites

\* The invite rows with the unspent ones for a place forgotten.
Reissued(m) ==
    [u \in Tokens |-> IF /\ invites[u] # None
                         /\ invites[u].member = m
                         /\ invites[u].redeemedBy = None
                      THEN None ELSE invites[u]]

\* createInvite for an unclaimed place; reissuing forgets the unspent one.
\* It spends no sequence number.
CreateInvite(p, m, t) ==
    /\ Live
    /\ SeatOf(p) # {}
    /\ members[m] # None
    /\ members[m].profile = None
    /\ ~members[m].left
    /\ t \notin minted
    /\ invites' = [Reissued(m) EXCEPT ![t] =
                     [member |-> m, redeemedBy |-> None, expired |-> FALSE]]
    /\ minted' = minted \cup {t}
    /\ UNCHANGED <<seq, meta, tombstone, members, entries, events, groupLink, index>>

CreateGroupLink(p, t) ==
    /\ seq < MaxSeq
    /\ Live
    /\ t \notin minted
    /\ \E actor \in SeatOf(p) :
         events' = events
             \o (IF groupLink # None /\ ~groupLink.revoked
                 THEN <<Event(seq + 1, "link_revoked", groupLink.token, actor)>>
                 ELSE <<>>)
             \o <<Event(seq + 1, "link_created", t, actor)>>
    /\ seq' = seq + 1
    /\ groupLink' = [token |-> t, revoked |-> FALSE, expired |-> FALSE]
    /\ minted' = minted \cup {t}
    /\ UNCHANGED <<meta, tombstone, members, entries, invites, index>>

RevokeGroupLink(p) ==
    /\ seq < MaxSeq
    /\ Live
    /\ groupLink # None
    /\ ~groupLink.revoked
    /\ \E actor \in SeatOf(p) :
         Append1(Event(seq + 1, "link_revoked", groupLink.token, actor))
    /\ seq' = seq + 1
    /\ groupLink' = [groupLink EXCEPT !.revoked = TRUE]
    /\ UNCHANGED <<meta, tombstone, members, entries, invites, minted, index>>

\* Time passes a token's expiresAt; a spent invite is refused as spent first.
Expire(t) ==
    /\ \/ /\ invites[t] # None /\ invites[t].redeemedBy = None
          /\ ~invites[t].expired
          /\ invites' = [invites EXCEPT ![t].expired = TRUE]
          /\ UNCHANGED groupLink
       \/ /\ groupLink # None /\ groupLink.token = t /\ ~groupLink.expired
          /\ groupLink' = [groupLink EXCEPT !.expired = TRUE]
          /\ UNCHANGED invites
    /\ UNCHANGED <<seq, meta, tombstone, members, entries, events, minted, index>>

InviteOpen(t) ==
    invites[t] # None /\ invites[t].redeemedBy = None /\ ~invites[t].expired

LinkOpen(t) ==
    groupLink # None /\ groupLink.token = t /\ ~groupLink.revoked /\ ~groupLink.expired

\* An unclaimed, current place: what claim requires.
Claimable(m) == members[m] # None /\ members[m].profile = None /\ ~members[m].left

\* Mutant: the place is recorded as the redeemer, not the account.
RedeemInvite_ByPlace(p, t) ==
    /\ seq < MaxSeq
    /\ Live
    /\ PlaceOf(p) = {}
    /\ InviteOpen(t)
    /\ LET m == invites[t].member
       IN /\ Claimable(m)
          /\ Arrive(p, m, [members[m] EXCEPT !.profile = p])
          /\ invites' = [invites EXCEPT ![t].redeemedBy = m]
    /\ UNCHANGED <<groupLink, minted>>

\* join, somebody new to the group holding an invite.  A claim that is refused
\* rolls the redemption back.
RedeemInvite(p, t) ==
    /\ seq < MaxSeq
    /\ Live
    /\ PlaceOf(p) = {}
    /\ InviteOpen(t)
    /\ LET m == invites[t].member
       IN /\ Claimable(m)
          /\ Arrive(p, m, [members[m] EXCEPT !.profile = p])
    /\ invites' = [invites EXCEPT ![t].redeemedBy = p]
    /\ UNCHANGED <<groupLink, minted>>

\* join, an account that left: its own place back, the invite unspent.
Rejoin(p, t) ==
    /\ seq < MaxSeq
    /\ Live
    /\ InviteOpen(t) \/ LinkOpen(t)
    /\ \E m \in PlaceOf(p) :
         /\ members[m].left
         /\ Arrive(p, m, [members[m] EXCEPT !.left = FALSE])
    /\ UNCHANGED doors

\* join behind the open link, claiming one of its placeholders.
ClaimPlaceholder(p, t, m) ==
    /\ seq < MaxSeq
    /\ Live
    /\ PlaceOf(p) = {}
    /\ LinkOpen(t)
    /\ Claimable(m)
    /\ Arrive(p, m, [members[m] EXCEPT !.profile = p])
    /\ UNCHANGED doors

\* join behind the open link, as somebody new: m is the fresh row's id.
JoinAsNew(p, t, m, name) ==
    /\ seq < MaxSeq
    /\ Live
    /\ PlaceOf(p) = {}
    /\ LinkOpen(t)
    /\ members[m] = None
    /\ Arrive(p, m, [profile |-> p, name |-> name, handle |-> None,
                     left |-> FALSE, seq |-> 0])
    /\ UNCHANGED doors

-----------------------------------------------------------------------------
(* The ledger. *)

\* assertBalanced: sum(payers) = sum(shares) = amount.
Balanced(in) == Total(in.payers) = in.amount /\ Total(in.shares) = in.amount

\* assertMembersExist.
NamesMembers(in) ==
    \A m \in DOMAIN in.payers \cup DOMAIN in.shares : members[m] # None

\* assertSettlement: a live payment moves money between two different people.
WellFormedPayment(in) ==
    in.kind = "settlement" /\ ~in.deleted =>
        \E from, to \in Members :
            from # to /\ DOMAIN in.payers = {from} /\ DOMAIN in.shares = {to}

\* A change of balance that only moves it toward zero.
Settles(before, delta) ==
    \/ before > 0 /\ delta < 0 /\ before + delta >= 0
    \/ before < 0 /\ delta > 0 /\ before + delta <= 0

\* Mutant: people who left are protected only where an expense newly names them.
DepartedOnlySettle_NewOnly(e, in) ==
    \A m \in Departed, cur \in Currencies :
        Moves(in, m, cur) = 0 \/ entries[e] # None

\* assertDepartedOnlySettle: per departed member and currency, what this write
\* moves with the stored version taken back out.
DepartedOnlySettle(e, in) ==
    \A m \in Departed, cur \in Currencies :
        LET delta == Moves(in, m, cur) - StoredMoves(e, m, cur)
        IN  delta = 0 \/ Settles(Position(m, cur), delta)

\* Mutant: any earlier snapshot that says the same will do.
SnapshotEvents_AnyPast(s, e, in, actor) ==
    IF \E i \in DOMAIN events : events[i].subject = e /\ events[i].entry = in
    THEN <<>>
    ELSE <<[Event(s, "entry", e, actor) EXCEPT !.entry = in]>>

\* appendSnapshot: an after-image, unless the latest one says the same.
SnapshotEvents(s, e, in, actor) ==
    LET past == {i \in DOMAIN events : events[i].kind = "entry" /\ events[i].subject = e}
    IN  IF past # {} /\ events[Max(past)].entry = in THEN <<>>
        ELSE <<[Event(s, "entry", e, actor) EXCEPT !.entry = in]>>

\* putEntry: records, edits, deletes or restores an expense, whole.
PutEntry(p, e, in, base) ==
    /\ seq < MaxSeq
    /\ Live
    /\ Balanced(in)
    /\ NamesMembers(in)
    /\ entries[e] # None => /\ entries[e].body # in
                            /\ base = entries[e].seq
                            /\ entries[e].body.kind = in.kind
    /\ WellFormedPayment(in)
    /\ DepartedOnlySettle(e, in)
    /\ \E actor \in SeatOf(p) :
         events' = events \o SnapshotEvents(seq + 1, e, in, actor)
    /\ seq' = seq + 1
    /\ entries' = [entries EXCEPT ![e] = [body |-> in, seq |-> seq + 1]]
    /\ UNCHANGED <<meta, tombstone, members, doors, index>>

-----------------------------------------------------------------------------
Init ==
    /\ seq = 0
    /\ meta = None
    /\ tombstone = None
    /\ members = [m \in Members |-> None]
    /\ entries = [e \in Entries |-> None]
    /\ events = <<>>
    /\ invites = [t \in Tokens |-> None]
    /\ groupLink = None
    /\ minted = {}
    /\ staged = [p \in Profiles |-> None]
    /\ stagedPurge = FALSE
    /\ editor = None

Bases == 0..MaxSeq

EditNext ==
    \E p \in Profiles, m \in Members, name \in Labels, handle \in Labels \cup {None} :
    \E left \in BOOLEAN, base \in Bases :
        UpdateMember(p, m, name, handle, left, base) /\ editor' = p

RosterNext ==
    \E p \in Profiles, m \in Members, name \in Labels :
        \/ \E look \in Looks : CreateGroup(p, m, name, look)
        \/ \E handle \in Labels \cup {None} : AddMember(p, m, name, handle)

GroupNext ==
    \E p \in Profiles, name \in Labels, look \in Looks, base \in Bases :
        UpdateGroup(p, name, look, base)

AccountNext ==
    \E p \in Profiles :
        \/ \E name \in Labels \cup {None} : ForgetProfile(p, name)
        \/ \E heir \in Profiles : HandOverPlace(p, heir) \/ HandOverBeside(p, heir)

DoorsNext ==
    \E t \in Tokens :
        \/ Expire(t)
        \/ \E p \in Profiles :
             \/ CreateGroupLink(p, t)
             \/ RedeemInvite(p, t)
             \/ Rejoin(p, t)
             \/ \E m \in Members :
                  \/ CreateInvite(p, m, t)
                  \/ ClaimPlaceholder(p, t, m)
                  \/ \E name \in Labels : JoinAsNew(p, t, m, name)

RevokeNext == \E p \in Profiles : RevokeGroupLink(p)

LedgerNext ==
    \E p \in Profiles, e \in Entries, in \in EntryInputs, base \in Bases :
        PutEntry(p, e, in, base)

Next ==
    \/ EditNext
    \/ /\ RosterNext \/ GroupNext \/ AccountNext \/ DoorsNext \/ RevokeNext \/ LedgerNext
       /\ editor' = None

Spec == Init /\ [][Next]_vars

-----------------------------------------------------------------------------
(* Safety. *)

\* One account never holds two places in a group, however it came in: by
\* creating, claiming, rejoining, or being handed a guest's place (invites.ts
\* "Never a second place for one account").
OnePlacePerAccount ==
    \A m, n \in Members :
        /\ members[m] # None /\ members[n] # None
        /\ members[m].profile # None
        /\ members[m].profile = members[n].profile
        => m = n

\* A group exists while an account participates (upkeep.ts collectUnowned): no
\* sequence of leaving, removal, deletion and hand-over leaves a live group
\* that nobody can open, so the daily runUpkeep finds nothing to collect.
Owned ==
    Live => \E m \in Members : /\ members[m] # None
                               /\ members[m].profile # None
                               /\ ~members[m].left

\* A collected group keeps nothing and is never created again, and its purge
\* has been staged for the index.
LiveXorGone ==
    /\ tombstone # None => ~Live
    /\ (tombstone # None) = stagedPurge
    /\ ~Live =>
         /\ \A m \in Members : members[m] = None
         /\ \A e \in Entries : entries[e] = None
         /\ \A t \in Tokens : invites[t] = None
         /\ groupLink = None
         /\ events = <<>>

\* Nobody who has left owes or is owed anything, in any currency: leaving
\* needs it, and no later write names them into money (roster.ts "a balance is
\* never stranded with somebody who can no longer see the group").
DepartedSettled == \A m \in Departed : IsSettled(m)

\* The newest membership row staged for an account that holds a place says
\* whether that place is current: once delivered, the index routes pulls right.
StagedMirrorsRoster ==
    \A m \in Members :
        members[m] # None /\ members[m].profile # None =>
            staged[members[m].profile] = Standing(members[m].left)

\* The activity record tells who is here: the last arrival or departure it
\* holds for a member agrees with the roster.
RecordMatchesRoster ==
    \A m \in Members :
        LET past == {i \in DOMAIN events :
                      /\ events[i].subject = m
                      /\ events[i].kind \in {"member_added", "member_joined", "member_left"}}
        IN  members[m] # None =>
              members[m].left = (past # {} /\ events[Max(past)].kind = "member_left")

\* The last snapshot of an expense is what is stored, so the diff a device
\* shows for the next edit starts from the truth.
SnapshotCurrent ==
    \A e \in Entries : entries[e] # None =>
        LET past == {i \in DOMAIN events : /\ events[i].kind = "entry"
                                           /\ events[i].subject = e}
        IN  past # {} /\ events[Max(past)].entry = entries[e].body

\* At most one unspent invite names a place: reissuing turned the others off.
OneOpenInvite ==
    \A t, u \in Tokens :
        /\ invites[t] # None /\ invites[u] # None
        /\ invites[t].redeemedBy = None /\ invites[u].redeemedBy = None
        /\ invites[t].member = invites[u].member
        => t = u

-----------------------------------------------------------------------------
(* What a step may never do. *)

Changed(old, new) == new # None /\ new # old

\* Every change a device must learn of is stamped with a number no earlier
\* page could have ended at: rows that claim, hand-over, rejoin or forgetting
\* touch are sent again to every cursor.
FeedSeesEveryChange ==
    [][ /\ seq <= seq'
        /\ Changed(meta, meta') => meta'.seq > seq
        /\ \A m \in Members : Changed(members[m], members'[m]) => members'[m].seq > seq
        /\ \A e \in Entries : Changed(entries[e], entries'[e]) => entries'[e].seq > seq
        /\ \A i \in DOMAIN events' \ DOMAIN events : events'[i].seq > seq ]_vars

\* The name and payment handle of a place an account holds change only by that
\* account's own request, however the place changed hands before, and those of a
\* placeholder only by somebody's request; whoever ends an account may leave the
\* place its last name (roster.ts "a handle redirects money").
DetailsAreTheirOwn ==
    [][ \A m \in Members :
          LET old == members[m]
              new == members'[m]
          IN  old # None /\ new # None =>
              /\ new.handle # old.handle =>
                    editor' # None /\ old.profile \in {None, editor'}
              /\ new.name # old.name =>
                    \/ editor' # None /\ old.profile \in {None, editor'}
                    \/ old.profile # None /\ new.profile = None ]_vars

SignIn(guest, heir) == HandOverPlace(guest, heir) \/ HandOverBeside(guest, heir)

\* Signing in to an existing account never costs a guest the group: the heir
\* can open it afterwards, and it is not collected.
SignInKeepsAccess ==
    [][ \A guest, heir \in Profiles :
          SignIn(guest, heir) /\ SeatOf(guest) # {} => SeatOf(heir)' # {} ]_vars

\* Unless an account is deleted, a group only ends with every balance settled.
EndsSettled ==
    [][ Live /\ ~Live' =>
          \/ IsGroupSettled
          \/ \E p \in Profiles, name \in Labels \cup {None} : ForgetProfile(p, name) ]_vars
-----------------------------------------------------------------------------
(* What all of it amounts to: who takes part.  The status is read off the   *)
(* group row and the tombstone, an account's standing off the row it holds. *)

Status == IF Live THEN "live" ELSE IF tombstone = None THEN "none" ELSE "purged"

StandingIn(roster, p) ==
    IF \E m \in Places(roster, p) : ~roster[m].left THEN "active"
    ELSE IF Places(roster, p) # {} THEN "left" ELSE None

StandingsIn(roster) == [p \in Profiles |-> StandingIn(roster, p)]

Abstract == INSTANCE Participation WITH
    status <- Status, place <- StandingsIn(members)

\* Twenty handlers, six things that can happen to a participation: an arrival, a
\* departure, an end.  No order of them lets a group outlive its last active
\* account, end while one is left, or come back.
ImplementsParticipation == Abstract!Spec
=============================================================================
