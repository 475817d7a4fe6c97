------------------------------ MODULE Profiles ------------------------------
(***************************************************************************)
(* Who people are to those they share a group with: the profiles in D1      *)
(* (profile-version.ts, api/account.ts), the name a join gives an account   *)
(* that has none (api/invites.ts), and the copy one reader's device keeps   *)
(* from two feeds: the profile feed, cursored on a version, and the pages   *)
(* of the group, which carry the profiles of the places on them             *)
(* (api/ledger.ts, shared_feeds.dart, apply_changes.dart).                  *)
(*                                                                          *)
(* D1 runs one statement or batch at a time; a request is cut at each of    *)
(* its awaits.  The index of memberships, which decides whose profile the   *)
(* feed shows, lags the group: its rows travel in order (IndexFlush, which  *)
(* also models how an account ends).                                        *)
(***************************************************************************)
EXTENDS Integers, Sequences, FiniteSets, FiniteSetsExt

CONSTANTS
    Accounts,
    Reader,       \* the account whose device reads; it stays in the group
    Names,
    Malformed,    \* names the server refuses for good
    None,         \* null
    PageSize,     \* profiles per page of the feed
    MaxEvents     \* bound: what people do and what goes wrong, together

ASSUME AccountsAssumption ==
    /\ Reader \in Accounts /\ IsFiniteSet(Accounts)
    /\ Malformed \subseteq Names /\ None \notin Names
ASSUME BoundsAssumption == PageSize \in Nat \ {0} /\ MaxEvents \in Nat

VARIABLES
    counter,  \* D1: the counter row that numbers profiles
    profile,  \* D1: one row per account
    index,    \* D1: membership rows
    seq,      \* the group: its sequence number
    places,   \* the group: each account's member row
    owed,     \* the group: standings staged for the index, oldest first
    joins,    \* requests to join, between their awaits
    held,     \* device: profiles
    typed,    \* device: its own profile's place in the outbox
    feed,     \* device: cursor of the profile feed
    read,     \* device: cursor of the group
    step,     \* the run in progress: "idle", "push", "feed" or "group"
    full,     \* it is a full sync
    call,     \* the request it waits for
    stray,    \* a name given up on that may still arrive
    hidden,   \* history: accounts last renamed in the group before the index showed them
    events    \* how much of the bound is spent

group == <<seq, places, owed>>
server == <<counter, profile, index, group, joins>>
device == <<held, typed, feed, read>>
run == <<step, full, call>>
vars == <<server, device, run, stray, hidden, events>>

\* A guest has no name until one is chosen or adopted.
Profile == [name : Names \cup {None}, version : Nat]
Standing == {"none", "active", "left"}
Place == [at : Standing, name : Names \cup {None}, seq : Nat]
\* due: not backing off.  refused: set aside.
Item == [revision : Nat, due : BOOLEAN, refused : BOOLEAN]

\* A request to join: the account's name as read, and the place it got.
Joining == [read : Names \cup {None}, at : {"read", "joined"}, place : Names \cup {None}]
\* A page's profiles, None for an account not on it.
Rows == [Accounts -> Profile \cup {None}]
Call ==
    [kind : {"sent"}, revision : Nat, name : Names]
        \cup [kind : {"stored"}, revision : Nat, version : Nat]
        \cup [kind : {"refused", "recorded"}, revision : Nat]
        \cup [kind : {"feed"}, rows : Rows, seq : Nat, hasMore : BOOLEAN]
        \cup [kind : {"changes"}, seq : Nat, who : SUBSET Accounts]
        \cup [kind : {"group"}, seq : Nat, rows : Rows]

ASSUME NullAssumption == None \notin Profile \cup Joining \cup Item \cup Call

\* Types, and the unique index on versions: no two profiles share one.
TypeOK ==
    /\ counter \in Nat /\ profile \in [Accounts -> Profile]
    /\ \A p \in Accounts : profile[p].version <= counter
    /\ \A p, q \in Accounts : p # q => profile[p].version # profile[q].version
    /\ index \in [Accounts -> Standing]
    /\ seq \in Nat /\ places \in [Accounts -> Place]
    /\ owed \in [Accounts -> Seq(Standing)]
    /\ joins \in [Accounts -> Joining \cup {None}]
    /\ held \in [Accounts -> Profile \cup {None}]
    /\ typed \in Item \cup {None}
    /\ feed \in 0..counter /\ read \in 0..seq
    /\ step \in {"idle", "push", "feed", "group"} /\ full \in BOOLEAN
    /\ call \in Call \cup {None} /\ stray \in Names \cup {None}
    /\ hidden \subseteq Accounts /\ events \in 0..MaxEvents

Happens == events < MaxEvents /\ events' = events + 1

-----------------------------------------------------------------------------
(* Profiles in D1. *)

\* Whose rows the feed shows: the reader and everybody D1 says is in a group
\* with it.
VisibleToReader ==
    {Reader} \cup (IF index[Reader] = "active" THEN {p \in Accounts : index[p] = "active"} ELSE {})

\* Mutant: a batch that forgets the counter.
Versioned_NotCounted(p, name) ==
    /\ counter' = counter
    /\ profile' = [profile EXCEPT ![p] = [name |-> name, version |-> counter]]
    /\ UNCHANGED hidden

\* The index shows this account to the reader, with nothing on its way.
Settled(p) == p \in VisibleToReader /\ owed[p] = <<>> /\ owed[Reader] = <<>>

\* Every write is one batch with the counter, and takes its new value.
Versioned(p, name) ==
    /\ counter' = counter + 1
    /\ profile' = [profile EXCEPT ![p] = [name |-> name, version |-> counter + 1]]
    /\ hidden' = IF places[p].at # "active" \/ Settled(p) THEN hidden \ {p} ELSE hidden \cup {p}

\* Renamed from another device of the account.
UpdateProfile(p, name) ==
    /\ Happens
    /\ Versioned(p, name)
    /\ UNCHANGED <<index, group, joins, device, run, stray>>

-----------------------------------------------------------------------------
(* The group, and the index behind it. *)

Moved(p, at, name) ==
    /\ seq' = seq + 1
    /\ places' = [places EXCEPT ![p] = [at |-> at, name |-> name, seq |-> seq + 1]]
    /\ owed' = [owed EXCEPT ![p] = Append(@, at)]

\* joinRoute: the account's name is read, the object is called, and the name of
\* the place becomes the account's if there was none to read.
BeginJoin(p) ==
    /\ Happens
    /\ p # Reader /\ joins[p] = None
    /\ joins' = [joins EXCEPT ![p] = [read |-> profile[p].name, at |-> "read", place |-> None]]
    /\ UNCHANGED <<counter, profile, index, group, device, run, stray, hidden>>

\* A new place under a name typed or read, or a placeholder under its own; the
\* place somebody left is theirs again.
Join(p, name) ==
    /\ joins[p] # None /\ joins[p].at = "read"
    /\ LET place == IF places[p].at = "none" THEN name ELSE places[p].name IN
       /\ joins' = [joins EXCEPT ![p].at = "joined", ![p].place = place]
       /\ IF places[p].at = "active" THEN UNCHANGED group ELSE Moved(p, "active", place)
    /\ UNCHANGED <<counter, profile, index, device, run, stray, hidden, events>>

Adopt(p) ==
    /\ joins[p] # None /\ joins[p].at = "joined"
    /\ IF joins[p].read = None THEN Versioned(p, joins[p].place)
       ELSE UNCHANGED <<counter, profile, hidden>>
    /\ joins' = [joins EXCEPT ![p] = None]
    /\ UNCHANGED <<index, group, device, run, stray, events>>

Leave(p) ==
    /\ Happens
    /\ p # Reader /\ places[p].at = "active"
    /\ Moved(p, "left", places[p].name)
    /\ UNCHANGED <<counter, profile, index, joins, device, run, stray, hidden>>

\* The oldest staged row reaches D1.
Deliver(p) ==
    /\ owed[p] # <<>>
    /\ index' = [index EXCEPT ![p] = Head(owed[p])]
    /\ owed' = [owed EXCEPT ![p] = Tail(@)]
    /\ UNCHANGED <<counter, profile, seq, places, joins, device, run, stray, hidden, events>>

\* The Worker serving a join stops.
Interrupt(p) ==
    /\ Happens
    /\ joins[p] # None /\ joins' = [joins EXCEPT ![p] = None]
    /\ UNCHANGED <<counter, profile, index, group, device, run, stray, hidden>>

-----------------------------------------------------------------------------
(* A run on the reader's device: the push. *)

\* Writing the profile and queueing it are one transaction.
Type(name) ==
    /\ Happens
    /\ held[Reader] # None
    /\ held' = [held EXCEPT ![Reader].name = name]
    /\ typed' = [revision |-> events + 1, due |-> TRUE, refused |-> FALSE]
    /\ UNCHANGED <<server, feed, read, run, stray, hidden>>

StartRun(everything) ==
    /\ step = "idle"
    /\ step' = "push" /\ full' = everything
    /\ UNCHANGED <<server, device, call, stray, hidden, events>>

Due == typed # None /\ typed.due /\ ~typed.refused

SendName ==
    /\ step = "push" /\ call = None /\ Due
    /\ call' = [kind |-> "sent", revision |-> typed.revision, name |-> held[Reader].name]
    /\ UNCHANGED <<server, device, step, full, stray, hidden, events>>

Pushed ==
    /\ step = "push" /\ call = None /\ ~Due
    /\ step' = IF full THEN "feed" ELSE "group"
    /\ UNCHANGED <<server, device, full, call, stray, hidden, events>>

ServerTakes ==
    /\ call # None /\ call.kind = "sent"
    /\ IF call.name \in Malformed
       THEN /\ call' = [kind |-> "refused", revision |-> call.revision]
            /\ UNCHANGED <<counter, profile, hidden>>
       ELSE /\ Versioned(Reader, call.name)
            /\ call' = [kind |-> "stored", revision |-> call.revision, version |-> counter + 1]
    /\ UNCHANGED <<index, group, joins, device, step, full, stray, events>>

IsCurrent(revision) == typed # None /\ typed.revision = revision

\* The version of a name that has not been typed over is recorded ...
Record ==
    /\ call # None /\ call.kind = "stored"
    /\ held' = IF IsCurrent(call.revision)
               THEN [held EXCEPT ![Reader].version = call.version] ELSE held
    /\ call' = [kind |-> "recorded", revision |-> call.revision]
    /\ UNCHANGED <<server, typed, feed, read, step, full, stray, hidden, events>>

\* ... and it leaves the outbox, unless it has been typed over by now.
Complete ==
    /\ call # None /\ call.kind = "recorded"
    /\ typed' = IF IsCurrent(call.revision) THEN None ELSE typed
    /\ call' = None
    /\ UNCHANGED <<server, held, feed, read, step, full, stray, hidden, events>>

SetAside ==
    /\ call # None /\ call.kind = "refused"
    /\ typed' = IF IsCurrent(call.revision) THEN [typed EXCEPT !.refused = TRUE] ELSE typed
    /\ call' = None
    /\ UNCHANGED <<server, held, feed, read, step, full, stray, hidden, events>>

\* discardRefused: this copy's version and the feed's cursor are forgotten.
Discard ==
    /\ step = "idle" /\ typed # None /\ typed.refused
    /\ held' = [held EXCEPT ![Reader].version = 0]
    /\ typed' = None /\ feed' = 0
    /\ UNCHANGED <<server, read, run, stray, hidden, events>>

BackOffEnds ==
    /\ typed # None /\ ~typed.due
    /\ typed' = [typed EXCEPT !.due = TRUE]
    /\ UNCHANGED <<server, held, feed, read, run, stray, hidden, events>>

-----------------------------------------------------------------------------
(* A run: the two feeds. *)

\* applyProfiles: its own row is passed over while unsent, and a newer copy
\* already held wins.
Applied(rows) ==
    [p \in Accounts |->
        IF /\ rows[p] # None
           /\ ~(p = Reader /\ typed # None)
           /\ held[p] = None \/ held[p].version < rows[p].version
        THEN rows[p] ELSE held[p]]

Unread == {p \in VisibleToReader : profile[p].version > feed}
Rank(p) == Cardinality({q \in Unread : profile[q].version <= profile[p].version})
OnPage == {p \in Unread : Rank(p) <= PageSize}

PageSeq == IF OnPage = {} THEN feed ELSE Max({profile[p].version : p \in OnPage})

ProfilesAmong(who) == [p \in Accounts |-> IF p \in who THEN profile[p] ELSE None]

AskProfiles ==
    /\ step = "feed" /\ call = None
    /\ call' = [kind |-> "feed", rows |-> ProfilesAmong(OnPage),
                seq |-> PageSeq, hasMore |-> Cardinality(Unread) > PageSize]
    /\ UNCHANGED <<server, device, step, full, stray, hidden, events>>

ApplyProfiles ==
    /\ call # None /\ call.kind = "feed"
    /\ held' = Applied(call.rows) /\ feed' = call.seq
    /\ step' = IF call.hasMore THEN "feed" ELSE "group"
    /\ call' = None
    /\ UNCHANGED <<server, typed, read, full, stray, hidden, events>>

\* The accounts holding a page's current places.
CurrentProfiles == {p \in Accounts : places[p].at = "active" /\ places[p].seq > read}

AskGroup ==
    /\ step = "group" /\ call = None
    /\ call' = [kind |-> "changes", seq |-> seq, who |-> CurrentProfiles]
    /\ UNCHANGED <<server, device, step, full, stray, hidden, events>>

\* Mutant: the profiles the feed has not passed.
Carried_Unread(who) == {p \in who : profile[p].version > feed}

\* Whatever their version: the feed may have passed them long ago.
Carried(who) == who

\* The object has answered; the Worker reads the profiles of its page.
ProfilesOf ==
    /\ call # None /\ call.kind = "changes"
    /\ call' = [kind |-> "group", seq |-> call.seq, rows |-> ProfilesAmong(Carried(call.who))]
    /\ UNCHANGED <<server, device, step, full, stray, hidden, events>>

ApplyGroup ==
    /\ call # None /\ call.kind = "group"
    /\ held' = Applied(call.rows) /\ read' = call.seq
    /\ step' = "idle" /\ call' = None
    /\ UNCHANGED <<server, typed, feed, full, stray, hidden, events>>

\* No answer: a name backs off and the run goes on; a page ends it.  A name on
\* its way may still arrive.
Lost ==
    /\ Happens
    /\ call # None /\ call.kind # "recorded"
    /\ stray' \in IF call.kind = "sent" THEN {stray, call.name} ELSE {stray}
    /\ IF step = "push"
       THEN /\ typed' = IF IsCurrent(call.revision) THEN [typed EXCEPT !.due = FALSE] ELSE typed
            /\ step' = IF full THEN "feed" ELSE "group"
       ELSE step' = "idle" /\ UNCHANGED typed
    /\ call' = None
    /\ UNCHANGED <<server, held, feed, read, full, hidden>>

\* The app is killed.
Crash ==
    /\ Happens
    /\ step # "idle"
    /\ stray' \in IF call # None /\ call.kind = "sent" THEN {stray, call.name} ELSE {stray}
    /\ step' = "idle" /\ call' = None
    /\ UNCHANGED <<server, device, full, hidden>>

StrayLands ==
    /\ stray # None
    /\ stray' = None
    /\ IF stray \in Malformed THEN UNCHANGED <<counter, profile, hidden>>
       ELSE Versioned(Reader, stray)
    /\ UNCHANGED <<index, group, joins, device, run, events>>

-----------------------------------------------------------------------------

\* Accounts are numbered as they were made; the reader has made the group, its
\* membership is on its way, and nobody has a name.
Init ==
    \E made \in [Accounts -> 1..Cardinality(Accounts)] :
        /\ \A p, q \in Accounts : p # q => made[p] # made[q]
        /\ counter = Cardinality(Accounts)
        /\ profile = [p \in Accounts |-> [name |-> None, version |-> made[p]]]
        /\ index = [p \in Accounts |-> "none"]
        /\ seq = 1
        /\ places = [p \in Accounts |-> [at |-> IF p = Reader THEN "active" ELSE "none",
                                         name |-> None, seq |-> IF p = Reader THEN 1 ELSE 0]]
        /\ owed = [p \in Accounts |-> IF p = Reader THEN <<"active">> ELSE <<>>]
        /\ joins = [p \in Accounts |-> None]
        /\ held = [p \in Accounts |-> None] /\ typed = None /\ feed = 0 /\ read = 0
        /\ step = "idle" /\ full = FALSE /\ call = None /\ stray = None
        /\ hidden = {} /\ events = 0

Requests(p) ==
    \/ \E name \in Names \ Malformed : UpdateProfile(p, name) \/ Join(p, name)
    \/ BeginJoin(p) \/ Adopt(p) \/ Leave(p) \/ Deliver(p) \/ Interrupt(p)

RunStep ==
    \/ SendName \/ Pushed \/ ServerTakes \/ Record \/ Complete \/ SetAside
    \/ AskProfiles \/ ApplyProfiles \/ AskGroup \/ ProfilesOf \/ ApplyGroup

Next ==
    \/ \E p \in Accounts : Requests(p)
    \/ \E everything \in BOOLEAN : StartRun(everything)
    \/ RunStep \/ Discard \/ BackOffEnds
    \/ \E name \in Names : Type(name)
    \/ Lost \/ Crash \/ StrayLands

Spec == Init /\ [][Next]_vars

-----------------------------------------------------------------------------
(* Properties. *)

\* Once the device has read the group past somebody's place and the profile
\* feed past their profile, it shows them as they are, although neither feed
\* alone would: the version passes a profile nobody could see yet, and the
\* group does not change when somebody is renamed.  The same for its own row,
\* with nothing unsent, whatever was typed, lost, refused or renamed elsewhere.
\* The one gap: somebody renamed while their membership is on its way to D1.
ShowsAsTheyAre(p) ==
    profile[p].version <= feed => held[p] = profile[p]

NamesArrive ==
    /\ typed = None => ShowsAsTheyAre(Reader)
    /\ \A p \in Accounts \ (hidden \cup {Reader}) :
          places[p].at = "active" /\ places[p].seq <= read => ShowsAsTheyAre(p)

=============================================================================
