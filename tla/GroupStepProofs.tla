--------------------------- MODULE GroupStepProofs ---------------------------
(***************************************************************************)
(* What a step of Group may never do: change a row behind a cursor, change  *)
(* somebody else's name or handle, take a group from a guest who signs in,  *)
(* or end a group in which somebody is owed.  And what every step keeps     *)
(* true: the last movement the activity record holds for a member agrees    *)
(* with the roster, the last snapshot of an expense with the ledger, and    *)
(* those who left stay settled.  Last, that the object implements           *)
(* Participation.                                                           *)
(***************************************************************************)
EXTENDS GroupProofs, WellFoundedInduction

-----------------------------------------------------------------------------
(* Numbers. *)

\* Events that carry a number not yet spent.
Ahead(list) ==
    list \in Seq(EventRow) /\ \A i \in DOMAIN list : list[i].seq > seq

\* An event made with the next number.
LEMMA AheadOne ==
    ASSUME RowsTyped, NEW ev \in EventRow, ev.seq = seq + 1
    PROVE  Ahead(<<>>) /\ Ahead(<<ev>>)
BY DEF Ahead, RowsTyped

\* One event list after another.
LEMMA AheadBoth ==
    ASSUME NEW one, NEW two, Ahead(one), Ahead(two)
    PROVE  Ahead(one \o two)
<1>1. /\ one \in Seq(EventRow) /\ two \in Seq(EventRow)
      /\ \A i \in 1..Len(one) : one[i].seq > seq
      /\ \A i \in 1..Len(two) : two[i].seq > seq
  BY DEF Ahead
<1>2. one \o two \in Seq(EventRow) /\ Len(one \o two) = Len(one) + Len(two)
  BY <1>1
<1>3. ASSUME NEW i \in 1..Len(one \o two) PROVE (one \o two)[i].seq > seq
  <2>1. CASE i <= Len(one)
    BY <1>1, <1>2, <1>3, <2>1
  <2>2. CASE i > Len(one)
    <3>1. (one \o two)[i] = two[i - Len(one)] /\ i - Len(one) \in 1..Len(two)
      BY <1>1, <1>2, <1>3, <2>2
    <3> QED
      BY <1>1, <3>1
  <2> QED
    BY <1>1, <1>2, <1>3, <2>1, <2>2
<1> QED
  BY <1>2, <1>3 DEF Ahead

\* What is appended to the record is new.
LEMMA Appended ==
    ASSUME RowsTyped, NEW tail, Ahead(tail), events' = events \o tail
    PROVE  \A i \in DOMAIN events' \ DOMAIN events : events'[i].seq > seq
<1>1. events \in Seq(EventRow) /\ tail \in Seq(EventRow)
      /\ \A i \in 1..Len(tail) : tail[i].seq > seq
  BY DEF RowsTyped, Ahead
<1>2. /\ Len(events') = Len(events) + Len(tail) /\ events' \in Seq(EventRow)
      /\ \A i \in Len(events) + 1..Len(events) + Len(tail) : events'[i] = tail[i - Len(events)]
  BY <1>1
<1> QED
  BY <1>1, <1>2

\* FeedSeesEveryChange of one step.
RowsAhead ==
    /\ seq <= seq'
    /\ Changed(meta, meta') => meta'.seq > seq
    /\ \A m \in Members : Changed(members[m], members'[m]) => members'[m].seq > seq
    /\ \A e \in Entries : Changed(entries[e], entries'[e]) => entries'[e].seq > seq

EventsAhead == \A i \in DOMAIN events' \ DOMAIN events : events'[i].seq > seq

\* A collected group has nothing left to be sent.
LEMMA PurgeAhead ==
    ASSUME RowsTyped, NEW s \in Nat, s > seq, Purge(s)
    PROVE  RowsAhead /\ EventsAhead
<1>1. RowsAhead
  BY DEF RowsTyped, Purge, RowsAhead, Changed
<1>2. events' = <<>>
  BY DEF Purge
<1> QED
  BY <1>1, <1>2 DEF EventsAhead

\* An arrival is one row and one event.
LEMMA ArriveAhead ==
    ASSUME RowsTyped, NEW p \in Profiles, NEW m \in Members, NEW row \in MemberRow,
           Arrive(p, m, row)
    PROVE  RowsAhead /\ EventsAhead
<1> DEFINE new == [row EXCEPT !.seq = seq + 1]
           ev == Event(seq + 1, "member_joined", m, None)
<1>1. seq \in Nat /\ seq + 1 \in Nat
  BY DEF RowsTyped
<1>2. new.seq = seq + 1
  BY DEF MemberRow
<1>3. members' = [members EXCEPT ![m] = new] /\ seq' = seq + 1 /\ UNCHANGED <<meta, entries>>
  BY DEF Arrive
<1> HIDE DEF new
<1>4. RowsAhead
  BY <1>1, <1>2, <1>3 DEF RowsAhead, Changed, RowsTyped
<1>5. ev \in EventRow /\ ev.seq = seq + 1
  BY <1>1, EventType DEF Event
<1>6. events' = events \o <<ev>>
  BY <1>5 DEF Arrive, Append1, RowsTyped
<1> HIDE DEF ev
<1>7. Ahead(<<ev>>)
  BY <1>5, AheadOne
<1> QED
  BY <1>4, <1>6, <1>7, Appended DEF EventsAhead

\* A forgotten place is one stamped row; a collected group is nothing.
LEMMA ForgetAhead ==
    ASSUME RowsTyped, Live, NEW roster \in [Members -> MemberRow \cup {None}], NEW s \in Nat, s > seq,
           NEW p \in Profiles, NEW name \in Labels \cup {None}, Forget(roster, s, p, name),
           \A m \in Members : roster[m] = members[m] \/ roster[m].seq > seq
    PROVE  RowsAhead /\ (Live' \/ EventsAhead)
<1>1. CASE ActiveIn(roster) \ Places(roster, p) = {}
  BY <1>1, PurgeAhead DEF Forget
<1>2. CASE ActiveIn(roster) \ Places(roster, p) # {}
  <2>1. /\ seq' = s /\ UNCHANGED <<meta, entries>>
        /\ members' = [m \in Members |->
                          IF m \in Places(roster, p)
                          THEN [roster[m] EXCEPT !.profile = None, !.seq = s,
                                   !.name = IF name = None THEN @ ELSE name]
                          ELSE roster[m]]
    BY <1>2 DEF Forget
  <2>2. Places(roster, p) \subseteq {m \in Members : roster[m] \in MemberRow}
    BY DEF Places
  <2>3. \A m \in Places(roster, p) : members'[m].seq = s
    <3>1. ASSUME NEW m \in Places(roster, p) PROVE members'[m].seq = s
      <4>1. /\ m \in Members /\ roster[m] \in MemberRow
            /\ members'[m] = [roster[m] EXCEPT !.profile = None, !.seq = s,
                                   !.name = IF name = None THEN @ ELSE name]
        BY <2>1, <2>2
      <4> QED
        BY <4>1 DEF MemberRow
    <3> QED
      BY <3>1
  <2>4. \A m \in Members \ Places(roster, p) : members'[m] = roster[m]
    BY <2>1
  <2>5. RowsAhead
    <3>1. seq \in Nat /\ seq' = s /\ meta' = meta /\ entries' = entries
      BY <2>1 DEF RowsTyped
    <3>2. ASSUME NEW m \in Members, Changed(members[m], members'[m])
          PROVE  members'[m].seq > seq
      BY <2>3, <2>4, <3>2 DEF Changed
    <3> QED
      BY <3>1, <3>2 DEF RowsAhead, Changed
  <2> QED
    BY <2>1, <2>5 DEF Live
<1> QED
  BY <1>1, <1>2

\* Every handler stamps what it changes with a number it has just spent.
LEMMA FeedStep == RowsTyped /\ [Next]_vars => RowsAhead /\ EventsAhead
<1> SUFFICES ASSUME RowsTyped, [Next]_vars
             PROVE  RowsAhead /\ EventsAhead
  OBVIOUS
<1>0. seq \in Nat /\ seq + 1 \in Nat /\ seq + 2 \in Nat
  BY DEF RowsTyped
<1>e. UNCHANGED events => EventsAhead
  BY DEF EventsAhead
\* One event, or none, made by a member with the next number.
<1>a. ASSUME NEW p \in Profiles, NEW actor \in SeatOf(p)
      PROVE  actor \in Members
  BY DEF SeatOf, PlaceOf, Places
<1>b. ASSUME NEW tail, Ahead(tail), events' = events \o tail
      PROVE  EventsAhead
  BY <1>b, Appended DEF EventsAhead
<1>c. ASSUME NEW ev \in EventRow, ev.seq = seq + 1, Append1(ev)
      PROVE  EventsAhead
  <2>1. events' = events \o <<ev>>
    BY <1>c DEF Append1, RowsTyped
  <2>2. Ahead(<<ev>>)
    BY <1>c, AheadOne
  <2> QED
    BY <1>b, <2>1, <2>2
<1>1. ASSUME NEW p \in Profiles, NEW m \in Members, NEW name \in Labels, NEW look \in Looks,
             CreateGroup(p, m, name, look)
      PROVE  RowsAhead /\ EventsAhead
  BY <1>0, <1>e, <1>1 DEF CreateGroup, RowsAhead, Changed, RowsTyped
<1>2. ASSUME NEW p \in Profiles, NEW m \in Members, NEW name \in Labels,
             NEW handle \in Labels \cup {None}, AddMember(p, m, name, handle)
      PROVE  RowsAhead /\ EventsAhead
  <2>1. PICK actor \in SeatOf(p) : Append1(Event(seq + 1, "member_added", m, actor))
    BY <1>2 DEF AddMember
  <2>2. Event(seq + 1, "member_added", m, actor) \in EventRow
        /\ Event(seq + 1, "member_added", m, actor).seq = seq + 1
    BY <1>0, <1>a, EventType DEF Event
  <2>3. EventsAhead
    BY <1>c, <2>1, <2>2
  <2> QED
    BY <1>0, <1>2, <2>3 DEF AddMember, RowsAhead, Changed, RowsTyped
<1>3. ASSUME NEW p \in Profiles, NEW m \in Members, NEW name \in Labels,
             NEW handle \in Labels \cup {None}, NEW left \in BOOLEAN, NEW base \in Bases,
             UpdateMember(p, m, name, handle, left, base)
      PROVE  RowsAhead /\ EventsAhead
  <2> DEFINE old == members[m]
             new == [old EXCEPT !.name = name, !.handle = handle,
                                !.left = left, !.seq = seq + 1]
             ev(kind, actor) == Event(seq + 1, kind, m, actor)
  <2>1. old \in MemberRow
    BY <1>3 DEF UpdateMember, RowsTyped
  <2>2. new.seq = seq + 1
    BY <2>1 DEF MemberRow
  <2>3. PICK actor \in SeatOf(p) :
          \/ Purge(seq + 2)
          \/ /\ seq' = seq + 1
             /\ members' = [members EXCEPT ![m] = new]
             /\ events' = events \o MemberEvents(seq + 1, m, actor, old, new)
             /\ UNCHANGED <<meta, tombstone, entries, doors, stagedPurge>>
    BY <1>3 DEF UpdateMember
  <2>4. CASE Purge(seq + 2)
    BY <1>0, <2>4, PurgeAhead
  <2>5. CASE /\ seq' = seq + 1
             /\ members' = [members EXCEPT ![m] = new]
             /\ events' = events \o MemberEvents(seq + 1, m, actor, old, new)
             /\ UNCHANGED <<meta, tombstone, entries, doors, stagedPurge>>
    <3>1. actor \in Members
      BY <1>a
    <3>2. \A kind \in {"member_left", "member_added", "member_renamed"} :
             Ahead(<<>>) /\ Ahead(<<ev(kind, actor)>>)
      <4>1. ASSUME NEW kind \in {"member_left", "member_added", "member_renamed"}
            PROVE  ev(kind, actor) \in EventRow /\ ev(kind, actor).seq = seq + 1
        BY <1>0, <3>1, EventType DEF Event
      <4> QED
        BY <4>1, AheadOne
    <3>3. Ahead(MemberEvents(seq + 1, m, actor, old, new))
      <4> DEFINE one == IF new.left /\ ~old.left THEN <<ev("member_left", actor)>> ELSE <<>>
                 two == IF old.left /\ ~new.left THEN <<ev("member_added", actor)>> ELSE <<>>
                 three == IF new.name # old.name THEN <<ev("member_renamed", actor)>> ELSE <<>>
      <4>1. Ahead(one) /\ Ahead(two) /\ Ahead(three)
        BY <3>2
      <4>2. MemberEvents(seq + 1, m, actor, old, new) = (one \o two) \o three
        BY DEF MemberEvents
      <4> HIDE DEF one, two, three
      <4> QED
        BY <4>1, <4>2, AheadBoth
    <3>4. EventsAhead
      BY <1>b, <2>5, <3>3
    <3> HIDE DEF new
    <3> QED
      BY <1>0, <2>2, <2>5, <3>4 DEF RowsAhead, Changed, RowsTyped
  <2> QED
    BY <2>3, <2>4, <2>5
<1>4. ASSUME NEW p \in Profiles, NEW name \in Labels, NEW look \in Looks, NEW base \in Bases,
             UpdateGroup(p, name, look, base)
      PROVE  RowsAhead /\ EventsAhead
  <2>1. PICK actor \in SeatOf(p) :
          events' = IF name = meta.name THEN events
                    ELSE Append(events, Event(seq + 1, "group_renamed", None, actor))
    BY <1>4 DEF UpdateGroup
  <2>2. Event(seq + 1, "group_renamed", None, actor) \in EventRow
        /\ Event(seq + 1, "group_renamed", None, actor).seq = seq + 1
    BY <1>0, <1>a, EventType DEF Event
  <2>3. EventsAhead
    BY <1>c, <1>e, <2>1, <2>2 DEF Append1
  <2> QED
    BY <1>0, <1>4, <2>3 DEF UpdateGroup, RowsAhead, Changed
<1>5. ASSUME NEW p \in Profiles, NEW name \in Labels \cup {None}, ForgetProfile(p, name)
      PROVE  RowsAhead /\ EventsAhead
  <2>1. Live /\ Forget(members, seq + 1, p, name) /\ (Live' => UNCHANGED events)
    BY <1>5 DEF ForgetProfile
  <2>2. members \in [Members -> MemberRow \cup {None}]
    BY DEF RowsTyped
  <2> QED
    BY <1>0, <1>e, <2>1, <2>2, ForgetAhead
<1>6. ASSUME NEW p \in Profiles, NEW heir \in Profiles, HandOverPlace(p, heir)
      PROVE  RowsAhead /\ EventsAhead
  <2>1. PICK m \in PlaceOf(p) :
          members' = [members EXCEPT ![m].profile = heir, ![m].seq = seq + 1]
    BY <1>6 DEF HandOverPlace
  <2>2. m \in Members /\ members[m] \in MemberRow
    BY DEF PlaceOf, Places, RowsTyped
  <2>3. members'[m].seq = seq + 1 /\ \A n \in Members \ {m} : members'[n] = members[n]
    BY <2>1, <2>2 DEF MemberRow, RowsTyped
  <2> QED
    <3>1. seq' = seq + 1 /\ UNCHANGED <<meta, entries, events>>
      BY <1>6 DEF HandOverPlace
    <3> QED
      BY <1>0, <1>e, <2>3, <3>1 DEF RowsAhead, Changed
<1>7. ASSUME NEW p \in Profiles, NEW heir \in Profiles, HandOverBeside(p, heir)
      PROVE  RowsAhead /\ EventsAhead
  <2>1. PICK g \in PlaceOf(p), h \in PlaceOf(heir) :
         IF members[h].left /\ ~members[g].left
         THEN /\ Forget([members EXCEPT ![h].left = FALSE, ![h].seq = seq + 1],
                        seq + 2, p, None)
              /\ Live' => Append1(Event(seq + 1, "member_joined", h, None))
         ELSE /\ Forget(members, seq + 1, p, None)
              /\ Live' => UNCHANGED events
    BY <1>7 DEF HandOverBeside
  <2>2. h \in Members /\ members[h] \in MemberRow /\ Live
    BY <1>7 DEF PlaceOf, Places, RowsTyped, HandOverBeside
  <2>3. CASE members[h].left /\ ~members[g].left
    <3> DEFINE roster == [members EXCEPT ![h].left = FALSE, ![h].seq = seq + 1]
               ev == Event(seq + 1, "member_joined", h, None)
    <3>1. roster \in [Members -> MemberRow \cup {None}]
      BY <1>0, <2>2 DEF RowsTyped, MemberRow
    <3>2. \A n \in Members : roster[n] = members[n] \/ roster[n].seq > seq
      BY <1>0, <2>2 DEF RowsTyped, MemberRow
    <3>3. Forget(roster, seq + 2, p, None) /\ (Live' => Append1(ev))
      BY <2>1, <2>3
    <3>4. ev \in EventRow /\ ev.seq = seq + 1
      BY <1>0, <2>2, EventType DEF Event
    <3> HIDE DEF roster, ev
    <3>5. Live' => EventsAhead
      BY <1>c, <3>3, <3>4
    <3>6. seq + 2 > seq /\ None \in Labels \cup {None}
      BY <1>0
    <3> QED
      BY <1>0, <2>2, <3>1, <3>2, <3>3, <3>5, <3>6, ForgetAhead
  <2>4. CASE ~(members[h].left /\ ~members[g].left)
    <3>1. Forget(members, seq + 1, p, None) /\ (Live' => UNCHANGED events)
      BY <2>1, <2>4
    <3>2. members \in [Members -> MemberRow \cup {None}] /\ seq + 1 > seq
          /\ None \in Labels \cup {None}
      BY <1>0 DEF RowsTyped
    <3> QED
      BY <1>0, <1>e, <2>2, <3>1, <3>2, ForgetAhead
  <2> QED
    BY <2>3, <2>4
<1>8. ASSUME NEW p \in Profiles, NEW m \in Members, NEW t \in Tokens, CreateInvite(p, m, t)
      PROVE  RowsAhead /\ EventsAhead
  BY <1>0, <1>8, <1>e DEF CreateInvite, RowsAhead, Changed
<1>9. ASSUME NEW p \in Profiles, NEW t \in Tokens, CreateGroupLink(p, t)
      PROVE  RowsAhead /\ EventsAhead
  <2> DEFINE off(actor) == Event(seq + 1, "link_revoked", groupLink.token, actor)
             on(actor) == Event(seq + 1, "link_created", t, actor)
             one(actor) == IF groupLink # None /\ ~groupLink.revoked THEN <<off(actor)>> ELSE <<>>
  <2>1. PICK actor \in SeatOf(p) : events' = events \o one(actor) \o <<on(actor)>>
    BY <1>9 DEF CreateGroupLink
  <2>2. actor \in Members
    BY <1>a
  <2>3. on(actor) \in EventRow /\ on(actor).seq = seq + 1
    BY <1>0, <2>2, EventType DEF Event
  <2>4. groupLink # None => off(actor) \in EventRow /\ off(actor).seq = seq + 1
    BY <1>0, <2>2, EventType DEF RowsTyped, LinkRow, Event
  <2>5. Ahead(<<>>) /\ Ahead(<<on(actor)>>) /\ (groupLink # None => Ahead(<<off(actor)>>))
    <3> HIDE DEF on, off
    <3> QED
      BY <2>3, <2>4, AheadOne
  <2>6. Ahead(one(actor))
    <3> HIDE DEF off
    <3> QED
      BY <2>5
  <2>7. events' = events \o (one(actor) \o <<on(actor)>>)
    <3>1. events \in Seq(EventRow) /\ one(actor) \in Seq(EventRow) /\ <<on(actor)>> \in Seq(EventRow)
      BY <2>3, <2>6 DEF RowsTyped, Ahead
    <3> HIDE DEF one, on
    <3> QED
      BY <2>1, <3>1
  <2>8. EventsAhead
    <3> HIDE DEF one, on
    <3> QED
      BY <1>b, <2>5, <2>6, <2>7, AheadBoth
  <2> QED
    BY <1>0, <1>9, <2>8 DEF CreateGroupLink, RowsAhead, Changed
<1>10. ASSUME NEW p \in Profiles, RevokeGroupLink(p)
       PROVE  RowsAhead /\ EventsAhead
  <2>1. PICK actor \in SeatOf(p) : Append1(Event(seq + 1, "link_revoked", groupLink.token, actor))
    BY <1>10 DEF RevokeGroupLink
  <2>2. Event(seq + 1, "link_revoked", groupLink.token, actor) \in EventRow
        /\ Event(seq + 1, "link_revoked", groupLink.token, actor).seq = seq + 1
    BY <1>0, <1>10, <1>a, EventType DEF Event, RevokeGroupLink, RowsTyped, LinkRow
  <2>3. EventsAhead
    BY <1>c, <2>1, <2>2
  <2> QED
    BY <1>0, <1>10, <2>3 DEF RevokeGroupLink, RowsAhead, Changed
<1>11. ASSUME NEW t \in Tokens, Expire(t)
       PROVE  RowsAhead /\ EventsAhead
  BY <1>0, <1>11, <1>e DEF Expire, RowsAhead, Changed
<1>12. ASSUME NEW p \in Profiles, NEW t \in Tokens, RedeemInvite(p, t)
       PROVE  RowsAhead /\ EventsAhead
  <2> DEFINE m == invites[t].member
             row == [members[m] EXCEPT !.profile = p]
  <2>1. m \in Members /\ row \in MemberRow /\ Arrive(p, m, row)
    BY <1>12 DEF RedeemInvite, InviteOpen, Claimable, RowsTyped, InviteRow, MemberRow
  <2> HIDE DEF m, row
  <2> QED
    BY <2>1, ArriveAhead
<1>13. ASSUME NEW p \in Profiles, NEW t \in Tokens, Rejoin(p, t)
       PROVE  RowsAhead /\ EventsAhead
  <2>1. PICK m \in PlaceOf(p) : Arrive(p, m, [members[m] EXCEPT !.left = FALSE])
    BY <1>13 DEF Rejoin
  <2>2. m \in Members /\ [members[m] EXCEPT !.left = FALSE] \in MemberRow
    BY DEF PlaceOf, Places, RowsTyped, MemberRow
  <2> QED
    BY <2>1, <2>2, ArriveAhead
<1>14. ASSUME NEW p \in Profiles, NEW t \in Tokens, NEW m \in Members, ClaimPlaceholder(p, t, m)
       PROVE  RowsAhead /\ EventsAhead
  <2>1. [members[m] EXCEPT !.profile = p] \in MemberRow
    BY <1>14 DEF ClaimPlaceholder, Claimable, RowsTyped, MemberRow
  <2> QED
    BY <1>14, <2>1, ArriveAhead DEF ClaimPlaceholder
<1>15. ASSUME NEW p \in Profiles, NEW t \in Tokens, NEW m \in Members, NEW name \in Labels,
              JoinAsNew(p, t, m, name)
       PROVE  RowsAhead /\ EventsAhead
  <2>1. [profile |-> p, name |-> name, handle |-> None, left |-> FALSE, seq |-> 0] \in MemberRow
    BY DEF MemberRow
  <2> QED
    BY <1>15, <2>1, ArriveAhead DEF JoinAsNew
<1>16. ASSUME NEW p \in Profiles, NEW e \in Entries, NEW in \in EntryInputs, NEW base \in Bases,
              PutEntry(p, e, in, base)
       PROVE  RowsAhead /\ EventsAhead
  <2>1. PICK actor \in SeatOf(p) : events' = events \o SnapshotEvents(seq + 1, e, in, actor)
    BY <1>16 DEF PutEntry
  <2> DEFINE ev == [Event(seq + 1, "entry", e, actor) EXCEPT !.entry = in]
  <2>2. ev \in EventRow /\ ev.seq = seq + 1
    BY <1>0, <1>a DEF Event, EventRow
  <2>3. SnapshotEvents(seq + 1, e, in, actor) \in {<<>>, <<ev>>}
    BY DEF SnapshotEvents
  <2> HIDE DEF ev
  <2>4. EventsAhead
    BY <1>b, <2>1, <2>2, <2>3, AheadOne
  <2> QED
    BY <1>0, <1>16, <2>4 DEF PutEntry, RowsAhead, Changed, RowsTyped
<1>17. CASE UNCHANGED vars
  BY <1>0, <1>17, <1>e DEF vars, tables, RowsAhead, Changed
<1> QED
  BY <1>1, <1>2, <1>3, <1>4, <1>5, <1>6, <1>7, <1>8, <1>9, <1>10, <1>11, <1>12, <1>13,
     <1>14, <1>15, <1>16, <1>17
     DEF Next, EditNext, RosterNext, GroupNext, AccountNext, DoorsNext, RevokeNext, LedgerNext

\* Every change takes a number past every cursor a device could hold.
THEOREM FeedSees == Spec => FeedSeesEveryChange
<1>1. RowsTyped /\ [Next]_vars =>
        /\ seq <= seq'
        /\ Changed(meta, meta') => meta'.seq > seq
        /\ \A m \in Members : Changed(members[m], members'[m]) => members'[m].seq > seq
        /\ \A e \in Entries : Changed(entries[e], entries'[e]) => entries'[e].seq > seq
        /\ \A i \in DOMAIN events' \ DOMAIN events : events'[i].seq > seq
  BY FeedStep DEF RowsAhead, EventsAhead
<1> QED
  BY <1>1, RowsCorrect, PTL DEF Spec, FeedSeesEveryChange

-----------------------------------------------------------------------------
(* Who may change a name or a handle. *)

\* A row that keeps its name and handle.
KeepsDetails(old, new) == new.name = old.name /\ new.handle = old.handle

\* What a step owes a place nobody edits: it keeps its details, but for the name
\* an account that ends leaves behind.
Untouched(m) ==
    \/ members[m] = None \/ members'[m] = None
    \/ KeepsDetails(members[m], members'[m])
    \/ /\ members'[m].handle = members[m].handle
       /\ members[m].profile # None /\ members'[m].profile = None

\* Whoever edits may: the place is their own, or a placeholder.
Entitled(m) == editor' # None /\ members[m].profile \in {None, editor'}

\* An arrival is at a place nobody holds, or at one's own, under its old name.
LEMMA ArriveUntouched ==
    ASSUME RowsTyped, NEW p \in Profiles, NEW m \in Members, NEW row \in MemberRow, Arrive(p, m, row),
           members[m] = None \/ KeepsDetails(members[m], row)
    PROVE  \A n \in Members : Untouched(n)
<1> DEFINE new == [row EXCEPT !.seq = seq + 1]
<1>1. new.name = row.name /\ new.handle = row.handle
  BY DEF MemberRow
<1>2. members' = [members EXCEPT ![m] = new]
  BY DEF Arrive
<1> HIDE DEF new
<1> QED
  BY <1>1, <1>2 DEF Untouched, KeepsDetails, RowsTyped

\* A roster with the details, and the accounts, of the one stored.
SameDetails(roster) ==
    \A m \in Members :
        \/ roster[m] = members[m]
        \/ /\ members[m] # None
           /\ KeepsDetails(members[m], roster[m])
           /\ roster[m].profile = members[m].profile

\* Forgetting renames only the place that is nobody's from then on.
LEMMA ForgetUntouched ==
    ASSUME RowsTyped, NEW roster \in [Members -> MemberRow \cup {None}], NEW s \in Nat,
           NEW p \in Profiles, NEW name \in Labels \cup {None}, Forget(roster, s, p, name),
           SameDetails(roster)
    PROVE  \A m \in Members : Untouched(m)
<1>1. CASE ActiveIn(roster) \ Places(roster, p) = {}
  BY <1>1 DEF Forget, Purge, Untouched
<1>2. CASE ActiveIn(roster) \ Places(roster, p) # {}
  <2>1. members' = [m \in Members |->
                      IF m \in Places(roster, p)
                      THEN [roster[m] EXCEPT !.profile = None, !.seq = s,
                               !.name = IF name = None THEN @ ELSE name]
                      ELSE roster[m]]
    BY <1>2 DEF Forget
  <2>2. ASSUME NEW m \in Places(roster, p) PROVE Untouched(m)
    <3>1. roster[m] \in MemberRow
      BY DEF Places
    <3>2. /\ members'[m].profile = None /\ members'[m].handle = roster[m].handle
          /\ roster[m].profile = p
      BY <2>1, <3>1 DEF MemberRow, Places
    <3>3. members[m].profile = p /\ members[m].handle = roster[m].handle
      BY <3>1, <3>2 DEF SameDetails, KeepsDetails, Places
    <3>4. p # None
      BY IdsAssumption
    <3> QED
      BY <3>2, <3>3, <3>4 DEF Untouched
  <2>3. ASSUME NEW m \in Members \ Places(roster, p) PROVE Untouched(m)
    <3>1. members'[m] = roster[m]
      BY <2>1
    <3> QED
      BY <3>1 DEF Untouched, SameDetails, KeepsDetails
  <2> QED
    BY <2>2, <2>3
<1> QED
  BY <1>1, <1>2

\* Every handler but putMember leaves names and handles to their owners, and
\* putMember is asked by whoever is entitled to change them.
LEMMA DetailsStep ==
    ASSUME RowsTyped, Safe, [Next]_vars, NEW m \in Members
    PROVE  Untouched(m) \/ Entitled(m)
<1>0. seq + 1 \in Nat /\ seq + 2 \in Nat
  BY DEF RowsTyped
<1>e. UNCHANGED members => Untouched(m)
  BY DEF Untouched, KeepsDetails
<1>1. ASSUME NEW p \in Profiles, NEW n \in Members, NEW name \in Labels, NEW look \in Looks,
             CreateGroup(p, n, name, look)
      PROVE  Untouched(m)
  BY <1>1 DEF CreateGroup, Creatable, Safe, LiveXorGone, Untouched
<1>2. ASSUME NEW p \in Profiles, NEW n \in Members, NEW name \in Labels,
             NEW handle \in Labels \cup {None}, AddMember(p, n, name, handle)
      PROVE  Untouched(m)
  BY <1>2 DEF AddMember, Untouched, KeepsDetails, RowsTyped
<1>3. ASSUME NEW p \in Profiles, NEW n \in Members, NEW name \in Labels,
             NEW handle \in Labels \cup {None}, NEW left \in BOOLEAN, NEW base \in Bases,
             UpdateMember(p, n, name, handle, left, base), editor' = p, ~Untouched(m)
      PROVE  Entitled(m)
  <2> DEFINE old == members[n]
             new == [old EXCEPT !.name = name, !.handle = handle,
                                !.left = left, !.seq = seq + 1]
             edited == name # old.name \/ handle # old.handle
  <2>1. old \in MemberRow
    BY <1>3 DEF UpdateMember, RowsTyped
  <2>2. new.name = name /\ new.handle = handle /\ new.left = left /\ new.profile = old.profile
    BY <2>1 DEF MemberRow
  <2>3. PICK actor \in SeatOf(p) :
          /\ edited => MayEdit(actor, n)
          /\ Purge(seq + 2) \/ members' = [members EXCEPT ![n] = new]
    BY <1>3 DEF UpdateMember
  <2>4. members' = [members EXCEPT ![n] = new]
    BY <1>3, <2>3 DEF Purge, Untouched
  <2> HIDE DEF new
  <2>5. m = n
    BY <1>3, <2>4 DEF Untouched, KeepsDetails, RowsTyped
  <2>6. members'[m] = new
    BY <2>4, <2>5 DEF RowsTyped
  <2>7. edited
    BY <1>3, <2>2, <2>5, <2>6 DEF Untouched, KeepsDetails
  <2>8. old.profile \in {None, p}
    BY <2>3, <2>7 DEF MayEdit, SeatOf, PlaceOf, Places
  <2> QED
    BY <1>3, <2>5, <2>8, IdsAssumption DEF Entitled
<1>4. ASSUME NEW p \in Profiles, NEW name \in Labels \cup {None}, ForgetProfile(p, name)
      PROVE  Untouched(m)
  <2>1. members \in [Members -> MemberRow \cup {None}] /\ Forget(members, seq + 1, p, name)
    BY <1>4 DEF ForgetProfile, RowsTyped
  <2>2. SameDetails(members)
    BY DEF SameDetails
  <2> QED
    BY <1>0, <2>1, <2>2, ForgetUntouched
<1>5. ASSUME NEW p \in Profiles, NEW heir \in Profiles, HandOverPlace(p, heir)
      PROVE  Untouched(m)
  <2>1. PICK n \in PlaceOf(p) :
          members' = [members EXCEPT ![n].profile = heir, ![n].seq = seq + 1]
    BY <1>5 DEF HandOverPlace
  <2>2. n \in Members /\ members[n] \in MemberRow
    BY DEF PlaceOf, Places, RowsTyped
  <2>3. KeepsDetails(members[n], members'[n]) /\ \A o \in Members \ {n} : members'[o] = members[o]
    BY <2>1, <2>2 DEF KeepsDetails, MemberRow, RowsTyped
  <2> QED
    BY <2>3 DEF Untouched, KeepsDetails
<1>6. ASSUME NEW p \in Profiles, NEW heir \in Profiles, HandOverBeside(p, heir)
      PROVE  Untouched(m)
  <2>1. PICK g \in PlaceOf(p), h \in PlaceOf(heir) :
         IF members[h].left /\ ~members[g].left
         THEN Forget([members EXCEPT ![h].left = FALSE, ![h].seq = seq + 1], seq + 2, p, None)
         ELSE Forget(members, seq + 1, p, None)
    BY <1>6 DEF HandOverBeside
  <2>2. h \in Members /\ members[h] \in MemberRow
    BY DEF PlaceOf, Places, RowsTyped
  <2> DEFINE roster == [members EXCEPT ![h].left = FALSE, ![h].seq = seq + 1]
  <2>3. /\ roster \in [Members -> MemberRow \cup {None}]
        /\ members \in [Members -> MemberRow \cup {None}]
        /\ None \in Labels \cup {None}
    BY <1>0, <2>2 DEF RowsTyped, MemberRow
  <2>4. SameDetails(roster) /\ SameDetails(members)
    BY <2>2, NullAssumption DEF SameDetails, KeepsDetails, MemberRow, RowsTyped
  <2> HIDE DEF roster
  <2>5. Forget(roster, seq + 2, p, None) \/ Forget(members, seq + 1, p, None)
    BY <2>1 DEF roster
  <2> QED
    BY <1>0, <2>3, <2>4, <2>5, ForgetUntouched
<1>7. ASSUME NEW p \in Profiles, NEW t \in Tokens, RedeemInvite(p, t)
      PROVE  Untouched(m)
  <2> DEFINE n == invites[t].member
             row == [members[n] EXCEPT !.profile = p]
  <2>1. n \in Members /\ row \in MemberRow /\ Arrive(p, n, row) /\ KeepsDetails(members[n], row)
    BY <1>7 DEF RedeemInvite, InviteOpen, Claimable, RowsTyped, InviteRow, MemberRow, KeepsDetails
  <2> HIDE DEF n, row
  <2> QED
    BY <2>1, ArriveUntouched
<1>8. ASSUME NEW p \in Profiles, NEW t \in Tokens, Rejoin(p, t)
      PROVE  Untouched(m)
  <2>1. PICK n \in PlaceOf(p) : Arrive(p, n, [members[n] EXCEPT !.left = FALSE])
    BY <1>8 DEF Rejoin
  <2>2. /\ n \in Members /\ [members[n] EXCEPT !.left = FALSE] \in MemberRow
        /\ KeepsDetails(members[n], [members[n] EXCEPT !.left = FALSE])
    BY DEF PlaceOf, Places, RowsTyped, MemberRow, KeepsDetails
  <2> QED
    BY <2>1, <2>2, ArriveUntouched
<1>9. ASSUME NEW p \in Profiles, NEW t \in Tokens, NEW n \in Members, ClaimPlaceholder(p, t, n)
      PROVE  Untouched(m)
  <2>1. /\ [members[n] EXCEPT !.profile = p] \in MemberRow
        /\ KeepsDetails(members[n], [members[n] EXCEPT !.profile = p])
    BY <1>9, SMTT(30) DEF ClaimPlaceholder, Claimable, RowsTyped, MemberRow, KeepsDetails
  <2> QED
    BY <1>9, <2>1, ArriveUntouched DEF ClaimPlaceholder
<1>10. ASSUME NEW p \in Profiles, NEW t \in Tokens, NEW n \in Members, NEW name \in Labels,
              JoinAsNew(p, t, n, name)
       PROVE  Untouched(m)
  <2>1. [profile |-> p, name |-> name, handle |-> None, left |-> FALSE, seq |-> 0] \in MemberRow
    BY DEF MemberRow
  <2> QED
    BY <1>10, <2>1, ArriveUntouched DEF JoinAsNew
<1>11. CASE GroupNext \/ RevokeNext \/ LedgerNext \/ UNCHANGED vars
  BY <1>11, <1>e DEF GroupNext, UpdateGroup, RevokeNext, RevokeGroupLink, LedgerNext, PutEntry,
     vars, tables
<1>12. RosterNext => Untouched(m)
  BY <1>1, <1>2 DEF RosterNext
<1>15. EditNext => Untouched(m) \/ Entitled(m)
  BY <1>3 DEF EditNext
<1>13. AccountNext => Untouched(m)
  BY <1>4, <1>5, <1>6 DEF AccountNext
<1>14. DoorsNext => Untouched(m)
  BY <1>e, <1>7, <1>8, <1>9, <1>10 DEF DoorsNext, Expire, CreateGroupLink, CreateInvite
<1> QED
  BY <1>11, <1>12, <1>13, <1>14, <1>15 DEF Next

\* A place an account holds is renamed, or its money sent elsewhere, at that
\* account's request only, but for the name an ended account leaves behind.
THEOREM DetailsHold == Spec => DetailsAreTheirOwn
<1>1. RowsTyped /\ Safe /\ [Next]_vars =>
        \A m \in Members :
          LET old == members[m]
              new == members'[m]
          IN  old # None /\ new # None =>
              /\ new.handle # old.handle =>
                    editor' # None /\ old.profile \in {None, editor'}
              /\ new.name # old.name =>
                    \/ editor' # None /\ old.profile \in {None, editor'}
                    \/ old.profile # None /\ new.profile = None
  BY DetailsStep DEF Untouched, Entitled, KeepsDetails
<1> QED
  BY <1>1, RowsCorrect, SafeInvariant, PTL DEF Spec, DetailsAreTheirOwn

-----------------------------------------------------------------------------
(* Signing in, and the end of a group. *)

\* With one place per account, a guest who can open the group is at the place
\* found for them, and giving that place up leaves somebody else's.
LEMMA OnlyPlace ==
    ASSUME Safe, NEW p \in Profiles, NEW m \in PlaceOf(p)
    PROVE  PlaceOf(p) = {m} /\ m \in Members /\ members[m] # None /\ members[m].profile = p
BY IdsAssumption DEF Safe, OnePlacePerAccount, PlaceOf, Places

\* A hand-over never collects the group: the heir is in it, or somebody else is.
LEMMA BesideGoesOn ==
    ASSUME RowsTyped, Safe, NEW guest \in Profiles, NEW heir \in Profiles,
           HandOverBeside(guest, heir)
    PROVE  Live' /\ (SeatOf(guest) # {} => SeatOf(heir)' # {})
<1>0. Live /\ guest # heir /\ guest # None /\ heir # None /\ seq + 1 \in Nat
  BY IdsAssumption DEF HandOverBeside, RowsTyped
<1>1. PICK g \in PlaceOf(guest), h \in PlaceOf(heir) :
         IF members[h].left /\ ~members[g].left
         THEN Forget([members EXCEPT ![h].left = FALSE, ![h].seq = seq + 1], seq + 2, guest, None)
         ELSE Forget(members, seq + 1, guest, None)
  BY DEF HandOverBeside
<1>2. /\ PlaceOf(guest) = {g} /\ g \in Members /\ members[g] # None /\ members[g].profile = guest
      /\ PlaceOf(heir) = {h} /\ h \in Members /\ members[h] # None /\ members[h].profile = heir
      /\ g # h /\ members[h] \in MemberRow /\ members[g] \in MemberRow
  <2>1. /\ PlaceOf(guest) = {g} /\ g \in Members /\ members[g] # None /\ members[g].profile = guest
        /\ PlaceOf(heir) = {h} /\ h \in Members /\ members[h] # None /\ members[h].profile = heir
    BY OnlyPlace
  <2> QED
    BY <1>0, <2>1 DEF RowsTyped
\* What becomes of the roster the hand-over leaves.
<1>3. ASSUME NEW roster \in [Members -> MemberRow \cup {None}], NEW s,
             Forget(roster, s, guest, None),
             NEW n \in ActiveIn(roster), roster[n].profile # guest
      PROVE  /\ Live' /\ n \in Members /\ members'[n] = roster[n]
  <2>1. n \in ActiveIn(roster) \ Places(roster, guest) /\ n \in Members
    BY <1>3 DEF ActiveIn, Places
  <2>2. ActiveIn(roster) \ Places(roster, guest) # {}
    BY <2>1
  <2>3. UNCHANGED meta /\ members' = [m \in Members |->
                          IF m \in Places(roster, guest)
                          THEN [roster[m] EXCEPT !.profile = None, !.seq = s,
                                   !.name = IF None = None THEN @ ELSE None]
                          ELSE roster[m]]
    BY <1>3, <2>2 DEF Forget
  <2> QED
    BY <1>0, <2>1, <2>3 DEF Live
<1>4. CASE members[h].left /\ ~members[g].left
  <2> DEFINE row == [members[h] EXCEPT !.left = FALSE, !.seq = seq + 1]
             roster == [members EXCEPT ![h] = row]
  <2>1. row \in MemberRow /\ row.profile = heir /\ ~row.left /\ row # None
    BY <1>0, <1>2, NullAssumption DEF MemberRow
  <2>2. [members EXCEPT ![h].left = FALSE, ![h].seq = seq + 1] = roster
    BY <1>2 DEF MemberRow, RowsTyped
  <2> HIDE DEF row
  <2>3. /\ roster \in [Members -> MemberRow \cup {None}] /\ roster[h] = row
        /\ h \in ActiveIn(roster)
    BY <1>0, <1>2, <2>1 DEF RowsTyped, ActiveIn
  <2>4. Forget(roster, seq + 2, guest, None)
    BY <1>1, <1>4, <2>2
  <2> HIDE DEF roster
  <2>5. Live' /\ members'[h] = row
    BY <1>0, <1>3, <2>1, <2>3, <2>4
  <2>6. h \in SeatOf(heir)'
    BY <1>2, <2>1, <2>5 DEF SeatOf, PlaceOf, Places
  <2> QED
    BY <2>5, <2>6
<1>5. CASE ~(members[h].left /\ ~members[g].left)
  <2>1. members \in [Members -> MemberRow \cup {None}] /\ Forget(members, seq + 1, guest, None)
    BY <1>1, <1>5 DEF RowsTyped
  <2>2. CASE ~members[h].left
    <3>1. h \in ActiveIn(members)
      BY <1>0, <1>2, <2>2 DEF ActiveIn
    <3>2. Live' /\ members'[h] = members[h]
      BY <1>0, <1>2, <1>3, <2>1, <3>1
    <3>3. h \in SeatOf(heir)'
      BY <1>2, <2>2, <3>2 DEF SeatOf, PlaceOf, Places
    <3> QED
      BY <3>2, <3>3
  <2>3. CASE members[h].left
    <3>1. members[g].left
      BY <1>2, <1>5, <2>3 DEF MemberRow
    <3>2. SeatOf(guest) = {}
      BY <1>2, <3>1 DEF SeatOf
    <3>3. PICK n \in Members : members[n] # None /\ members[n].profile # None /\ ~members[n].left
      BY <1>0 DEF Safe, Owned
    <3>4. n \in ActiveIn(members) /\ members[n].profile # guest
      BY <1>2, <3>1, <3>3 DEF ActiveIn, PlaceOf, Places
    <3>5. Live'
      BY <1>3, <2>1, <3>4
    <3> QED
      BY <3>2, <3>5
  <2> QED
    BY <2>2, <2>3
<1> QED
  BY <1>4, <1>5

\* Where the heir had no place, they get the guest's as it stands.
LEMMA PlaceGoesOn ==
    ASSUME RowsTyped, Safe, NEW guest \in Profiles, NEW heir \in Profiles,
           HandOverPlace(guest, heir)
    PROVE  Live' /\ (SeatOf(guest) # {} => SeatOf(heir)' # {})
<1>1. PICK m \in PlaceOf(guest) :
          members' = [members EXCEPT ![m].profile = heir, ![m].seq = seq + 1]
  BY DEF HandOverPlace
<1>2. PlaceOf(guest) = {m} /\ m \in Members /\ members[m] # None /\ members[m] \in MemberRow
  BY OnlyPlace DEF RowsTyped
<1>3. /\ members'[m] \in MemberRow /\ members'[m].profile = heir
      /\ members'[m].left = members[m].left
  <2>1. seq + 1 \in Nat
    BY DEF RowsTyped
  <2> QED
    BY <1>1, <1>2, <2>1 DEF MemberRow, RowsTyped
<1>4. members'[m] # None /\ Live'
  BY <1>3, NullAssumption DEF HandOverPlace, Live
<1>5. SeatOf(guest) # {} => m \in SeatOf(heir)'
  BY <1>2, <1>3, <1>4 DEF SeatOf, PlaceOf, Places
<1> QED
  BY <1>4, <1>5

\* Whatever the standing of both accounts, a guest who can open the group and
\* signs in can still open it as the account they signed in to.
THEOREM SignInHolds == Spec => SignInKeepsAccess
<1>1. RowsTyped /\ Safe /\ [Next]_vars =>
        \A guest, heir \in Profiles :
          SignIn(guest, heir) /\ SeatOf(guest) # {} => SeatOf(heir)' # {}
  BY BesideGoesOn, PlaceGoesOn DEF SignIn
<1> QED
  BY <1>1, RowsCorrect, SafeInvariant, PTL DEF Spec, SignInKeepsAccess

\* Only the last active account's departure and an account's deletion collect.
LEMMA EndStep ==
    ASSUME RowsTyped, Safe, [Next]_vars, Live, ~Live'
    PROVE  \/ IsGroupSettled
           \/ \E p \in Profiles, name \in Labels \cup {None} : ForgetProfile(p, name)
<1>0. seq + 1 \in Nat
  BY DEF RowsTyped
<1>e. ~(UNCHANGED meta)
  BY DEF Live
<1>1. ASSUME NEW p \in Profiles, NEW m \in Members, NEW name \in Labels,
             NEW handle \in Labels \cup {None}, NEW left \in BOOLEAN, NEW base \in Bases,
             UpdateMember(p, m, name, handle, left, base)
      PROVE  IsGroupSettled
  <2> DEFINE old == members[m]
             new == [old EXCEPT !.name = name, !.handle = handle,
                                !.left = left, !.seq = seq + 1]
             roster == [members EXCEPT ![m] = new]
             leaving == left /\ ~old.left
  <2>1. old \in MemberRow /\ (leaving => MayLeave(m))
    BY <1>1 DEF UpdateMember, RowsTyped
  <2>2. leaving /\ ActiveIn(roster) = {}
    BY <1>1, <1>e DEF UpdateMember
  <2>3. \A n \in Members \ {m} : roster[n] = members[n]
    BY DEF RowsTyped
  <2>4. ActiveIn(members) \ {m} = {}
    BY <2>2, <2>3 DEF ActiveIn
  <2>5. m \in ActiveIn(members)
    BY <2>4 DEF Safe, Owned, ActiveIn
  <2> QED
    BY <2>1, <2>2, <2>4, <2>5 DEF MayLeave, LastAccountLeaves, ActiveIn
<1>2. ASSUME NEW name \in Labels, NEW look \in Looks
      PROVE  [name |-> name, look |-> look, seq |-> seq + 1] # None
  BY <1>0, NullAssumption DEF MetaRow
<1>3. RosterNext => IsGroupSettled
  BY <1>e DEF RosterNext, CreateGroup, Creatable, AddMember
<1>8. EditNext => IsGroupSettled
  BY <1>1 DEF EditNext
<1>4. ~GroupNext
  <2>1. ASSUME NEW p \in Profiles, NEW name \in Labels, NEW look \in Looks, NEW base \in Bases,
               UpdateGroup(p, name, look, base)
        PROVE  FALSE
    BY <1>2, <2>1 DEF UpdateGroup, Live
  <2> QED
    BY <2>1 DEF GroupNext
<1>5. AccountNext => \E p \in Profiles, name \in Labels \cup {None} : ForgetProfile(p, name)
  BY BesideGoesOn, PlaceGoesOn DEF AccountNext
<1>6. ~DoorsNext
  <2>1. ASSUME NEW t \in Tokens, NEW p \in Profiles
        PROVE  /\ Expire(t) => UNCHANGED meta
               /\ CreateGroupLink(p, t) => UNCHANGED meta
               /\ RedeemInvite(p, t) => UNCHANGED meta
               /\ Rejoin(p, t) => UNCHANGED meta
    BY DEF Expire, CreateGroupLink, RedeemInvite, Rejoin, Arrive
  <2>2. ASSUME NEW t \in Tokens, NEW p \in Profiles, NEW m \in Members
        PROVE  /\ CreateInvite(p, m, t) => UNCHANGED meta
               /\ ClaimPlaceholder(p, t, m) => UNCHANGED meta
               /\ \A name \in Labels : JoinAsNew(p, t, m, name) => UNCHANGED meta
    BY DEF CreateInvite, ClaimPlaceholder, JoinAsNew, Arrive
  <2>3. DoorsNext => UNCHANGED meta
    BY <2>1, <2>2 DEF DoorsNext, Expire
  <2> QED
    BY <1>e, <2>3
<1>7. ~(RevokeNext \/ LedgerNext \/ UNCHANGED vars)
  BY <1>e DEF RevokeNext, RevokeGroupLink, LedgerNext, PutEntry, vars, tables
<1> QED
  BY <1>3, <1>4, <1>5, <1>6, <1>7, <1>8 DEF Next

\* No debt is lost with a group unless an account was deleted.
THEOREM EndsHold == Spec => EndsSettled
<1>1. RowsTyped /\ Safe /\ [Next]_vars =>
        (Live /\ ~Live' =>
          \/ IsGroupSettled
          \/ \E p \in Profiles, name \in Labels \cup {None} : ForgetProfile(p, name))
  BY EndStep
<1> QED
  BY <1>1, RowsCorrect, SafeInvariant, PTL DEF Spec, EndsSettled

-----------------------------------------------------------------------------
(* The last event of a kind in a list. *)

\* The greatest of some numbers below a bound is one of them.
LEMMA GreatestOf ==
    ASSUME NEW n \in Nat, NEW S \in SUBSET (1..n), S # {}
    PROVE  Max(S) \in S /\ \A x \in S : x <= Max(S)
<1> DEFINE T == {n - x : x \in S}
           R == {ss \in Nat \X Nat : ss[1] < ss[2]}
<1>1. T \in SUBSET Nat /\ T # {}
  <2>1. \A x \in S : n - x \in Nat
    OBVIOUS
  <2> QED
    BY <2>1
<1>2. IsWellFoundedOn(R, Nat)
  BY NatLessThanWellFounded DEF OpToRel
<1> HIDE DEF T, R
<1>3. PICK t \in T : \A y \in T : ~(<<y, t>> \in R)
  BY <1>1, <1>2, WFMin
<1>4. ASSUME NEW y \in T PROVE t <= y
  <2>1. ~(<<y, t>> \in R)
    BY <1>3
  <2>2. <<y, t>> \in Nat \X Nat => ~(y < t)
    BY <2>1, Zenon DEF R
  <2> QED
    BY <1>1, <2>2
<1>5. PICK x \in S : t = n - x
  BY DEF T
<1>6. ASSUME NEW y \in S PROVE x >= y
  <2>1. n - y \in T /\ x \in Nat /\ y \in Nat
    BY DEF T
  <2>2. n - x <= n - y
    BY <1>4, <1>5, <2>1
  <2> QED
    BY <2>1, <2>2
<1> QED
  BY <1>6 DEF Max

\* Where a list holds events of a set, and the last of them.
Marks(list, S) == {i \in DOMAIN list : list[i] \in S}
LastIn(list, S) == list[Max(Marks(list, S))]

\* A longer list with no more of them.
Same(list, longer, S) ==
    /\ Marks(longer, S) = Marks(list, S)
    /\ Marks(list, S) # {} => LastIn(longer, S) = LastIn(list, S)

\* The last of them is one of them.
LEMMA LastIsIn ==
    ASSUME NEW list \in Seq(EventRow), NEW S, Marks(list, S) # {}
    PROVE  Max(Marks(list, S)) \in Marks(list, S) /\ LastIn(list, S) \in S
<1>1. Marks(list, S) \in SUBSET (1..Len(list)) /\ Len(list) \in Nat
  BY DEF Marks
<1>2. Max(Marks(list, S)) \in Marks(list, S)
  BY <1>1, GreatestOf
<1> QED
  BY <1>2 DEF Marks, LastIn

\* An event of another kind changes nothing ...
LEMMA SameAppend ==
    ASSUME NEW list \in Seq(EventRow), NEW ev \in EventRow, NEW S, ev \notin S
    PROVE  Same(list, Append(list, ev), S)
<1> DEFINE longer == Append(list, ev)
<1>1. /\ DOMAIN longer = 1..Len(list) + 1 /\ longer[Len(list) + 1] = ev
      /\ \A i \in DOMAIN list : longer[i] = list[i]
      /\ DOMAIN list = 1..Len(list) /\ Len(list) \in Nat
  OBVIOUS
<1> HIDE DEF longer
<1>2. Marks(longer, S) = Marks(list, S)
  BY <1>1 DEF Marks
<1>3. ASSUME Marks(list, S) # {} PROVE LastIn(longer, S) = LastIn(list, S)
  <2>1. Max(Marks(list, S)) \in Marks(list, S)
    BY <1>3, LastIsIn
  <2> QED
    BY <1>1, <1>2, <2>1 DEF LastIn, Marks
<1> QED
  BY <1>2, <1>3 DEF Same, longer

\* ... and one of the kind is the last.
LEMMA LastAppend ==
    ASSUME NEW list \in Seq(EventRow), NEW ev \in EventRow, NEW S, ev \in S
    PROVE  /\ Marks(Append(list, ev), S) # {}
           /\ LastIn(Append(list, ev), S) = ev
<1> DEFINE longer == Append(list, ev)
           n == Len(list) + 1
<1>1. /\ DOMAIN longer = 1..n /\ longer[n] = ev /\ n \in Nat /\ n \in 1..n
  OBVIOUS
<1> HIDE DEF longer, n
<1>2. Marks(longer, S) \in SUBSET (1..n) /\ n \in Marks(longer, S)
  BY <1>1 DEF Marks
<1>3. Max(Marks(longer, S)) \in Marks(longer, S) /\ \A x \in Marks(longer, S) : x <= Max(Marks(longer, S))
  BY <1>1, <1>2, GreatestOf
<1>4. Max(Marks(longer, S)) = n
  BY <1>1, <1>2, <1>3
<1> QED
  BY <1>1, <1>2, <1>4 DEF LastIn, longer

-----------------------------------------------------------------------------
(* The invariant. *)

\* The events that say where a member is, and what an expense is.
Movements(m) ==
    {ev \in EventRow : /\ ev.subject = m
                       /\ ev.kind \in {"member_added", "member_joined", "member_left"}}
Snapshots(e) == {ev \in EventRow : ev.kind = "entry" /\ ev.subject = e}

SaysLeft(list, m) ==
    Marks(list, Movements(m)) # {} /\ LastIn(list, Movements(m)).kind = "member_left"

Says(list, e, body) ==
    Marks(list, Snapshots(e)) # {} /\ LastIn(list, Snapshots(e)).entry = body

\* What the two properties say, in these words.
RosterTold == \A m \in Members : members[m] # None => members[m].left = SaysLeft(events, m)
LedgerTold == \A e \in Entries : entries[e] # None => Says(events, e, entries[e].body)

\* The roster's words are the property's.
LEMMA RosterForm == RowsTyped => (RosterTold <=> RecordMatchesRoster)
<1> SUFFICES ASSUME RowsTyped PROVE RosterTold <=> RecordMatchesRoster
  OBVIOUS
<1>1. ASSUME NEW m \in Members
      PROVE  {i \in DOMAIN events :
                      /\ events[i].subject = m
                      /\ events[i].kind \in {"member_added", "member_joined", "member_left"}}
             = Marks(events, Movements(m))
  BY DEF Marks, Movements, RowsTyped
<1> QED
  BY <1>1 DEF RosterTold, RecordMatchesRoster, SaysLeft, LastIn

\* And so are the ledger's.
LEMMA LedgerForm == RowsTyped => (LedgerTold <=> SnapshotCurrent)
<1> SUFFICES ASSUME RowsTyped PROVE LedgerTold <=> SnapshotCurrent
  OBVIOUS
<1>1. ASSUME NEW e \in Entries
      PROVE  {i \in DOMAIN events : /\ events[i].kind = "entry"
                                    /\ events[i].subject = e}
             = Marks(events, Snapshots(e))
  BY DEF Marks, Snapshots, RowsTyped
<1> QED
  BY <1>1 DEF LedgerTold, SnapshotCurrent, Says, LastIn

Told == RosterTold /\ LedgerTold

\* A step that may be shown to keep both row by row.
RowTold(m) ==
    \/ members'[m] = None
    \/ /\ members[m] # None /\ members'[m].left = members[m].left
       /\ Same(events, events', Movements(m))
    \/ members'[m].left = SaysLeft(events', m)

EntryTold(e) ==
    \/ entries'[e] = None
    \/ entries'[e] = entries[e] /\ Same(events, events', Snapshots(e))
    \/ Says(events', e, entries'[e].body)

\* Shown so of every row, the record goes on to tell the truth.
LEMMA ToldKept ==
    ASSUME Told, \A m \in Members : RowTold(m), \A e \in Entries : EntryTold(e)
    PROVE  Told'
<1>1. ASSUME NEW m \in Members, members'[m] # None
      PROVE  members'[m].left = SaysLeft(events', m)
  BY <1>1 DEF Told, RosterTold, RowTold, SaysLeft, Same
<1>2. ASSUME NEW e \in Entries, entries'[e] # None
      PROVE  Says(events', e, entries'[e].body)
  BY <1>2 DEF Told, LedgerTold, EntryTold, Says, Same
<1> QED
  BY <1>1, <1>2 DEF Told, RosterTold, LedgerTold

\* Nothing is said, and nobody moves.
LEMMA NothingSaid ==
    ASSUME Told, UNCHANGED <<events, entries>>,
           \A m \in Members : \/ members'[m] = members[m]
                              \/ members[m] # None /\ members'[m].left = members[m].left
    PROVE  Told'
<1>1. \A S : Same(events, events', S)
  BY DEF Same, Marks, LastIn
<1>2. ASSUME NEW m \in Members PROVE RowTold(m)
  BY <1>1 DEF RowTold
<1>3. \A e \in Entries : EntryTold(e)
  BY <1>1 DEF EntryTold
<1> QED
  BY <1>2, <1>3, ToldKept

\* A collected group has nothing to tell.
LEMMA PurgeTold ==
    ASSUME NEW s, Purge(s)
    PROVE  Told'
BY DEF Purge, Told, RosterTold, LedgerTold

\* One event that is no snapshot: the member it moves is where it says.
LEMMA OneSaid ==
    ASSUME RowsTyped, Told, NEW ev \in EventRow, ev.kind # "entry",
           events' = Append(events, ev), entries' = entries,
           \A m \in Members :
              IF ev \in Movements(m)
              THEN members'[m].left = (ev.kind = "member_left")
              ELSE \/ members'[m] = members[m]
                   \/ members[m] # None /\ members'[m].left = members[m].left
    PROVE  Told'
<1>0. events \in Seq(EventRow)
  BY DEF RowsTyped
<1>1. ASSUME NEW e \in Entries PROVE EntryTold(e)
  <2>1. ev \notin Snapshots(e)
    BY DEF Snapshots
  <2> QED
    BY <1>0, <2>1, SameAppend DEF EntryTold
<1>2. ASSUME NEW m \in Members PROVE RowTold(m)
  <2>1. CASE ev \in Movements(m)
    <3>1. SaysLeft(events', m) = (ev.kind = "member_left")
      BY <1>0, <2>1, LastAppend DEF SaysLeft
    <3> QED
      BY <2>1, <3>1 DEF RowTold
  <2>2. CASE ev \notin Movements(m)
    <3>1. Same(events, events', Movements(m))
      BY <1>0, <2>2, SameAppend
    <3> QED
      BY <2>2, <3>1 DEF RowTold
  <2> QED
    BY <2>1, <2>2
<1> QED
  BY <1>1, <1>2, ToldKept

\* An event's fields, and whom it is about.
LEMMA EventAbout ==
    ASSUME NEW s \in Nat,
           NEW kind \in {"group_renamed", "member_added", "member_joined", "member_left",
                         "member_renamed", "link_created", "link_revoked"},
           NEW subject \in Members \cup Entries \cup Tokens \cup {None},
           NEW actor \in Members \cup {None}
    PROVE  /\ Event(s, kind, subject, actor) \in EventRow
           /\ Event(s, kind, subject, actor).kind = kind
           /\ \A m \in Members : Event(s, kind, subject, actor) \in Movements(m) <=>
                 subject = m /\ kind \in {"member_added", "member_joined", "member_left"}
           /\ \A e \in Entries : Event(s, kind, subject, actor) \notin Snapshots(e)
<1>1. /\ Event(s, kind, subject, actor) \in EventRow
      /\ Event(s, kind, subject, actor).kind = kind
      /\ Event(s, kind, subject, actor).subject = subject
  BY EventType DEF Event
<1> QED
  BY <1>1 DEF Movements, Snapshots

\* An arrival says its member is here.
LEMMA ArriveTold ==
    ASSUME RowsTyped, Told, NEW p \in Profiles, NEW m \in Members, NEW row \in MemberRow,
           ~row.left, Arrive(p, m, row)
    PROVE  Told'
<1> DEFINE new == [row EXCEPT !.seq = seq + 1]
           ev == Event(seq + 1, "member_joined", m, None)
<1>1. seq + 1 \in Nat
  BY DEF RowsTyped
<1>2. /\ ev \in EventRow /\ ev.kind = "member_joined"
      /\ \A n \in Members : ev \in Movements(n) <=> n = m
  BY <1>1, EventAbout
<1>3. ~new.left /\ new.left \in BOOLEAN
  BY DEF MemberRow
<1>4. /\ members' = [members EXCEPT ![m] = new] /\ events' = Append(events, ev)
      /\ entries' = entries
  BY DEF Arrive, Append1
<1> HIDE DEF new, ev
<1>5. ASSUME NEW n \in Members
      PROVE  IF ev \in Movements(n)
             THEN members'[n].left = (ev.kind = "member_left")
             ELSE members'[n] = members[n]
  BY <1>2, <1>3, <1>4 DEF RowsTyped
<1> QED
  BY <1>2, <1>4, <1>5, OneSaid

\* Forgetting an account moves nobody, whatever is said beside it.
LEMMA ForgetRows ==
    ASSUME NEW roster \in [Members -> MemberRow \cup {None}], NEW s \in Nat,
           NEW p \in Profiles, NEW name \in Labels \cup {None}, Forget(roster, s, p, name)
    PROVE  \/ Purge(s)
           \/ /\ entries' = entries /\ meta' = meta
              /\ \A m \in Members : \/ members'[m] = roster[m]
                                    \/ roster[m] # None /\ members'[m].left = roster[m].left
<1>1. CASE ActiveIn(roster) \ Places(roster, p) # {}
  <2>1. /\ UNCHANGED <<meta, entries>>
        /\ members' = [m \in Members |->
                          IF m \in Places(roster, p)
                          THEN [roster[m] EXCEPT !.profile = None, !.seq = s,
                                   !.name = IF name = None THEN @ ELSE name]
                          ELSE roster[m]]
    BY <1>1 DEF Forget
  <2>2. ASSUME NEW m \in Places(roster, p)
        PROVE  roster[m] # None /\ members'[m].left = roster[m].left
    <3>1. /\ m \in Members /\ roster[m] \in MemberRow /\ roster[m] # None
          /\ members'[m] = [roster[m] EXCEPT !.profile = None, !.seq = s,
                                   !.name = IF name = None THEN @ ELSE name]
      BY <2>1 DEF Places
    <3> QED
      BY <3>1 DEF MemberRow
  <2>3. \A m \in Members \ Places(roster, p) : members'[m] = roster[m]
    BY <2>1
  <2> QED
    BY <2>1, <2>2, <2>3
<1> QED
  BY <1>1 DEF Forget

\* What putMember records: a departure or a return, then a new name.
LEMMA UpdateTold ==
    ASSUME RowsTyped, Told, NEW m \in Members, NEW actor \in Members,
           NEW new \in MemberRow, members[m] \in MemberRow, members[m] # None,
           members' = [members EXCEPT ![m] = new], entries' = entries,
           events' = events \o MemberEvents(seq + 1, m, actor, members[m], new)
    PROVE  Told'
<1> DEFINE ev(kind) == Event(seq + 1, kind, m, actor)
           one == IF new.left /\ ~members[m].left
                  THEN Append(events, ev("member_left")) ELSE events
           two == IF members[m].left /\ ~new.left
                  THEN Append(one, ev("member_added")) ELSE one
           three == IF new.name # members[m].name
                    THEN Append(two, ev("member_renamed")) ELSE two
<1>1. events \in Seq(EventRow) /\ seq + 1 \in Nat
      /\ new.left \in BOOLEAN /\ members[m].left \in BOOLEAN
  BY DEF RowsTyped, MemberRow
<1>2. \A kind \in {"member_left", "member_added", "member_renamed"} :
         /\ ev(kind) \in EventRow /\ ev(kind).kind = kind
         /\ \A n \in Members : ev(kind) \in Movements(n) <=> n = m /\ kind # "member_renamed"
         /\ \A e \in Entries : ev(kind) \notin Snapshots(e)
  BY <1>1, EventAbout, SMTT(30)
<1>3. events' = three
  <2> DEFINE a == IF new.left /\ ~members[m].left THEN <<ev("member_left")>> ELSE <<>>
             b == IF members[m].left /\ ~new.left THEN <<ev("member_added")>> ELSE <<>>
             c == IF new.name # members[m].name THEN <<ev("member_renamed")>> ELSE <<>>
  <2>1. events' = events \o ((a \o b) \o c)
    BY DEF MemberEvents
  <2> HIDE DEF ev
  <2>2. a \in Seq(EventRow) /\ b \in Seq(EventRow) /\ c \in Seq(EventRow)
    BY <1>2
  <2>3. one = events \o a /\ one \in Seq(EventRow)
    BY <1>1, <1>2
  <2> HIDE DEF one
  <2>4. two = one \o b /\ two \in Seq(EventRow)
    <3>1. CASE members[m].left /\ ~new.left
      BY <1>2, <2>3, <3>1
    <3>2. CASE ~(members[m].left /\ ~new.left)
      <4>1. two = one /\ b = <<>>
        BY <3>2
      <4> HIDE DEF two, b
      <4> QED
        BY <2>3, <4>1
    <3> QED
      BY <3>1, <3>2
  <2> HIDE DEF two
  <2>5. three = two \o c
    <3>1. CASE new.name # members[m].name
      BY <1>2, <2>4, <3>1
    <3>2. CASE new.name = members[m].name
      BY <2>4, <3>2
    <3> QED
      BY <3>1, <3>2
  <2> HIDE DEF three, a, b, c
  <2>6. events \o ((a \o b) \o c) = ((events \o a) \o b) \o c
    BY <1>1, <2>2, SMTT(60)
  <2> QED
    BY <2>1, <2>3, <2>4, <2>5, <2>6
<1> HIDE DEF ev
<1>4. one \in Seq(EventRow) /\ two \in Seq(EventRow)
  BY <1>1, <1>2
<1>5. ASSUME NEW S, \A kind \in {"member_left", "member_added", "member_renamed"} : ev(kind) \notin S
      PROVE  Same(events, events', S)
  <2>1. Same(events, one, S)
    BY <1>1, <1>2, <1>5, SameAppend DEF Same
  <2>2. Same(one, two, S)
    BY <1>2, <1>4, <1>5, SameAppend DEF Same
  <2>3. Same(two, three, S)
    <3> HIDE DEF one, two
    <3>1. Same(two, Append(two, ev("member_renamed")), S)
      BY <1>2, <1>4, <1>5, SameAppend
    <3> QED
      BY <3>1 DEF Same
  <2> HIDE DEF one, two, three
  <2> QED
    BY <1>3, <2>1, <2>2, <2>3 DEF Same
<1>6. \A e \in Entries : EntryTold(e)
  BY <1>2, <1>5 DEF EntryTold
<1>7. ASSUME NEW n \in Members, n # m PROVE RowTold(n)
  <2>1. Same(events, events', Movements(n))
    BY <1>2, <1>5, <1>7
  <2>2. members'[n] = members[n]
    BY <1>7 DEF RowsTyped
  <2> QED
    BY <2>1, <2>2 DEF RowTold
<1>8. RowTold(m)
  <2>0. members'[m] = new
    BY DEF RowsTyped
  <2>1. Same(two, three, Movements(m))
    <3> HIDE DEF one, two
    <3>1. Same(two, Append(two, ev("member_renamed")), Movements(m))
      BY <1>2, <1>4, SameAppend
    <3> QED
      BY <3>1 DEF Same
  <2>2. CASE new.left /\ ~members[m].left
    <3>1. two = Append(events, ev("member_left"))
      BY <2>2
    <3>2. SaysLeft(two, m)
      BY <1>1, <1>2, <3>1, LastAppend DEF SaysLeft
    <3> HIDE DEF two, three
    <3>3. SaysLeft(events', m)
      BY <1>3, <2>1, <3>2 DEF SaysLeft, Same
    <3> QED
      BY <1>1, <2>0, <2>2, <3>3 DEF RowTold
  <2>3. CASE members[m].left /\ ~new.left
    <3>1. two = Append(events, ev("member_added"))
      BY <2>3
    <3>2. ~SaysLeft(two, m)
      BY <1>1, <1>2, <3>1, LastAppend DEF SaysLeft
    <3> HIDE DEF two, three
    <3>3. ~SaysLeft(events', m)
      BY <1>3, <2>1, <3>2 DEF SaysLeft, Same
    <3> QED
      BY <1>1, <2>0, <2>3, <3>3 DEF RowTold, SaysLeft
  <2>4. CASE new.left = members[m].left
    <3>1. two = events
      BY <2>4
    <3>2. Same(events, events', Movements(m))
      BY <1>3, <2>1, <3>1
    <3> QED
      BY <2>0, <2>4, <3>2 DEF RowTold
  <2> QED
    BY <1>1, <2>2, <2>3, <2>4
<1> QED
  BY <1>6, <1>7, <1>8, ToldKept

\* An expense that is written leaves its snapshot last, unless it says nothing new.
LEMMA EntryRecorded ==
    ASSUME RowsTyped, Told, NEW e \in Entries, NEW in \in EntryInputs, NEW actor \in Members,
           members' = members, entries' = [entries EXCEPT ![e] = [body |-> in, seq |-> seq + 1]],
           events' = events \o SnapshotEvents(seq + 1, e, in, actor)
    PROVE  Told'
<1> DEFINE ev == [Event(seq + 1, "entry", e, actor) EXCEPT !.entry = in]
           past == {i \in DOMAIN events : events[i].kind = "entry" /\ events[i].subject = e}
<1>1. events \in Seq(EventRow) /\ seq + 1 \in Nat
  BY DEF RowsTyped
<1>2. /\ ev \in EventRow /\ ev.entry = in /\ ev.kind = "entry" /\ ev.subject = e
  BY <1>1 DEF Event, EventRow
<1>3. past = Marks(events, Snapshots(e))
  BY <1>1 DEF Marks, Snapshots
<1>4. entries'[e].body = in /\ \A f \in Entries \ {e} : entries'[f] = entries[f]
  BY DEF RowsTyped
\* The latest snapshot says the same already.
<1>5. CASE past # {} /\ events[Max(past)].entry = in
  <2>1. events' = events
    BY <1>1, <1>5 DEF SnapshotEvents
  <2>2. \A S : Same(events, events', S)
    BY <2>1 DEF Same, Marks, LastIn
  <2>3. Says(events', e, in)
    BY <1>3, <1>5, <2>1 DEF Says, LastIn
  <2>4. \A m \in Members : RowTold(m)
    BY <2>2 DEF RowTold
  <2>5. \A f \in Entries : EntryTold(f)
    BY <1>4, <2>2, <2>3 DEF EntryTold
  <2> QED
    BY <2>4, <2>5, ToldKept
<1>6. CASE ~(past # {} /\ events[Max(past)].entry = in)
  <2>1. SnapshotEvents(seq + 1, e, in, actor) = <<ev>>
    BY <1>6 DEF SnapshotEvents
  <2> HIDE DEF ev, past
  <2>2. events' = Append(events, ev)
    <3>1. events' = events \o <<ev>>
      BY <2>1
    <3> QED
      BY <1>1, <1>2, <3>1
  <2>3. ev \in Snapshots(e) /\ \A f \in Entries \ {e} : ev \notin Snapshots(f)
    BY <1>2 DEF Snapshots
  <2>4. Says(events', e, in)
    <3>1. ev \in EventRow /\ ev \in Snapshots(e) /\ events \in Seq(EventRow)
      BY <1>1, <1>2, <2>3
    <3>2. /\ Marks(Append(events, ev), Snapshots(e)) # {}
          /\ LastIn(Append(events, ev), Snapshots(e)) = ev
      BY <3>1, LastAppend
    <3>3. Marks(events', Snapshots(e)) # {} /\ LastIn(events', Snapshots(e)) = ev
      BY <2>2, <3>2
    <3> QED
      BY <1>2, <3>3 DEF Says
  <2>5. ASSUME NEW m \in Members PROVE RowTold(m)
    <3>1. ev \notin Movements(m)
      BY <1>2 DEF Movements
    <3> QED
      BY <1>1, <1>2, <2>2, <3>1, SameAppend DEF RowTold
  <2>6. ASSUME NEW f \in Entries PROVE EntryTold(f)
    <3>1. CASE f = e
      BY <1>4, <2>4, <3>1 DEF EntryTold
    <3>2. CASE f # e
      <4>1. Same(events, events', Snapshots(f))
        BY <1>1, <1>2, <2>2, <2>3, <3>2, SameAppend
      <4> QED
        BY <1>4, <3>2, <4>1 DEF EntryTold
    <3> QED
      BY <3>1, <3>2
  <2> QED
    BY <2>5, <2>6, ToldKept
<1> QED
  BY <1>5, <1>6

\* A link's events and a new group name are about nobody and no expense.
LEMMA OthersSaid ==
    ASSUME RowsTyped, Told, NEW kind \in {"group_renamed", "link_created", "link_revoked"},
           NEW subject \in Tokens \cup {None}, NEW actor \in Members,
           UNCHANGED <<members, entries>>,
           events' = Append(events, Event(seq + 1, kind, subject, actor))
    PROVE  Told'
<1> DEFINE ev == Event(seq + 1, kind, subject, actor)
<1>1. seq + 1 \in Nat
  BY DEF RowsTyped
<1>2. ev \in EventRow /\ ev.kind = kind /\ \A m \in Members : ev \notin Movements(m)
  BY <1>1, EventAbout
<1> HIDE DEF ev
<1>3. events' = Append(events, ev)
  BY DEF ev
<1> QED
  BY <1>2, <1>3, OneSaid

\* Every handler records what it does to the roster and to the ledger, and a new
\* group begins with an empty record.
LEMMA ToldStep == RowsTyped /\ Safe /\ Told /\ [Next]_vars => Told'
<1> SUFFICES ASSUME RowsTyped, Safe, Told, [Next]_vars
             PROVE  Told'
  OBVIOUS
<1>0. seq + 1 \in Nat /\ seq + 2 \in Nat /\ events \in Seq(EventRow)
      /\ members \in [Members -> MemberRow \cup {None}]
  BY DEF RowsTyped
<1>a. ASSUME NEW p \in Profiles, NEW actor \in SeatOf(p)
      PROVE  actor \in Members
  BY DEF SeatOf, PlaceOf, Places
\* A new group has no record yet, and its creator is here.
<1>1. ASSUME NEW p \in Profiles, NEW m \in Members, NEW name \in Labels, NEW look \in Looks,
             CreateGroup(p, m, name, look)
      PROVE  Told'
  <2>1. /\ events' = <<>> /\ \A e \in Entries : entries'[e] = None
        /\ \A n \in Members : members[n] = None
    BY <1>1 DEF CreateGroup, Creatable, Safe, LiveXorGone
  <2>2. ASSUME NEW n \in Members PROVE members'[n] = None \/ members'[n].left = FALSE
    BY <1>1, <2>1 DEF CreateGroup, RowsTyped
  <2>3. \A n \in Members : SaysLeft(events', n) = FALSE
    BY <2>1 DEF SaysLeft, Marks
  <2> QED
    BY <2>1, <2>2, <2>3 DEF Told, RosterTold, LedgerTold
<1>2. ASSUME NEW p \in Profiles, NEW m \in Members, NEW name \in Labels,
             NEW handle \in Labels \cup {None}, AddMember(p, m, name, handle)
      PROVE  Told'
  <2>1. PICK actor \in SeatOf(p) : Append1(Event(seq + 1, "member_added", m, actor))
    BY <1>2 DEF AddMember
  <2> DEFINE ev == Event(seq + 1, "member_added", m, actor)
  <2>2. /\ ev \in EventRow /\ ev.kind = "member_added"
        /\ \A n \in Members : ev \in Movements(n) <=> n = m
    BY <1>0, <1>a, EventAbout, SMTT(30)
  <2> HIDE DEF ev
  <2>3. events' = Append(events, ev) /\ entries' = entries
    BY <1>2, <2>1 DEF Append1, ev, AddMember
  <2>4. members'[m].left = FALSE /\ \A n \in Members \ {m} : members'[n] = members[n]
    BY <1>2 DEF AddMember, RowsTyped
  <2> QED
    BY <2>2, <2>3, <2>4, OneSaid
<1>3. ASSUME NEW p \in Profiles, NEW m \in Members, NEW name \in Labels,
             NEW handle \in Labels \cup {None}, NEW left \in BOOLEAN, NEW base \in Bases,
             UpdateMember(p, m, name, handle, left, base)
      PROVE  Told'
  <2> DEFINE new == [members[m] EXCEPT !.name = name, !.handle = handle,
                                       !.left = left, !.seq = seq + 1]
  <2>1. members[m] \in MemberRow /\ members[m] # None
    BY <1>3 DEF UpdateMember, RowsTyped
  <2>2. new \in MemberRow
    BY <1>0, <2>1 DEF MemberRow
  <2>3. PICK actor \in SeatOf(p) :
          \/ Purge(seq + 2)
          \/ /\ members' = [members EXCEPT ![m] = new] /\ entries' = entries
             /\ events' = events \o MemberEvents(seq + 1, m, actor, members[m], new)
    BY <1>3 DEF UpdateMember
  <2> HIDE DEF new
  <2>4. CASE Purge(seq + 2)
    BY <2>4, PurgeTold
  <2>5. CASE /\ members' = [members EXCEPT ![m] = new] /\ entries' = entries
             /\ events' = events \o MemberEvents(seq + 1, m, actor, members[m], new)
    BY <1>a, <2>1, <2>2, <2>5, UpdateTold
  <2> QED
    BY <2>3, <2>4, <2>5
<1>4. ASSUME NEW p \in Profiles, NEW name \in Labels, NEW look \in Looks, NEW base \in Bases,
             UpdateGroup(p, name, look, base)
      PROVE  Told'
  <2>1. PICK actor \in SeatOf(p) :
          events' = IF name = meta.name THEN events
                    ELSE Append(events, Event(seq + 1, "group_renamed", None, actor))
    BY <1>4 DEF UpdateGroup
  <2>2. UNCHANGED <<members, entries>> /\ actor \in Members
    BY <1>4, <1>a DEF UpdateGroup
  <2> QED
    BY <2>1, <2>2, NothingSaid, OthersSaid
<1>5. ASSUME NEW p \in Profiles, NEW name \in Labels \cup {None}, ForgetProfile(p, name)
      PROVE  Told'
  <2>1. Live /\ Forget(members, seq + 1, p, name) /\ (Live' => UNCHANGED events)
    BY <1>5 DEF ForgetProfile
  <2>2. \/ Purge(seq + 1)
        \/ /\ entries' = entries /\ meta' = meta
           /\ \A m \in Members : \/ members'[m] = members[m]
                                 \/ members[m] # None /\ members'[m].left = members[m].left
    BY <1>0, <2>1, ForgetRows
  <2> QED
    BY <2>1, <2>2, PurgeTold, NothingSaid DEF Live
<1>6. ASSUME NEW p \in Profiles, NEW heir \in Profiles, HandOverPlace(p, heir)
      PROVE  Told'
  <2>1. PICK m \in PlaceOf(p) :
          members' = [members EXCEPT ![m].profile = heir, ![m].seq = seq + 1]
    BY <1>6 DEF HandOverPlace
  <2>2. m \in Members /\ members[m] \in MemberRow /\ members[m] # None
    BY DEF PlaceOf, Places, RowsTyped
  <2>3. members'[m].left = members[m].left /\ \A n \in Members \ {m} : members'[n] = members[n]
    BY <2>1, <2>2 DEF MemberRow, RowsTyped
  <2>4. UNCHANGED <<events, entries>>
    BY <1>6 DEF HandOverPlace
  <2> QED
    BY <2>2, <2>3, <2>4, NothingSaid
<1>7. ASSUME NEW p \in Profiles, NEW heir \in Profiles, HandOverBeside(p, heir)
      PROVE  Told'
  <2>1. PICK g \in PlaceOf(p), h \in PlaceOf(heir) :
         IF members[h].left /\ ~members[g].left
         THEN /\ Forget([members EXCEPT ![h].left = FALSE, ![h].seq = seq + 1],
                        seq + 2, p, None)
              /\ Live' => Append1(Event(seq + 1, "member_joined", h, None))
         ELSE /\ Forget(members, seq + 1, p, None)
              /\ Live' => UNCHANGED events
    BY <1>7 DEF HandOverBeside
  <2>2. h \in Members /\ members[h] \in MemberRow /\ members[h] # None /\ Live
        /\ None \in Labels \cup {None}
    BY <1>7 DEF PlaceOf, Places, RowsTyped, HandOverBeside
  <2>3. CASE members[h].left /\ ~members[g].left
    <3> DEFINE roster == [members EXCEPT ![h].left = FALSE, ![h].seq = seq + 1]
               ev == Event(seq + 1, "member_joined", h, None)
    <3>1. /\ roster \in [Members -> MemberRow \cup {None}] /\ roster[h].left = FALSE
          /\ \A n \in Members \ {h} : roster[n] = members[n]
      BY <1>0, <2>2 DEF MemberRow
    <3>2. /\ ev \in EventRow /\ ev.kind = "member_joined"
          /\ \A n \in Members : ev \in Movements(n) <=> n = h
      BY <1>0, <2>2, EventAbout
    <3>3. Forget(roster, seq + 2, p, None) /\ (Live' => events' = Append(events, ev))
      BY <2>1, <2>3 DEF Append1
    <3> HIDE DEF roster, ev
    <3>4. \/ Purge(seq + 2)
          \/ /\ entries' = entries /\ meta' = meta
             /\ \A m \in Members : \/ members'[m] = roster[m]
                                   \/ roster[m] # None /\ members'[m].left = roster[m].left
      BY <1>0, <2>2, <3>1, <3>3, ForgetRows
    <3>5. CASE Purge(seq + 2)
      BY <3>5, PurgeTold
    <3>6. CASE /\ entries' = entries /\ meta' = meta
               /\ \A m \in Members : \/ members'[m] = roster[m]
                                     \/ roster[m] # None /\ members'[m].left = roster[m].left
      <4>1. events' = Append(events, ev)
        BY <2>2, <3>3, <3>6 DEF Live
      <4>2. members'[h].left = FALSE
        BY <2>2, <3>1, <3>6
      <4> QED
        BY <3>1, <3>2, <3>6, <4>1, <4>2, OneSaid
    <3> QED
      BY <3>4, <3>5, <3>6
  <2>4. CASE ~(members[h].left /\ ~members[g].left)
    <3>1. Forget(members, seq + 1, p, None) /\ (Live' => UNCHANGED events)
      BY <2>1, <2>4
    <3>2. \/ Purge(seq + 1)
          \/ /\ entries' = entries /\ meta' = meta
             /\ \A m \in Members : \/ members'[m] = members[m]
                                   \/ members[m] # None /\ members'[m].left = members[m].left
      BY <1>0, <2>2, <3>1, ForgetRows
    <3> QED
      BY <2>2, <3>1, <3>2, PurgeTold, NothingSaid DEF Live
  <2> QED
    BY <2>3, <2>4
<1>8. ASSUME NEW p \in Profiles, NEW t \in Tokens, CreateGroupLink(p, t)
      PROVE  Told'
  <2> DEFINE off(actor) == Event(seq + 1, "link_revoked", groupLink.token, actor)
             on(actor) == Event(seq + 1, "link_created", t, actor)
             revoking == groupLink # None /\ ~groupLink.revoked
             one(actor) == IF revoking THEN Append(events, off(actor)) ELSE events
  <2>1. PICK actor \in SeatOf(p) :
          events' = events \o (IF revoking THEN <<off(actor)>> ELSE <<>>) \o <<on(actor)>>
    BY <1>8 DEF CreateGroupLink
  <2>2. actor \in Members /\ UNCHANGED <<members, entries>>
    BY <1>a, <1>8 DEF CreateGroupLink
  <2>3. /\ on(actor) \in EventRow
        /\ \A m \in Members : on(actor) \notin Movements(m)
        /\ \A e \in Entries : on(actor) \notin Snapshots(e)
    BY <1>0, <2>2, EventAbout
  <2>4. revoking => /\ off(actor) \in EventRow
                    /\ \A m \in Members : off(actor) \notin Movements(m)
                    /\ \A e \in Entries : off(actor) \notin Snapshots(e)
    <3>1. revoking => groupLink.token \in Tokens
      BY DEF RowsTyped, LinkRow
    <3> QED
      BY <1>0, <2>2, <3>1, EventAbout
  <2> HIDE DEF on, off, revoking
  <2>5. events' = Append(one(actor), on(actor)) /\ one(actor) \in Seq(EventRow)
    BY <1>0, <2>1, <2>3, <2>4
  <2>6. ASSUME NEW S, on(actor) \notin S, revoking => off(actor) \notin S
        PROVE  Same(events, events', S)
    <3>1. Same(events, one(actor), S)
      BY <1>0, <2>4, <2>6, SameAppend DEF Same
    <3> HIDE DEF one
    <3>2. Same(one(actor), events', S)
      BY <2>3, <2>5, <2>6, SameAppend
    <3> QED
      BY <3>1, <3>2 DEF Same
  <2>7. \A m \in Members : RowTold(m)
    BY <2>2, <2>3, <2>4, <2>6 DEF RowTold
  <2>8. \A e \in Entries : EntryTold(e)
    BY <2>2, <2>3, <2>4, <2>6 DEF EntryTold
  <2> QED
    BY <2>7, <2>8, ToldKept
<1>9. ASSUME NEW p \in Profiles, RevokeGroupLink(p)
      PROVE  Told'
  <2>1. PICK actor \in SeatOf(p) : Append1(Event(seq + 1, "link_revoked", groupLink.token, actor))
    BY <1>9 DEF RevokeGroupLink
  <2>2. groupLink.token \in Tokens /\ actor \in Members /\ UNCHANGED <<members, entries>>
    BY <1>9, <1>a DEF RevokeGroupLink, RowsTyped, LinkRow
  <2> QED
    BY <2>1, <2>2, OthersSaid DEF Append1
<1>10. ASSUME NEW p \in Profiles, NEW t \in Tokens, RedeemInvite(p, t)
       PROVE  Told'
  <2> DEFINE m == invites[t].member
             row == [members[m] EXCEPT !.profile = p]
  <2>1. /\ m \in Members /\ members[m] \in MemberRow /\ ~members[m].left /\ Arrive(p, m, row)
    BY <1>10 DEF RedeemInvite, InviteOpen, Claimable, RowsTyped, InviteRow
  <2>2. row \in MemberRow /\ ~row.left
    BY <2>1 DEF MemberRow
  <2> HIDE DEF m, row
  <2> QED
    BY <2>1, <2>2, ArriveTold
<1>11. ASSUME NEW p \in Profiles, NEW t \in Tokens, Rejoin(p, t)
       PROVE  Told'
  <2>1. PICK m \in PlaceOf(p) : Arrive(p, m, [members[m] EXCEPT !.left = FALSE])
    BY <1>11 DEF Rejoin
  <2> DEFINE row == [members[m] EXCEPT !.left = FALSE]
  <2>2. m \in Members /\ row \in MemberRow /\ ~row.left
    BY DEF PlaceOf, Places, RowsTyped, MemberRow
  <2> HIDE DEF row
  <2>3. Arrive(p, m, row)
    BY <2>1 DEF row
  <2> QED
    BY <2>2, <2>3, ArriveTold
<1>12. ASSUME NEW p \in Profiles, NEW t \in Tokens, NEW m \in Members, ClaimPlaceholder(p, t, m)
       PROVE  Told'
  <2> DEFINE row == [members[m] EXCEPT !.profile = p]
  <2>1. members[m] \in MemberRow /\ ~members[m].left /\ Arrive(p, m, row)
    BY <1>12 DEF ClaimPlaceholder, Claimable, RowsTyped
  <2>2. row \in MemberRow /\ ~row.left
    BY <2>1 DEF MemberRow
  <2> HIDE DEF row
  <2> QED
    BY <2>1, <2>2, ArriveTold
<1>13. ASSUME NEW p \in Profiles, NEW t \in Tokens, NEW m \in Members, NEW name \in Labels,
              JoinAsNew(p, t, m, name)
       PROVE  Told'
  <2> DEFINE row == [profile |-> p, name |-> name, handle |-> None, left |-> FALSE, seq |-> 0]
  <2>1. row \in MemberRow /\ ~row.left /\ Arrive(p, m, row)
    BY <1>13 DEF MemberRow, JoinAsNew
  <2> HIDE DEF row
  <2> QED
    BY <2>1, ArriveTold
<1>14. ASSUME NEW p \in Profiles, NEW e \in Entries, NEW in \in EntryInputs, NEW base \in Bases,
              PutEntry(p, e, in, base)
       PROVE  Told'
  <2>1. PICK actor \in SeatOf(p) : events' = events \o SnapshotEvents(seq + 1, e, in, actor)
    BY <1>14 DEF PutEntry
  <2>2. /\ members' = members /\ actor \in Members
        /\ entries' = [entries EXCEPT ![e] = [body |-> in, seq |-> seq + 1]]
    BY <1>14, <1>a DEF PutEntry
  <2> QED
    BY <2>1, <2>2, EntryRecorded
<1>15. ASSUME UNCHANGED <<members, events, entries>> PROVE Told'
  BY <1>15, NothingSaid
<1>16. ASSUME NEW t \in Tokens, NEW p \in Profiles, NEW m \in Members
       PROVE  (Expire(t) \/ CreateInvite(p, m, t)) => UNCHANGED <<members, events, entries>>
  BY DEF Expire, CreateInvite
<1>17. DoorsNext => Told'
  <2>1. ASSUME NEW t \in Tokens, Expire(t) PROVE Told'
    BY <1>15, <2>1 DEF Expire
  <2> QED
    BY <1>8, <1>10, <1>11, <1>12, <1>13, <1>15, <1>16, <2>1 DEF DoorsNext
<1>18. UNCHANGED vars => Told'
  BY <1>15 DEF vars, tables
<1> QED
  BY <1>1, <1>2, <1>3, <1>4, <1>5, <1>6, <1>7, <1>9, <1>14, <1>17, <1>18
     DEF Next, EditNext, RosterNext, GroupNext, AccountNext, RevokeNext, LedgerNext

\* Both hold from the start: there is nobody and nothing yet.
LEMMA ToldInvariant == Spec => []Told
<1>1. Init => Told
  BY DEF Init, Told, RosterTold, LedgerTold
<1> QED
  BY <1>1, RowsCorrect, SafeInvariant, ToldStep, PTL DEF Spec

\* Whoever reads the record to its end knows who is here.
THEOREM RecordHolds == Spec => []RecordMatchesRoster
<1>1. RowsTyped /\ Told => RecordMatchesRoster
  BY RosterForm DEF Told
<1> QED
  BY <1>1, RowsCorrect, ToldInvariant, PTL

\* The last snapshot of an expense is what is stored, though an edit that says
\* nothing new records none.
THEOREM SnapshotHolds == Spec => []SnapshotCurrent
<1>1. RowsTyped /\ Told => SnapshotCurrent
  BY LedgerForm DEF Told
<1> QED
  BY <1>1, RowsCorrect, ToldInvariant, PTL

-----------------------------------------------------------------------------
(* Nobody who has left owes anything. *)

\* A body moves whole amounts.
LEMMA MovesWhole ==
    ASSUME RowsTyped, NEW in \in EntryInputs, NEW m \in Members, NEW cur, NEW e \in Entries
    PROVE  Moves(in, m, cur) \in Int /\ StoredMoves(e, m, cur) \in Int
<1>1. ASSUME NEW body \in EntryInputs PROVE Moves(body, m, cur) \in Int
  <2>1. AmountOf(body.payers, m) \in Nat /\ AmountOf(body.shares, m) \in Nat
    BY InputsAssumption DEF AmountOf, IsAmounts
  <2> QED
    BY <2>1 DEF Moves
<1>2. entries[e] # None => entries[e].body \in EntryInputs
  BY DEF RowsTyped, EntryRow
<1> QED
  BY <1>1, <1>2 DEF StoredMoves

\* A position is a sum over the entries: it stays while what each moves does.
LEMMA PositionSame ==
    ASSUME NEW m, NEW cur, \A e \in Entries : StoredMoves(e, m, cur)' = StoredMoves(e, m, cur)
    PROVE  Position(m, cur)' = Position(m, cur)
<1> DEFINE Sums(g) ==
               [s \in SUBSET Entries |->
                   IF s = {} THEN 0
                   ELSE StoredMoves(CHOOSE x \in s : TRUE, m, cur) + g[s \ {CHOOSE x \in s : TRUE}]]
           SumsAfter(g) ==
               [s \in SUBSET Entries |->
                   IF s = {} THEN 0
                   ELSE StoredMoves(CHOOSE x \in s : TRUE, m, cur)' + g[s \ {CHOOSE x \in s : TRUE}]]
<1>1. Position(m, cur) = (CHOOSE g : g = Sums(g))[Entries]
  BY DEF Position, MapThenSumSet, MapThenFoldSet
<1>2. Position(m, cur)' = (CHOOSE g : g = SumsAfter(g))[Entries]
  BY DEF Position, MapThenSumSet, MapThenFoldSet
<1>3. ASSUME NEW g PROVE Sums(g) = SumsAfter(g)
  <2>1. \A s \in SUBSET Entries : s # {} => (CHOOSE x \in s : TRUE) \in Entries
    OBVIOUS
  <2> QED
    BY <2>1
<1>4. (CHOOSE g : g = Sums(g)) = (CHOOSE g : g = SumsAfter(g))
  <2> HIDE DEF Sums, SumsAfter
  <2> QED
    BY <1>3
<1> QED
  BY <1>1, <1>2, <1>4

\* While no entry changes, those who had left are as settled as before.
LEMMA DepartedKept ==
    ASSUME DepartedSettled, UNCHANGED entries, \A m \in Departed' : IsSettled(m)
    PROVE  DepartedSettled'
<1>1. ASSUME NEW m \in Departed', NEW cur \in Currencies PROVE Position(m, cur)' = 0
  <2>1. Position(m, cur)' = Position(m, cur)
    BY PositionSame DEF StoredMoves
  <2> QED
    BY <2>1 DEF IsSettled
<1> QED
  BY <1>1 DEF DepartedSettled, IsSettled

\* A handler that leaves nobody gone who was not.
LEMMA NobodyLeaves ==
    ASSUME DepartedSettled, UNCHANGED entries,
           \A m \in Members : (members'[m] # None /\ members'[m].left) => m \in Departed
    PROVE  DepartedSettled'
BY DepartedKept DEF DepartedSettled, Departed

\* Nobody is left of a collected group.
LEMMA PurgeSettled ==
    ASSUME NEW s, Purge(s)
    PROVE  DepartedSettled'
BY DEF Purge, DepartedSettled, Departed

\* Whoever arrives is here.
LEMMA ArriveSettled ==
    ASSUME RowsTyped, DepartedSettled, NEW p, NEW m \in Members, NEW row \in MemberRow,
           ~row.left, Arrive(p, m, row)
    PROVE  DepartedSettled'
<1> DEFINE new == [row EXCEPT !.seq = seq + 1]
<1>1. members' = [members EXCEPT ![m] = new] /\ UNCHANGED entries
  BY DEF Arrive
<1>2. ~new.left
  BY DEF MemberRow
<1> HIDE DEF new
<1>3. members \in [Members -> MemberRow \cup {None}]
  BY DEF RowsTyped
<1> QED
  BY <1>1, <1>2, <1>3, NobodyLeaves DEF Departed

\* An account that is forgotten leaves its place as current as it was.
LEMMA ForgetSettled ==
    ASSUME DepartedSettled, NEW roster \in [Members -> MemberRow \cup {None}],
           NEW s \in Nat, NEW p, NEW name, Forget(roster, s, p, name),
           \A m \in Members : (roster[m] # None /\ roster[m].left) => m \in Departed
    PROVE  DepartedSettled'
<1>1. CASE Purge(s)
  BY <1>1, PurgeSettled
<1>2. CASE ~Purge(s)
  <2>1. UNCHANGED entries
        /\ members' = [m \in Members |->
                          IF m \in Places(roster, p)
                          THEN [roster[m] EXCEPT !.profile = None, !.seq = s,
                                   !.name = IF name = None THEN @ ELSE name]
                          ELSE roster[m]]
    BY <1>2 DEF Forget
  <2>2. ASSUME NEW m \in Members, members'[m] # None, members'[m].left PROVE m \in Departed
    <3>1. roster[m] # None /\ roster[m].left
      BY <2>1, <2>2 DEF Places, MemberRow
    <3> QED
      BY <3>1
  <2> QED
    BY <2>1, <2>2, NobodyLeaves
<1> QED
  BY <1>1, <1>2

\* An entry that is let in moves nobody who has left.
LEMMA EntrySettled ==
    ASSUME RowsTyped, DepartedSettled, NEW p \in Profiles, NEW e \in Entries, NEW in \in EntryInputs,
           NEW base \in Bases, PutEntry(p, e, in, base)
    PROVE  DepartedSettled'
<1>1. /\ DepartedOnlySettle(e, in) /\ UNCHANGED members
      /\ entries' = [entries EXCEPT ![e] = [body |-> in, seq |-> seq + 1]]
  BY DEF PutEntry
<1>2. ASSUME NEW m \in Departed, NEW cur \in Currencies PROVE Position(m, cur)' = 0
  <2>1. Position(m, cur) = 0 /\ m \in Members
    BY <1>2 DEF DepartedSettled, IsSettled, Departed
  <2>2. Moves(in, m, cur) \in Int /\ StoredMoves(e, m, cur) \in Int
    BY <2>1, MovesWhole
  <2>3. Moves(in, m, cur) - StoredMoves(e, m, cur) = 0
    BY <1>1, <1>2, <2>1 DEF DepartedOnlySettle, Settles
  <2>4. Moves(in, m, cur) = StoredMoves(e, m, cur)
    BY <2>2, <2>3
  <2>5. ASSUME NEW q \in Entries PROVE StoredMoves(q, m, cur)' = StoredMoves(q, m, cur)
    <3> DEFINE row == [body |-> in, seq |-> seq + 1]
    <3>1. row \in EntryRow /\ row.body = in
      BY DEF RowsTyped, EntryRow
    <3>2. row # None
      BY <3>1, NullAssumption
    <3>3. entries' = [entries EXCEPT ![e] = row] /\ entries \in [Entries -> EntryRow \cup {None}]
      BY <1>1 DEF RowsTyped
    <3> HIDE DEF row
    <3>4. CASE q = e
      <4>1. entries'[q] = row
        BY <3>3, <3>4
      <4>2. StoredMoves(q, m, cur)' = Moves(in, m, cur)
        BY <3>1, <3>2, <4>1 DEF StoredMoves
      <4> QED
        BY <2>4, <3>4, <4>2
    <3>5. CASE q # e
      BY <3>3, <3>5 DEF StoredMoves
    <3> QED
      BY <3>4, <3>5
  <2> QED
    BY <2>1, <2>5, PositionSame
<1>3. Departed' = Departed
  BY <1>1 DEF Departed
<1> QED
  BY <1>2, <1>3 DEF DepartedSettled, IsSettled

\* Whoever leaves is settled at that moment, and settled stays settled.
LEMMA MemberSettled ==
    ASSUME RowsTyped, DepartedSettled, NEW p \in Profiles, NEW m \in Members, NEW name \in Labels,
           NEW handle \in Labels \cup {None}, NEW left \in BOOLEAN, NEW base \in Bases,
           UpdateMember(p, m, name, handle, left, base)
    PROVE  DepartedSettled'
<1> DEFINE old == members[m]
           new == [old EXCEPT !.name = name, !.handle = handle, !.left = left, !.seq = seq + 1]
<1>1. /\ old # None
      /\ left /\ ~old.left => MayLeave(m)
      /\ \/ Purge(seq + 2)
         \/ members' = [members EXCEPT ![m] = new] /\ UNCHANGED entries
  BY DEF UpdateMember
<1>2. CASE Purge(seq + 2)
  BY <1>2, PurgeSettled
<1>3. CASE members' = [members EXCEPT ![m] = new] /\ UNCHANGED entries
  <2>1. members \in [Members -> MemberRow \cup {None}] /\ old \in MemberRow
    BY <1>1 DEF RowsTyped
  <2>2. new.left = left
    BY <2>1 DEF MemberRow
  <2>3. left => IsSettled(m)
    <3>1. old.left => m \in Departed
      BY <1>1 DEF Departed
    <3> QED
      BY <1>1, <3>1 DEF MayLeave, DepartedSettled
  <2> HIDE DEF old, new
  <2>4. ASSUME NEW q \in Departed' PROVE IsSettled(q)
    <3>1. CASE q = m
      BY <1>3, <2>1, <2>2, <2>3, <2>4, <3>1 DEF Departed
    <3>2. CASE q # m
      <4>1. q \in Departed
        BY <1>3, <2>1, <2>4, <3>2 DEF Departed
      <4> QED
        BY <4>1 DEF DepartedSettled
    <3> QED
      BY <3>1, <3>2
  <2> QED
    BY <1>3, <2>4, DepartedKept
<1> QED
  BY <1>1, <1>2, <1>3

\* Every handler keeps those who left settled.
LEMMA SettledStep == RowsTyped /\ DepartedSettled /\ [Next]_vars => DepartedSettled'
<1> SUFFICES ASSUME RowsTyped, DepartedSettled, [Next]_vars
             PROVE  DepartedSettled'
  OBVIOUS
<1>0. /\ seq + 1 \in Nat /\ seq + 2 \in Nat
      /\ members \in [Members -> MemberRow \cup {None}]
      /\ \A p : PlaceOf(p) \subseteq Members
  BY DEF RowsTyped, PlaceOf, Places
<1>e. UNCHANGED <<members, entries>> => DepartedSettled'
  BY NobodyLeaves DEF Departed
<1>1. ASSUME NEW p \in Profiles, NEW m \in Members, NEW name \in Labels, NEW look \in Looks,
             CreateGroup(p, m, name, look)
      PROVE  DepartedSettled'
  <2> DEFINE new == [profile |-> p, name |-> name, handle |-> None, left |-> FALSE, seq |-> seq + 1]
  <2>1. members' = [members EXCEPT ![m] = new] /\ UNCHANGED entries /\ ~new.left
    BY <1>1 DEF CreateGroup
  <2> HIDE DEF new
  <2> QED
    BY <1>0, <2>1, NobodyLeaves DEF Departed
<1>2. ASSUME NEW p \in Profiles, NEW m \in Members, NEW name \in Labels,
             NEW handle \in Labels \cup {None}, AddMember(p, m, name, handle)
      PROVE  DepartedSettled'
  <2> DEFINE new == [profile |-> None, name |-> name, handle |-> handle, left |-> FALSE, seq |-> seq + 1]
  <2>1. members' = [members EXCEPT ![m] = new] /\ UNCHANGED entries /\ ~new.left
    BY <1>2 DEF AddMember
  <2> HIDE DEF new
  <2> QED
    BY <1>0, <2>1, NobodyLeaves DEF Departed
<1>3. RosterNext => DepartedSettled'
  BY <1>1, <1>2 DEF RosterNext
<1>17. EditNext => DepartedSettled'
  BY MemberSettled DEF EditNext
<1>4. GroupNext => DepartedSettled'
  BY <1>e DEF GroupNext, UpdateGroup
<1>5. ASSUME NEW p \in Profiles, NEW name \in Labels \cup {None}, ForgetProfile(p, name)
      PROVE  DepartedSettled'
  <2>1. Forget(members, seq + 1, p, name)
    BY <1>5 DEF ForgetProfile
  <2> QED
    BY <1>0, <2>1, ForgetSettled DEF Departed
<1>6. ASSUME NEW guest \in Profiles, NEW heir \in Profiles, HandOverPlace(guest, heir)
      PROVE  DepartedSettled'
  <2>1. PICK m \in PlaceOf(guest) : members' = [members EXCEPT ![m].profile = heir, ![m].seq = seq + 1]
    BY <1>6 DEF HandOverPlace
  <2> DEFINE new == [members[m] EXCEPT !.profile = heir, !.seq = seq + 1]
  <2>2. members[m] \in MemberRow /\ members[m] # None
    BY <1>0 DEF PlaceOf, Places
  <2>3. new.left = members[m].left /\ members' = [members EXCEPT ![m] = new]
    BY <1>0, <2>1, <2>2 DEF MemberRow
  <2>4. UNCHANGED entries
    BY <1>6 DEF HandOverPlace
  <2> HIDE DEF new
  <2> QED
    BY <1>0, <2>2, <2>3, <2>4, NobodyLeaves DEF Departed
<1>7. ASSUME NEW guest \in Profiles, NEW heir \in Profiles, HandOverBeside(guest, heir)
      PROVE  DepartedSettled'
  <2>1. PICK g \in PlaceOf(guest), h \in PlaceOf(heir) :
            \/ Forget([members EXCEPT ![h].left = FALSE, ![h].seq = seq + 1], seq + 2, guest, None)
            \/ Forget(members, seq + 1, guest, None)
    BY <1>7 DEF HandOverBeside
  <2> DEFINE back == [members[h] EXCEPT !.left = FALSE, !.seq = seq + 1]
             roster == [members EXCEPT ![h] = back]
  <2>2. back \in MemberRow /\ ~back.left
        /\ [members EXCEPT ![h].left = FALSE, ![h].seq = seq + 1] = roster
    <3>1. members[h] \in MemberRow
      BY <1>0 DEF PlaceOf, Places
    <3> QED
      BY <1>0, <3>1 DEF MemberRow
  <2> HIDE DEF back
  <2>3. roster \in [Members -> MemberRow \cup {None}]
        /\ \A m \in Members : (roster[m] # None /\ roster[m].left) => m \in Departed
    BY <1>0, <2>2 DEF Departed
  <2> HIDE DEF roster
  <2>4. CASE Forget(members, seq + 1, guest, None)
    BY <1>0, <2>4, ForgetSettled DEF Departed
  <2>5. CASE Forget(roster, seq + 2, guest, None)
    BY <1>0, <2>3, <2>5, ForgetSettled
  <2> QED
    BY <2>1, <2>2, <2>4, <2>5
<1>8. AccountNext => DepartedSettled'
  BY <1>5, <1>6, <1>7 DEF AccountNext
<1>9. ASSUME NEW p \in Profiles, NEW m \in Members, Claimable(m),
             Arrive(p, m, [members[m] EXCEPT !.profile = p])
      PROVE  DepartedSettled'
  <2>1. members[m] \in MemberRow /\ ~members[m].left
    BY <1>0, <1>9 DEF Claimable
  <2>2. [members[m] EXCEPT !.profile = p] \in MemberRow /\ ~[members[m] EXCEPT !.profile = p].left
    BY <2>1 DEF MemberRow
  <2> QED
    BY <1>9, <2>2, ArriveSettled
<1>10. ASSUME NEW t \in Tokens, NEW p \in Profiles, RedeemInvite(p, t)
       PROVE  DepartedSettled'
  <2>1. Claimable(invites[t].member) /\ invites[t].member \in Members
        /\ Arrive(p, invites[t].member, [members[invites[t].member] EXCEPT !.profile = p])
    BY <1>10 DEF RedeemInvite, InviteOpen, RowsTyped, InviteRow
  <2> QED
    BY <1>9, <2>1
<1>11. ASSUME NEW t \in Tokens, NEW p \in Profiles, Rejoin(p, t)
       PROVE  DepartedSettled'
  <2>1. PICK m \in PlaceOf(p) : Arrive(p, m, [members[m] EXCEPT !.left = FALSE])
    BY <1>11 DEF Rejoin
  <2>2. members[m] \in MemberRow /\ m \in Members
    BY <1>0 DEF PlaceOf, Places
  <2>3. [members[m] EXCEPT !.left = FALSE] \in MemberRow /\ ~[members[m] EXCEPT !.left = FALSE].left
    BY <2>2 DEF MemberRow
  <2> QED
    BY <2>1, <2>2, <2>3, ArriveSettled
<1>12. ASSUME NEW t \in Tokens, NEW p \in Profiles, NEW m \in Members, ClaimPlaceholder(p, t, m)
       PROVE  DepartedSettled'
  BY <1>9, <1>12 DEF ClaimPlaceholder
<1>13. ASSUME NEW t \in Tokens, NEW p \in Profiles, NEW m \in Members, NEW name \in Labels,
              JoinAsNew(p, t, m, name)
       PROVE  DepartedSettled'
  <2> DEFINE new == [profile |-> p, name |-> name, handle |-> None, left |-> FALSE, seq |-> 0]
  <2>1. Arrive(p, m, new)
    BY <1>13 DEF JoinAsNew
  <2>2. new \in MemberRow /\ ~new.left
    BY DEF MemberRow
  <2> HIDE DEF new
  <2> QED
    BY <2>1, <2>2, ArriveSettled
<1>14. DoorsNext => DepartedSettled'
  <2>1. ASSUME NEW t \in Tokens, NEW p \in Profiles
        PROVE  /\ Expire(t) => UNCHANGED <<members, entries>>
               /\ CreateGroupLink(p, t) => UNCHANGED <<members, entries>>
               /\ \A m \in Members : CreateInvite(p, m, t) => UNCHANGED <<members, entries>>
    BY DEF Expire, CreateGroupLink, CreateInvite
  <2>2. ASSUME NEW t \in Tokens PROVE Expire(t) => UNCHANGED <<members, entries>>
    BY DEF Expire
  <2> QED
    BY <1>e, <1>10, <1>11, <1>12, <1>13, <2>1, <2>2 DEF DoorsNext
<1>15. LedgerNext => DepartedSettled'
  BY EntrySettled DEF LedgerNext
<1>16. RevokeNext \/ UNCHANGED vars => DepartedSettled'
  BY <1>e DEF RevokeNext, RevokeGroupLink, vars, tables
<1> QED
  BY <1>3, <1>4, <1>8, <1>14, <1>15, <1>16, <1>17 DEF Next

\* Nobody who has left the group owes or is owed anything, in any currency: they
\* leave with nothing open, and no entry moves them afterwards.
THEOREM DepartedHolds == Spec => []DepartedSettled
<1>1. Init => DepartedSettled
  BY DEF Init, DepartedSettled, Departed
<1> QED
  BY <1>1, RowsCorrect, SettledStep, PTL DEF Spec

-----------------------------------------------------------------------------
(* The group object implements Participation: every handler is one of its   *)
(* steps or none of them, for every set of accounts, members, entries and    *)
(* tokens.                                                                   *)

Roster == [Members -> MemberRow \cup {None}]

\* The standing read off the one row an account holds.
LEMMA StandingAt ==
    ASSUME NEW roster \in Roster, OnePlaceIn(roster), NEW m \in Members,
           roster[m] # None, roster[m].profile \in Profiles
    PROVE  StandingIn(roster, roster[m].profile) = Standing(roster[m].left)
<1>1. Places(roster, roster[m].profile) = {m}
  BY IdsAssumption DEF Places, OnePlaceIn
<1> QED
  BY <1>1 DEF StandingIn, Standing

\* An account without a place is nobody here.
LEMMA StandingNowhere ==
    ASSUME NEW roster \in Roster, NEW p \in Profiles, Places(roster, p) = {}
    PROVE  StandingIn(roster, p) = None
BY DEF StandingIn

\* Accounts whose rows are the same rows, current or left as before, stand as
\* before.
LEMMA StandingSame ==
    ASSUME NEW old \in Roster, NEW new \in Roster, NEW p \in Profiles,
           Places(new, p) = Places(old, p),
           \A m \in Places(old, p) : new[m].left = old[m].left
    PROVE  StandingIn(new, p) = StandingIn(old, p)
BY DEF StandingIn

\* Who is active, in rows and in standings.
LEMMA ActiveAccounts ==
    ASSUME NEW roster \in Roster, NEW p \in Profiles
    PROVE  StandingIn(roster, p) = "active" <=> \E m \in ActiveIn(roster) : roster[m].profile = p
<1>1. None # "active"
  BY NullAssumption
<1> QED
  BY <1>1, IdsAssumption DEF StandingIn, ActiveIn, Places

\* Nobody active is left of a roster once the account that goes is.
LEMMA LastOne ==
    ASSUME NEW roster \in Roster, NEW p \in Profiles, OnePlaceIn(roster),
           ActiveIn(roster) # {}, ActiveIn(roster) \ Places(roster, p) = {}
    PROVE  {q \in Profiles : StandingIn(roster, q) = "active"} = {p}
<1>1. \A m \in ActiveIn(roster) : roster[m].profile = p
  BY DEF Places
<1>2. \E m \in ActiveIn(roster) : roster[m].profile = p
  BY <1>1
<1> QED
  BY <1>1, <1>2, ActiveAccounts

\* Somebody active is left of it.
LEMMA NotLast ==
    ASSUME NEW roster \in Roster, NEW p \in Profiles,
           ActiveIn(roster) \ Places(roster, p) # {}
    PROVE  {q \in Profiles : StandingIn(roster, q) = "active"} # {p}
<1>1. PICK m \in ActiveIn(roster) : m \notin Places(roster, p)
  OBVIOUS
<1>2. /\ roster[m] \in MemberRow /\ roster[m].profile \in Profiles
      /\ roster[m].profile # p
  BY <1>1 DEF Roster, ActiveIn, Places, MemberRow
<1>3. StandingIn(roster, roster[m].profile) = "active"
  BY <1>1, <1>2, ActiveAccounts
<1> QED
  BY <1>2, <1>3

\* A group that is collected keeps no standing and ends.
LEMMA PurgeEnds ==
    ASSUME NEW s \in Nat, Purge(s)
    PROVE  Status' = "purged" /\ StandingsIn(members)' = [q \in Profiles |-> None]
<1>1. Status' = "purged"
  BY NullAssumption DEF Purge, Status, Live
<1>2. \A q \in Profiles : StandingIn(members', q) = None
  BY DEF Purge, StandingIn, Places
<1> QED
  BY <1>1, <1>2 DEF StandingsIn

\* Forgetting ends the group or takes one standing out of the roster.
LEMMA ForgetStep ==
    ASSUME NEW roster \in Roster, NEW s \in Nat, NEW p \in Profiles, Live,
           NEW name \in Labels \cup {None},
           Forget(roster, s, p, name)
    PROVE  \/ /\ ActiveIn(roster) \ Places(roster, p) = {}
              /\ Purge(s)
           \/ /\ ActiveIn(roster) \ Places(roster, p) # {}
              /\ Live'
              /\ StandingsIn(members)' = [StandingsIn(roster) EXCEPT ![p] = None]
<1>1. CASE ActiveIn(roster) \ Places(roster, p) = {}
  BY <1>1 DEF Forget
<1>2. CASE ActiveIn(roster) \ Places(roster, p) # {}
  <2> DEFINE gone(m) == [roster[m] EXCEPT !.profile = None, !.seq = s,
                           !.name = IF name = None THEN @ ELSE name]
  <2>1. /\ Live'
        /\ members' = [m \in Members |-> IF m \in Places(roster, p) THEN gone(m) ELSE roster[m]]
    BY <1>2 DEF Forget, Live
  <2>2. \A m \in Places(roster, p) : gone(m) \in MemberRow /\ gone(m).profile = None
    BY DEF Places, MemberRow, Roster
  <2> HIDE DEF gone
  <2>3. members' \in Roster
    BY <2>1, <2>2 DEF Roster
  <2>4. Places(members', p) = {}
    BY <2>1, <2>2, IdsAssumption DEF Places
  <2>5. StandingIn(members', p) = None
    BY <2>3, <2>4, StandingNowhere
  <2>6. ASSUME NEW q \in Profiles, q # p
        PROVE  StandingIn(members', q) = StandingIn(roster, q)
    <3>1. Places(members', q) = Places(roster, q)
      BY <2>1, <2>2, <2>6, IdsAssumption DEF Places
    <3>2. \A m \in Places(roster, q) : members'[m].left = roster[m].left
      BY <2>1, <2>6 DEF Places
    <3> QED
      BY <2>3, <3>1, <3>2, StandingSame
  <2> QED
    BY <1>2, <2>1, <2>5, <2>6 DEF StandingsIn
<1> QED
  BY <1>1, <1>2

\* An arrival makes one account active and touches no other.
LEMMA ArriveStep ==
    ASSUME RowsTyped, Safe, Live, NEW p \in Profiles, NEW m \in Members, NEW row \in MemberRow,
           row.profile = p, ~row.left,
           members[m] = None \/ members[m].profile \in {p, None},
           PlaceOf(p) \subseteq {m},
           \A n \in PlaceOf(p) : members[n].left,
           Arrive(p, m, row)
    PROVE  Abstract!Enter(p)
<1> DEFINE new == [row EXCEPT !.seq = seq + 1]
<1>1. new \in MemberRow /\ new.profile = p /\ ~new.left /\ new # None
  BY NullAssumption DEF MemberRow, RowsTyped
<1>2. members' = [members EXCEPT ![m] = new] /\ Live'
  BY DEF Arrive, Live
<1> HIDE DEF new
<1>3. members \in Roster /\ members' \in Roster
  BY <1>1, <1>2 DEF Roster, RowsTyped
<1>4. Places(members', p) = {m} /\ ~members'[m].left
  BY <1>1, <1>2 DEF PlaceOf, Places, RowsTyped
<1>5. StandingIn(members', p) = "active"
  BY <1>4 DEF StandingIn
<1>6. ASSUME NEW q \in Profiles, q # p
      PROVE  StandingIn(members', q) = StandingIn(members, q)
  <2>1. Places(members', q) = Places(members, q)
    BY <1>1, <1>2, <1>6, IdsAssumption DEF Places, RowsTyped
  <2>2. \A n \in Places(members, q) : members'[n].left = members[n].left
    BY <1>2, <1>6, IdsAssumption DEF Places, RowsTyped
  <2> QED
    BY <1>3, <2>1, <2>2, StandingSame
<1>7. StandingIn(members, p) # "active"
  BY NullAssumption DEF StandingIn, PlaceOf
<1>8. StandingsIn(members)' = [StandingsIn(members) EXCEPT ![p] = "active"]
  BY <1>5, <1>6 DEF StandingsIn
<1> QED
  BY <1>2, <1>7, <1>8 DEF Abstract!Enter, Status, StandingsIn

\* A handler that leaves the group row, the tombstone and the roster alone.
LEMMA StandingUntouched ==
    ASSUME UNCHANGED <<tombstone, members>>, Live' <=> Live
    PROVE  UNCHANGED <<Status, StandingsIn(members)>>
BY DEF Status, StandingsIn, StandingIn, Places

\* Whatever happens in Participation changes somebody's standing.
LEMMA Happening ==
    ASSUME Abstract!Happens
    PROVE  StandingsIn(members)' # StandingsIn(members)
<1> DEFINE was == StandingsIn(members)
           is == StandingsIn(members')
<1>1. was = [q \in Profiles |-> was[q]] /\ is = [q \in Profiles |-> is[q]]
  BY DEF StandingsIn
<1>2. None # "active" /\ StandingsIn(members)' = is
  BY NullAssumption DEF StandingsIn, StandingIn, Places
<1>3. PICK p \in Profiles :
        \/ Abstract!Enter(p) \/ Abstract!Leave(p) \/ Abstract!Forget(p) \/ Abstract!End(p)
        \/ \E h \in Profiles : Abstract!HandOver(p, h) \/ Abstract!ReturnFor(p, h)
  BY DEF Abstract!Happens
<1>4. \E q \in Profiles : is[q] # was[q]
  <2>1. CASE Abstract!Enter(p)
    BY <1>1, <1>2, <2>1 DEF Abstract!Enter
  <2>2. CASE Abstract!Leave(p)
    BY <1>1, <1>2, <2>2 DEF Abstract!Leave
  <2>3. CASE Abstract!Forget(p)
    BY <1>1, <1>2, <2>3 DEF Abstract!Forget
  <2>4. CASE Abstract!End(p)
    BY <1>1, <1>2, <2>4 DEF Abstract!End, Abstract!Active
  <2>5. ASSUME NEW h \in Profiles, Abstract!HandOver(p, h) \/ Abstract!ReturnFor(p, h)
        PROVE  is[h] # was[h]
    BY <1>1, <1>2, <2>5 DEF Abstract!HandOver, Abstract!ReturnFor
  <2> QED
    BY <1>3, <2>1, <2>2, <2>3, <2>4, <2>5
<1> QED
  BY <1>2, <1>4 DEF was

\* Every handler is a step of Participation or leaves it where it is.
LEMMA ImplementsStep ==
    RowsTyped /\ Safe /\ [Next]_vars => [Abstract!Next]_(Abstract!vars)
<1> SUFFICES ASSUME RowsTyped, Safe, [Next]_vars
             PROVE  \/ \E p \in Profiles : \/ Abstract!Enter(p) \/ Abstract!Leave(p)
                                           \/ Abstract!Forget(p) \/ Abstract!End(p)
                    \/ \E g, h \in Profiles : Abstract!HandOver(g, h) \/ Abstract!ReturnFor(g, h)
                    \/ UNCHANGED <<Status, StandingsIn(members)>>
  BY Happening DEF Abstract!Next, Abstract!Happens, Abstract!vars
<1>0. /\ seq + 1 \in Nat /\ seq + 2 \in Nat
      /\ members \in Roster
      /\ OnePlaceIn(members)
      /\ Live => ActiveIn(members) # {}
  BY DEF RowsTyped, Roster, Safe, OnePlacePerAccount, OnePlaceIn, Owned, ActiveIn
<1>1. ASSUME NEW p \in Profiles, NEW m \in Members, NEW name \in Labels, NEW look \in Looks,
             CreateGroup(p, m, name, look)
      PROVE  Abstract!Enter(p)
  <2> DEFINE row == [profile |-> p, name |-> name, handle |-> None,
                     left |-> FALSE, seq |-> seq + 1]
  <2>0. row \in MemberRow /\ row.profile = p /\ ~row.left
    BY <1>0 DEF MemberRow
  <2>1. row \in MemberRow /\ row # None /\ row.profile = p /\ ~row.left
    BY <2>0, NullAssumption
  <2>2. [name |-> name, look |-> look, seq |-> seq + 1] # None
    BY <1>0, NullAssumption DEF MetaRow
  <2>3. /\ ~Live /\ Live' /\ tombstone = None
        /\ \A n \in Members : members[n] = None
        /\ members' = [members EXCEPT ![m] = row]
    BY <1>1, <2>2 DEF CreateGroup, Creatable, Safe, LiveXorGone, Live
  <2> HIDE DEF row
  <2>4. \A q \in Profiles : Places(members, q) = {}
    BY <2>3 DEF Places
  <2>5. \A q \in Profiles : Places(members', q) = IF q = p THEN {m} ELSE {}
    BY <2>1, <2>3 DEF Places, RowsTyped
  <2>6. StandingIn(members', p) = "active" /\ \A q \in Profiles : StandingIn(members, q) = None
    BY <2>1, <2>3, <2>4, <2>5 DEF StandingIn, RowsTyped
  <2>7. \A q \in Profiles : q # p => StandingIn(members', q) = None
    BY <2>5 DEF StandingIn
  <2> QED
    BY <2>3, <2>6, <2>7, NullAssumption DEF Abstract!Enter, Status, StandingsIn
<1>2. ASSUME NEW p \in Profiles, NEW m \in Members, NEW name \in Labels,
             NEW handle \in Labels \cup {None}, AddMember(p, m, name, handle)
      PROVE  UNCHANGED <<Status, StandingsIn(members)>>
  <2> DEFINE row == [profile |-> None, name |-> name, handle |-> handle,
                     left |-> FALSE, seq |-> seq + 1]
  <2>1. /\ Live' /\ Live /\ members[m] = None
        /\ members' = [members EXCEPT ![m] = row]
    BY <1>2 DEF AddMember, Live
  <2>2. row.profile = None /\ row \in MemberRow
    BY <1>0 DEF MemberRow
  <2> HIDE DEF row
  <2>3. members' \in Roster
    BY <1>0, <2>1, <2>2 DEF Roster
  <2>4. ASSUME NEW q \in Profiles
        PROVE  StandingIn(members', q) = StandingIn(members, q)
    <3>1. Places(members', q) = Places(members, q)
      BY <2>1, <2>2, IdsAssumption DEF Places, RowsTyped
    <3>2. \A n \in Places(members, q) : members'[n].left = members[n].left
      BY <2>1 DEF Places, RowsTyped
    <3> QED
      BY <1>0, <2>3, <3>1, <3>2, StandingSame
  <2> QED
    BY <2>1, <2>4 DEF Status, StandingsIn
<1>3. ASSUME NEW p \in Profiles, NEW m \in Members, NEW name \in Labels,
             NEW handle \in Labels \cup {None}, NEW left \in BOOLEAN, NEW base \in Bases,
             UpdateMember(p, m, name, handle, left, base)
      PROVE  \/ \E q \in Profiles : Abstract!Leave(q) \/ Abstract!End(q)
             \/ UNCHANGED <<Status, StandingsIn(members)>>
  <2> DEFINE old == members[m]
             new == [old EXCEPT !.name = name, !.handle = handle,
                                !.left = left, !.seq = seq + 1]
             roster == [members EXCEPT ![m] = new]
             leaving == left /\ ~old.left
  <2>1. old \in MemberRow /\ old # None /\ Live
    BY <1>3 DEF UpdateMember, RowsTyped
  <2>2. new \in MemberRow /\ new # None /\ new.profile = old.profile /\ new.left = left
    BY <1>0, <2>1, NullAssumption DEF MemberRow
  <2>3. \/ /\ leaving /\ ActiveIn(roster) = {} /\ Purge(seq + 2)
        \/ /\ ~(leaving /\ ActiveIn(roster) = {})
           /\ members' = roster /\ UNCHANGED <<meta, tombstone>>
    BY <1>3 DEF UpdateMember
  <2>4. old.left /\ ~left => old.profile = None
    BY <1>3 DEF UpdateMember
  <2>5. roster \in Roster
    BY <1>0, <2>2 DEF Roster
  <2>6. old.profile \in Profiles \cup {None} /\ old.left \in BOOLEAN
    BY <2>1 DEF MemberRow
  <2> HIDE DEF new
  <2>7. \A q \in Profiles : Places(roster, q) = Places(members, q)
    BY <2>1, <2>2 DEF Places, RowsTyped
  <2>8. \A n \in Members : n # m => roster[n] = members[n]
    BY DEF RowsTyped
  <2>9. roster[m] = new
    BY DEF RowsTyped
  <2>10. ActiveIn(members) \ {m} \subseteq ActiveIn(roster)
    BY <2>8 DEF ActiveIn
  <2> HIDE DEF roster
  <2>11. CASE leaving /\ ActiveIn(roster) = {} /\ Purge(seq + 2)
    <3>1. ActiveIn(members) = {m}
      BY <1>0, <2>1, <2>10, <2>11
    <3>2. old.profile \in Profiles /\ m \in Places(members, old.profile)
      BY <2>1, <2>6, <3>1 DEF ActiveIn, Places
    <3>3. {q \in Profiles : StandingIn(members, q) = "active"} = {old.profile}
      <4>1. ActiveIn(members) \ Places(members, old.profile) = {} /\ ActiveIn(members) # {}
        BY <3>1, <3>2
      <4> QED
        BY <1>0, <3>2, <4>1, LastOne
    <3>4. Status' = "purged" /\ StandingsIn(members)' = [q \in Profiles |-> None]
      BY <1>0, <2>11, PurgeEnds
    <3>5. Abstract!Active = {old.profile}
      BY <3>3 DEF Abstract!Active, StandingsIn
    <3>6. Abstract!End(old.profile)
      BY <2>1, <3>4, <3>5 DEF Abstract!End, Status
    <3> QED
      BY <3>2, <3>6
  <2>12. CASE /\ ~(leaving /\ ActiveIn(roster) = {})
              /\ members' = roster /\ UNCHANGED <<meta, tombstone>>
    <3>1. Live' /\ Status' = Status /\ Status = "live"
      BY <2>1, <2>12 DEF Status, Live
    <3>2. ASSUME NEW q \in Profiles, q # old.profile \/ ~leaving
          PROVE  StandingIn(members', q) = StandingIn(members, q)
      <4>1. \A n \in Places(members, q) : members'[n].left = members[n].left
        BY <2>1, <2>2, <2>4, <2>6, <2>8, <2>9, <2>12, <3>2, IdsAssumption DEF Places
      <4>2. Places(members', q) = Places(members, q)
        BY <2>7, <2>12
      <4> QED
        BY <1>0, <2>5, <2>12, <4>1, <4>2, StandingSame
    <3>3. CASE leaving /\ old.profile # None
      <4>1. old.profile \in Profiles
        BY <2>6, <3>3
      <4>2. OnePlaceIn(roster)
        BY <1>0, <2>2, <2>8, <2>9, <2>1 DEF OnePlaceIn
      <4>3. StandingIn(members', old.profile) = "left"
        BY <2>2, <2>5, <2>9, <2>12, <3>3, <4>1, <4>2, StandingAt DEF Standing
      <4>4. StandingIn(members, old.profile) = "active"
        BY <1>0, <2>1, <3>3, <4>1, StandingAt DEF Standing
      <4>5. ActiveIn(roster) \ Places(roster, old.profile) # {}
        <5>1. Places(members, old.profile) = {m}
          BY <1>0, <2>1, <3>3, <4>1 DEF OnePlaceIn, Places
        <5>2. m \notin ActiveIn(roster)
          BY <2>2, <2>9, <3>3 DEF ActiveIn
        <5> QED
          BY <2>7, <2>12, <3>3, <4>1, <5>1, <5>2
      <4>6. ActiveIn(members) \ Places(members, old.profile) # {}
        <5>1. ActiveIn(roster) \ {m} \subseteq ActiveIn(members)
          BY <2>8 DEF ActiveIn
        <5>2. m \in Places(members, old.profile)
          BY <2>1, <3>3, <4>1 DEF Places
        <5> QED
          BY <2>7, <4>1, <4>5, <5>1, <5>2
      <4>7. {q \in Profiles : StandingIn(members, q) = "active"} # {old.profile}
        BY <1>0, <4>1, <4>6, NotLast
      <4>8. Abstract!Active # {old.profile}
        BY <4>7 DEF Abstract!Active, StandingsIn
      <4>9. StandingsIn(members)' = [StandingsIn(members) EXCEPT ![old.profile] = "left"]
        BY <3>2, <4>1, <4>3 DEF StandingsIn
      <4>10. Abstract!Leave(old.profile)
        BY <3>1, <4>1, <4>4, <4>8, <4>9 DEF Abstract!Leave, StandingsIn
      <4> QED
        BY <4>1, <4>10
    <3>4. CASE ~(leaving /\ old.profile # None)
      BY <3>1, <3>2, <3>4, IdsAssumption DEF StandingsIn
    <3> QED
      BY <3>3, <3>4
  <2> QED
    BY <2>3, <2>11, <2>12
<1>4. ASSUME NEW p \in Profiles, NEW name \in Labels, NEW look \in Looks, NEW base \in Bases,
             UpdateGroup(p, name, look, base)
      PROVE  UNCHANGED <<Status, StandingsIn(members)>>
  <2>1. [name |-> name, look |-> look, seq |-> seq + 1] # None
    BY <1>0, NullAssumption DEF MetaRow
  <2> QED
    BY <1>4, <2>1, StandingUntouched DEF UpdateGroup, Live
<1>5. ASSUME NEW p \in Profiles, NEW s \in Nat, NEW name \in Labels \cup {None},
             Live, PlaceOf(p) # {}, Forget(members, s, p, name)
      PROVE  Abstract!Forget(p) \/ Abstract!End(p)
  <2>1. StandingIn(members, p) # None
    BY <1>5, NullAssumption DEF StandingIn, PlaceOf
  <2>2. CASE ActiveIn(members) \ Places(members, p) = {} /\ Purge(s)
    <3>1. {q \in Profiles : StandingIn(members, q) = "active"} = {p}
      BY <1>0, <1>5, <2>2, LastOne
    <3>2. Abstract!Active = {p}
      BY <3>1 DEF Abstract!Active, StandingsIn
    <3> QED
      BY <1>5, <2>2, <3>2, PurgeEnds DEF Abstract!End, Status
  <2>3. CASE /\ ActiveIn(members) \ Places(members, p) # {}
             /\ Live'
             /\ StandingsIn(members)' = [StandingsIn(members) EXCEPT ![p] = None]
    <3>1. {q \in Profiles : StandingIn(members, q) = "active"} # {p}
      BY <1>0, <2>3, NotLast
    <3>2. Abstract!Active # {p}
      BY <3>1 DEF Abstract!Active, StandingsIn
    <3> QED
      BY <1>5, <2>1, <2>3, <3>2 DEF Abstract!Forget, Status, StandingsIn
  <2> QED
    BY <1>0, <1>5, <2>2, <2>3, ForgetStep
<1>6. ASSUME NEW p \in Profiles, NEW name \in Labels \cup {None}, ForgetProfile(p, name)
      PROVE  Abstract!Forget(p) \/ Abstract!End(p)
  BY <1>0, <1>5, <1>6 DEF ForgetProfile
<1>7. ASSUME NEW p \in Profiles, NEW heir \in Profiles, HandOverPlace(p, heir)
      PROVE  Abstract!HandOver(p, heir)
  <2>1. PICK m \in PlaceOf(p) :
          members' = [members EXCEPT ![m].profile = heir, ![m].seq = seq + 1]
    BY <1>7 DEF HandOverPlace
  <2> DEFINE row == [members[m] EXCEPT !.profile = heir, !.seq = seq + 1]
  <2>2. m \in Members /\ members[m] \in MemberRow /\ members[m] # None /\ members[m].profile = p
    BY DEF PlaceOf, Places, RowsTyped
  <2>3. row \in MemberRow /\ row.profile = heir /\ row.left = members[m].left
    BY <1>0, <2>2 DEF MemberRow
  <2>4. row # None
    BY <2>3, NullAssumption
  <2>5. members' = [members EXCEPT ![m] = row]
    BY <2>1, <2>2 DEF MemberRow, RowsTyped
  <2>6. Live /\ Live' /\ UNCHANGED tombstone /\ Places(members, heir) = {}
    BY <1>7 DEF HandOverPlace, Live, PlaceOf
  <2>7. m \in Places(members, p) /\ p # heir
    BY <2>2, <2>6 DEF Places
  <2> HIDE DEF row
  <2>8. Places(members, p) = {m}
    BY <1>0, <2>2, IdsAssumption DEF OnePlaceIn, Places
  <2>9. members' \in Roster
    BY <1>0, <2>3, <2>5 DEF Roster
  <2>10. Places(members', heir) = {m} /\ Places(members', p) = {} /\ members'[m] = row
    BY <2>2, <2>3, <2>4, <2>5, <2>6, <2>7, <2>8 DEF Places, RowsTyped
  <2>11. StandingIn(members', heir) = StandingIn(members, p)
    BY <2>3, <2>8, <2>10 DEF StandingIn
  <2>12. StandingIn(members', p) = None /\ StandingIn(members, heir) = None
    BY <2>6, <2>10 DEF StandingIn
  <2>13. StandingIn(members, p) # None
    BY <2>8, NullAssumption DEF StandingIn
  <2>14. ASSUME NEW q \in Profiles, q # p, q # heir
         PROVE  StandingIn(members', q) = StandingIn(members, q)
    <3>1. Places(members', q) = Places(members, q)
      BY <2>2, <2>3, <2>5, <2>14 DEF Places, RowsTyped
    <3>2. \A n \in Places(members, q) : members'[n].left = members[n].left
      BY <2>2, <2>5, <2>14 DEF Places, RowsTyped
    <3> QED
      BY <1>0, <2>9, <3>1, <3>2, StandingSame
  <2>15. StandingsIn(members)' =
           [StandingsIn(members) EXCEPT ![heir] = StandingsIn(members)[p], ![p] = None]
    BY <2>7, <2>11, <2>12, <2>14 DEF StandingsIn
  <2> QED
    BY <2>6, <2>12, <2>13, <2>15 DEF Abstract!HandOver, Status, StandingsIn, Live
<1>8. ASSUME NEW p \in Profiles, NEW heir \in Profiles, HandOverBeside(p, heir)
      PROVE  Abstract!ReturnFor(p, heir) \/ Abstract!Forget(p) \/ Abstract!End(p)
  <2>1. PICK g \in PlaceOf(p), h \in PlaceOf(heir) :
         IF members[h].left /\ ~members[g].left
         THEN Forget([members EXCEPT ![h].left = FALSE, ![h].seq = seq + 1], seq + 2, p, None)
         ELSE Forget(members, seq + 1, p, None)
    BY <1>8 DEF HandOverBeside
  <2>2. /\ h \in Members /\ members[h] \in MemberRow /\ members[h] # None
        /\ members[h].profile = heir /\ p # heir /\ Live
        /\ g \in Members /\ members[g] # None /\ members[g].profile = p
    BY <1>8 DEF PlaceOf, Places, RowsTyped, HandOverBeside
  <2>3. CASE members[h].left /\ ~members[g].left
    <3> DEFINE row == [members[h] EXCEPT !.left = FALSE, !.seq = seq + 1]
               roster == [members EXCEPT ![h] = row]
    <3>1. row \in MemberRow /\ row.profile = heir /\ ~row.left
      BY <1>0, <2>2 DEF MemberRow
    <3>2. row # None
      BY <3>1, NullAssumption
    <3>3. [members EXCEPT ![h].left = FALSE, ![h].seq = seq + 1] = roster
      BY <2>2 DEF MemberRow, RowsTyped
    <3>4. Forget(roster, seq + 2, p, None)
      BY <2>1, <2>3, <3>3
    <3> HIDE DEF row
    <3>5. roster \in Roster /\ roster[h] = row
      BY <1>0, <2>2, <3>1 DEF Roster
    <3>6. \A n \in Members : n # h => roster[n] = members[n]
      BY DEF RowsTyped
    <3> HIDE DEF roster
    <3>7. \A q \in Profiles : Places(roster, q) = Places(members, q)
      BY <2>2, <3>1, <3>2, <3>5, <3>6 DEF Places
    <3>8. ASSUME NEW q \in Profiles, q # heir
          PROVE  StandingIn(roster, q) = StandingIn(members, q)
      <4>1. \A n \in Places(members, q) : roster[n].left = members[n].left
        BY <2>2, <3>6, <3>8 DEF Places
      <4> QED
        BY <1>0, <3>5, <3>7, <4>1, StandingSame
    <3>9. h \in ActiveIn(roster) /\ h \notin Places(roster, p)
      BY <2>2, <3>1, <3>2, <3>5, IdsAssumption DEF ActiveIn, Places
    <3>10. StandingIn(roster, heir) = "active"
      BY <3>1, <3>5, <3>9, ActiveAccounts
    <3>11. StandingIn(members, heir) = "left" /\ StandingIn(members, p) = "active"
      BY <1>0, <2>2, <2>3, StandingAt DEF Standing
    <3>12. Live' /\ StandingsIn(members)' = [StandingsIn(roster) EXCEPT ![p] = None]
      BY <1>0, <2>2, <3>4, <3>5, <3>9, ForgetStep
    <3>13. StandingsIn(members)' =
             [StandingsIn(members) EXCEPT ![heir] = "active", ![p] = None]
      BY <2>2, <3>8, <3>10, <3>12 DEF StandingsIn
    <3> QED
      BY <2>2, <3>11, <3>12, <3>13 DEF Abstract!ReturnFor, Status, StandingsIn
  <2>4. CASE ~(members[h].left /\ ~members[g].left)
    <3>1. Forget(members, seq + 1, p, None)
      BY <2>1, <2>4
    <3> QED
      BY <1>0, <1>5, <2>2, <3>1
  <2> QED
    BY <2>3, <2>4
<1>9. ASSUME NEW p \in Profiles, NEW m \in Members, NEW t \in Tokens, CreateInvite(p, m, t)
      PROVE  UNCHANGED <<Status, StandingsIn(members)>>
  BY <1>9, StandingUntouched DEF CreateInvite, Live
<1>10. ASSUME NEW p \in Profiles, NEW t \in Tokens, CreateGroupLink(p, t)
       PROVE  UNCHANGED <<Status, StandingsIn(members)>>
  BY <1>10, StandingUntouched DEF CreateGroupLink, Live
<1>11. ASSUME NEW p \in Profiles, RevokeGroupLink(p)
       PROVE  UNCHANGED <<Status, StandingsIn(members)>>
  BY <1>11, StandingUntouched DEF RevokeGroupLink, Live
<1>12. ASSUME NEW t \in Tokens, Expire(t)
       PROVE  UNCHANGED <<Status, StandingsIn(members)>>
  <2>1. UNCHANGED <<meta, tombstone, members>>
    BY <1>12 DEF Expire
  <2> QED
    BY <2>1, StandingUntouched DEF Live
<1>13. ASSUME NEW p \in Profiles, NEW t \in Tokens, RedeemInvite(p, t)
       PROVE  Abstract!Enter(p)
  <2> DEFINE m == invites[t].member
             row == [members[m] EXCEPT !.profile = p]
  <2>1. /\ m \in Members /\ members[m] \in MemberRow /\ members[m].profile = None
        /\ ~members[m].left /\ PlaceOf(p) = {} /\ Live /\ Arrive(p, m, row)
    BY <1>13 DEF RedeemInvite, InviteOpen, Claimable, RowsTyped, InviteRow
  <2>2. row \in MemberRow /\ row.profile = p /\ ~row.left
    BY <2>1 DEF MemberRow
  <2> HIDE DEF m, row
  <2> QED
    BY <2>1, <2>2, ArriveStep
<1>14. ASSUME NEW p \in Profiles, NEW t \in Tokens, Rejoin(p, t)
       PROVE  Abstract!Enter(p)
  <2>1. PICK m \in PlaceOf(p) :
          members[m].left /\ Arrive(p, m, [members[m] EXCEPT !.left = FALSE])
    BY <1>14 DEF Rejoin
  <2> DEFINE row == [members[m] EXCEPT !.left = FALSE]
  <2>2. m \in Members /\ members[m] \in MemberRow /\ members[m].profile = p /\ members[m] # None
    BY DEF PlaceOf, Places, RowsTyped
  <2>3. row \in MemberRow /\ row.profile = p /\ ~row.left
    BY <2>2 DEF MemberRow
  <2>4. PlaceOf(p) \subseteq {m}
    BY <2>2, IdsAssumption DEF PlaceOf, Places, Safe, OnePlacePerAccount
  <2>5. Live /\ Arrive(p, m, row)
    BY <1>14, <2>1 DEF Rejoin
  <2> HIDE DEF row
  <2> QED
    BY <2>1, <2>2, <2>3, <2>4, <2>5, ArriveStep
<1>15. ASSUME NEW p \in Profiles, NEW t \in Tokens, NEW m \in Members, ClaimPlaceholder(p, t, m)
       PROVE  Abstract!Enter(p)
  <2> DEFINE row == [members[m] EXCEPT !.profile = p]
  <2>1. /\ members[m] \in MemberRow /\ members[m].profile = None
        /\ ~members[m].left /\ PlaceOf(p) = {} /\ Live /\ Arrive(p, m, row)
    BY <1>15 DEF ClaimPlaceholder, Claimable, RowsTyped
  <2>2. row \in MemberRow /\ row.profile = p /\ ~row.left
    BY <2>1 DEF MemberRow
  <2> HIDE DEF row
  <2> QED
    BY <2>1, <2>2, ArriveStep
<1>16. ASSUME NEW p \in Profiles, NEW t \in Tokens, NEW m \in Members, NEW name \in Labels,
              JoinAsNew(p, t, m, name)
       PROVE  Abstract!Enter(p)
  <2> DEFINE row == [profile |-> p, name |-> name, handle |-> None, left |-> FALSE, seq |-> 0]
  <2>1. row \in MemberRow /\ row.profile = p /\ ~row.left
    BY DEF MemberRow
  <2>2. members[m] = None /\ PlaceOf(p) = {} /\ Live /\ Arrive(p, m, row)
    BY <1>16 DEF JoinAsNew
  <2> HIDE DEF row
  <2> QED
    BY <2>1, <2>2, ArriveStep
<1>17. ASSUME NEW p \in Profiles, NEW e \in Entries, NEW in \in EntryInputs, NEW base \in Bases,
              PutEntry(p, e, in, base)
       PROVE  UNCHANGED <<Status, StandingsIn(members)>>
  BY <1>17, StandingUntouched DEF PutEntry, Live
<1>18. CASE UNCHANGED vars
  BY <1>18, StandingUntouched DEF vars, tables, Live
<1> QED
  BY <1>1, <1>2, <1>3, <1>4, <1>6, <1>7, <1>8, <1>9, <1>10, <1>11, <1>12, <1>13,
     <1>14, <1>15, <1>16, <1>17, <1>18
     DEF Next, EditNext, RosterNext, GroupNext, AccountNext, DoorsNext, RevokeNext, LedgerNext

\* For every set of accounts, rows, entries and tokens, what the object's
\* handlers do to its participants is what Participation allows.
THEOREM GroupImplementsParticipation == Spec => ImplementsParticipation
<1>1. Init => Abstract!Init
  <2> SUFFICES ASSUME Init PROVE Abstract!Init
    OBVIOUS
  <2>1. ~Live /\ tombstone = None
    BY DEF Init, Live
  <2>2. \A p \in Profiles : StandingIn(members, p) = None
    BY DEF Init, StandingIn, Places
  <2> QED
    BY <2>1, <2>2 DEF Abstract!Init, Status, StandingsIn
<1> QED
  BY <1>1, RowsCorrect, SafeInvariant, ImplementsStep, PTL
     DEF Spec, ImplementsParticipation, Abstract!Spec

=============================================================================
