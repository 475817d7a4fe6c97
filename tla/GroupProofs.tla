----------------------------- MODULE GroupProofs -----------------------------
(***************************************************************************)
(* What holds of a group object for every set of accounts, members,        *)
(* entries, tokens and labels and for every length of history.             *)
(***************************************************************************)
EXTENDS Group, TLAPS

(* Types. *)

\* The helpers several handlers share keep the types of what they write.
LEMMA PurgeType ==
    ASSUME RowsTyped, NEW s \in Nat, Purge(s), staged' \in [Profiles -> {"active", "left", None}]
    PROVE  RowsTyped'
BY DEF RowsTyped, Purge

LEMMA EventType ==
    ASSUME NEW s \in Nat,
           NEW kind \in {"entry", "group_renamed", "member_added", "member_joined",
                         "member_left", "member_renamed", "link_created", "link_revoked"},
           NEW subject \in Members \cup Entries \cup Tokens \cup {None},
           NEW actor \in Members \cup {None}
    PROVE  Event(s, kind, subject, actor) \in EventRow
BY DEF Event, EventRow

LEMMA StageType ==
    ASSUME RowsTyped, NEW p \in Profiles, NEW left \in BOOLEAN
    PROVE  Stage(p, left) \in [Profiles -> {"active", "left", None}]
BY DEF RowsTyped, Stage, Standing

LEMMA ArriveType ==
    ASSUME RowsTyped, NEW p \in Profiles, NEW m \in Members, NEW row \in MemberRow,
           Arrive(p, m, row), 
           invites' \in [Tokens -> InviteRow \cup {None}],
           groupLink' \in LinkRow \cup {None}, minted' \in SUBSET Tokens
    PROVE  RowsTyped'
<1>1. seq + 1 \in Nat
  BY DEF RowsTyped
<1>2. [row EXCEPT !.seq = seq + 1] \in MemberRow
  BY <1>1 DEF MemberRow
<1>3. Event(seq + 1, "member_joined", m, None) \in EventRow
  BY <1>1, EventType
<1>4. staged' \in [Profiles -> {"active", "left", None}]
  BY StageType DEF Arrive
<1>5. events' \in Seq(EventRow)
  BY <1>3 DEF Arrive, Append1, RowsTyped
<1>6. members' \in [Members -> MemberRow \cup {None}]
  BY <1>2 DEF Arrive, RowsTyped
<1> QED
  BY <1>1, <1>4, <1>5, <1>6 DEF Arrive, RowsTyped

\* Forget either purges or rewrites one place of a well-typed roster.
LEMMA ForgetType ==
    ASSUME RowsTyped, Live, NEW roster \in [Members -> MemberRow \cup {None}],
           NEW s \in Nat, NEW p \in Profiles, NEW name \in Labels \cup {None},
           Forget(roster, s, p, name),
           staged' \in [Profiles -> {"active", "left", None}],
           Live' => events' \in Seq(EventRow)
    PROVE  RowsTyped'
<1>1. CASE ActiveIn(roster) \ Places(roster, p) = {}
  BY <1>1, PurgeType DEF Forget
<1>2. CASE ActiveIn(roster) \ Places(roster, p) # {}
  <2>1. ASSUME NEW m \in Places(roster, p)
        PROVE  [roster[m] EXCEPT !.profile = None, !.seq = s,
                  !.name = IF name = None THEN @ ELSE name] \in MemberRow
    BY <2>1 DEF Places, MemberRow
  <2>2. members' \in [Members -> MemberRow \cup {None}]
    BY <1>2, <2>1, ZenonT(30) DEF Forget
  <2>3. events' \in Seq(EventRow)
    BY <1>2 DEF Forget, Live
  <2> QED
    BY <1>2, <2>2, <2>3 DEF Forget, RowsTyped, doors
<1> QED
  BY <1>1, <1>2

\* Every handler keeps the types.
LEMMA TypeStep == RowsTyped /\ [Next]_vars => RowsTyped'
<1> SUFFICES ASSUME RowsTyped, [Next]_vars
             PROVE  RowsTyped'
  OBVIOUS
<1> USE DEF doors, index
<1>0. seq + 1 \in Nat /\ seq + 2 \in Nat
  BY DEF RowsTyped
<1>1. ASSUME NEW p \in Profiles, NEW m \in Members, NEW name \in Labels, NEW look \in Looks,
             CreateGroup(p, m, name, look)
      PROVE  RowsTyped'
  <2>1. staged' \in [Profiles -> {"active", "left", None}]
    BY <1>1, StageType DEF CreateGroup
  <2>2. [name |-> name, look |-> look, seq |-> seq + 1] \in MetaRow
    BY <1>0 DEF MetaRow
  <2>3. [profile |-> p, name |-> name, handle |-> None, left |-> FALSE, seq |-> seq + 1]
          \in MemberRow
    BY <1>0 DEF MemberRow
  <2> QED
    BY <1>0, <1>1, <2>1, <2>2, <2>3 DEF CreateGroup, RowsTyped
<1>2. ASSUME NEW p \in Profiles, NEW m \in Members, NEW name \in Labels,
             NEW handle \in Labels \cup {None}, AddMember(p, m, name, handle)
      PROVE  RowsTyped'
  <2>1. events' \in Seq(EventRow)
    BY <1>2, <1>0, EventType DEF AddMember, Append1, RowsTyped, SeatOf, PlaceOf, Places
  <2> QED
    BY <1>2, <2>1 DEF AddMember, RowsTyped, MemberRow
<1>3. ASSUME NEW p \in Profiles, NEW m \in Members, NEW name \in Labels,
             NEW handle \in Labels \cup {None}, NEW left \in BOOLEAN, NEW base \in Bases,
             UpdateMember(p, m, name, handle, left, base)
      PROVE  RowsTyped'
  <2> DEFINE old == members[m]
             new == [old EXCEPT !.name = name, !.handle = handle,
                                !.left = left, !.seq = seq + 1]
             roster == [members EXCEPT ![m] = new]
  <2>0. old \in MemberRow
    BY <1>3 DEF UpdateMember, RowsTyped
  <2>1. old \in MemberRow /\ new \in MemberRow
    BY <1>0, <2>0 DEF MemberRow
  <2>2. staged' \in [Profiles -> {"active", "left", None}]
    BY <1>3, <2>1, StageType DEF UpdateMember, RowsTyped, MemberRow
  <2>3. PICK actor \in SeatOf(p) :
          \/ Purge(seq + 2)
          \/ /\ seq' = seq + 1
             /\ members' = roster
             /\ events' = events \o MemberEvents(seq + 1, m, actor, old, new)
             /\ UNCHANGED <<meta, tombstone, entries, doors, stagedPurge>>
    BY <1>3 DEF UpdateMember
  <2>4. CASE Purge(seq + 2)
    BY <2>2, <2>4, <1>0, PurgeType
  <2>5. CASE /\ seq' = seq + 1
             /\ members' = roster
             /\ events' = events \o MemberEvents(seq + 1, m, actor, old, new)
             /\ UNCHANGED <<meta, tombstone, entries, doors, stagedPurge>>
    <3>1. actor \in Members
      BY DEF SeatOf, PlaceOf, Places
    <3>2. MemberEvents(seq + 1, m, actor, old, new) \in Seq(EventRow)
      BY <1>0, <3>1, EventType DEF MemberEvents
    <3>3. events' \in Seq(EventRow)
      BY <2>5, <3>2 DEF RowsTyped
    <3> QED
      BY <2>1, <2>2, <2>5, <3>3 DEF RowsTyped
  <2> QED
    BY <2>3, <2>4, <2>5
<1>4. ASSUME NEW p \in Profiles, NEW name \in Labels, NEW look \in Looks, NEW base \in Bases,
             UpdateGroup(p, name, look, base)
      PROVE  RowsTyped'
  <2>1. PICK actor \in SeatOf(p) :
          events' = IF name = meta.name THEN events
                    ELSE Append(events, Event(seq + 1, "group_renamed", None, actor))
    BY <1>4 DEF UpdateGroup
  <2>2. Event(seq + 1, "group_renamed", None, actor) \in EventRow
    BY <1>0, EventType DEF SeatOf, PlaceOf, Places
  <2>3. events' \in Seq(EventRow)
    BY <2>1, <2>2 DEF RowsTyped
  <2>4. [name |-> name, look |-> look, seq |-> seq + 1] \in MetaRow
    BY <1>0 DEF MetaRow
  <2> QED
    BY <1>0, <1>4, <2>3, <2>4 DEF UpdateGroup, RowsTyped
<1>5. ASSUME NEW p \in Profiles, NEW name \in Labels \cup {None}, ForgetProfile(p, name)
      PROVE  RowsTyped'
  <2>1. Live' => events' \in Seq(EventRow)
    BY <1>5 DEF ForgetProfile, RowsTyped
  <2>2. members \in [Members -> MemberRow \cup {None}]
    BY DEF RowsTyped
  <2>3. staged' \in [Profiles -> {"active", "left", None}]
    BY <1>5 DEF ForgetProfile, RowsTyped
  <2> QED
    BY <1>5, <1>0, <2>1, <2>2, <2>3, ForgetType DEF ForgetProfile
<1>6. ASSUME NEW p \in Profiles, NEW heir \in Profiles, HandOverPlace(p, heir)
      PROVE  RowsTyped'
  <2>1. PICK m \in PlaceOf(p) :
          /\ members' = [members EXCEPT ![m].profile = heir, ![m].seq = seq + 1]
          /\ staged' = Stage(heir, members[m].left)
    BY <1>6 DEF HandOverPlace
  <2>2. m \in Members /\ members[m] \in MemberRow
    BY DEF PlaceOf, Places, RowsTyped
  <2>3. members' \in [Members -> MemberRow \cup {None}]
    BY <1>0, <2>1, <2>2 DEF RowsTyped, MemberRow
  <2>4. staged' \in [Profiles -> {"active", "left", None}]
    BY <2>1, <2>2, StageType DEF MemberRow
  <2> QED
    BY <1>6, <2>3, <2>4 DEF HandOverPlace, RowsTyped
<1>7. ASSUME NEW p \in Profiles, NEW heir \in Profiles, HandOverBeside(p, heir)
      PROVE  RowsTyped'
  <2>1. PICK g \in PlaceOf(p), h \in PlaceOf(heir) :
         IF members[h].left /\ ~members[g].left
         THEN /\ Forget([members EXCEPT ![h].left = FALSE, ![h].seq = seq + 1],
                        seq + 2, p, None)
              /\ Live' => Append1(Event(seq + 1, "member_joined", h, None))
              /\ staged' = Stage(heir, FALSE)
         ELSE /\ Forget(members, seq + 1, p, None)
              /\ Live' => UNCHANGED events
              /\ UNCHANGED staged
    BY <1>7 DEF HandOverBeside
  <2>2. h \in Members /\ members[h] \in MemberRow /\ Live
    BY <1>7 DEF PlaceOf, Places, RowsTyped, HandOverBeside
  <2>3. [members EXCEPT ![h].left = FALSE, ![h].seq = seq + 1]
          \in [Members -> MemberRow \cup {None}]
    BY <1>0, <2>2 DEF RowsTyped, MemberRow
  <2>4. staged' \in [Profiles -> {"active", "left", None}]
    BY <2>1, StageType DEF RowsTyped
  <2>5. Live' => events' \in Seq(EventRow)
    <3>1. Event(seq + 1, "member_joined", h, None) \in EventRow
      BY <1>0, <2>2, EventType
    <3>2. CASE members[h].left /\ ~members[g].left
      <4>1. Live' => events' = Append(events, Event(seq + 1, "member_joined", h, None))
        BY <2>1, <3>2 DEF Append1
      <4> QED
        BY <3>1, <4>1, SMTT(30) DEF RowsTyped
    <3>3. CASE ~(members[h].left /\ ~members[g].left)
      BY <2>1, <3>3 DEF RowsTyped
    <3> QED
      BY <3>2, <3>3
  <2>6. members \in [Members -> MemberRow \cup {None}]
    BY DEF RowsTyped
  <2> QED
    BY <1>0, <2>1, <2>2, <2>3, <2>4, <2>5, <2>6, ForgetType
<1>8. ASSUME NEW p \in Profiles, NEW m \in Members, NEW t \in Tokens, CreateInvite(p, m, t)
      PROVE  RowsTyped'
  <2>1. Reissued(m) \in [Tokens -> InviteRow \cup {None}]
    BY DEF Reissued, RowsTyped
  <2> QED
    BY <1>8, <2>1 DEF CreateInvite, RowsTyped, InviteRow
<1>9. ASSUME NEW p \in Profiles, NEW t \in Tokens, CreateGroupLink(p, t)
      PROVE  RowsTyped'
  <2>1. PICK actor \in SeatOf(p) : events' = events
             \o (IF groupLink # None /\ ~groupLink.revoked
                 THEN <<Event(seq + 1, "link_revoked", groupLink.token, actor)>>
                 ELSE <<>>)
             \o <<Event(seq + 1, "link_created", t, actor)>>
    BY <1>9 DEF CreateGroupLink
  <2>2. actor \in Members
    BY DEF SeatOf, PlaceOf, Places
  <2>3. Event(seq + 1, "link_created", t, actor) \in EventRow
    BY <1>0, <2>2, EventType
  <2>4. groupLink # None => Event(seq + 1, "link_revoked", groupLink.token, actor) \in EventRow
    BY <1>0, <2>2, EventType DEF RowsTyped, LinkRow
  <2>5. events' \in Seq(EventRow)
    BY <2>1, <2>3, <2>4 DEF RowsTyped
  <2> QED
    BY <1>9, <2>5 DEF CreateGroupLink, RowsTyped, LinkRow
<1>10. ASSUME NEW p \in Profiles, RevokeGroupLink(p)
       PROVE  RowsTyped'
  <2>1. events' \in Seq(EventRow)
    BY <1>10, <1>0, EventType
       DEF RevokeGroupLink, Append1, RowsTyped, SeatOf, PlaceOf, Places, LinkRow
  <2>2. groupLink' \in LinkRow
    BY <1>10 DEF RevokeGroupLink, RowsTyped, LinkRow
  <2> QED
    BY <1>0, <1>10, <2>1, <2>2 DEF RevokeGroupLink, RowsTyped
<1>11. ASSUME NEW t \in Tokens, Expire(t)
       PROVE  RowsTyped'
  BY <1>11, ZenonT(30) DEF Expire, RowsTyped, InviteRow, LinkRow
<1>12. ASSUME NEW p \in Profiles, NEW t \in Tokens, RedeemInvite(p, t)
       PROVE  RowsTyped'
  <2> DEFINE m == invites[t].member
             row == [members[m] EXCEPT !.profile = p]
  <2>1. m \in Members
    BY <1>12 DEF RedeemInvite, InviteOpen, RowsTyped, InviteRow
  <2>2. row \in MemberRow
    BY <1>12, <2>1 DEF RedeemInvite, Claimable, RowsTyped, MemberRow
  <2>3. invites' \in [Tokens -> InviteRow \cup {None}]
    BY <1>12 DEF RedeemInvite, InviteOpen, RowsTyped, InviteRow
  <2>4. Arrive(p, m, row) /\ UNCHANGED <<groupLink, minted>>
    BY <1>12 DEF RedeemInvite
  <2> HIDE DEF m, row
  <2> QED
    BY <2>1, <2>2, <2>3, <2>4, ArriveType DEF RowsTyped
<1>13. ASSUME NEW p \in Profiles, NEW t \in Tokens, Rejoin(p, t)
       PROVE  RowsTyped'
  <2>1. PICK m \in PlaceOf(p) : Arrive(p, m, [members[m] EXCEPT !.left = FALSE])
    BY <1>13 DEF Rejoin
  <2>2. m \in Members /\ [members[m] EXCEPT !.left = FALSE] \in MemberRow
    BY DEF PlaceOf, Places, RowsTyped, MemberRow
  <2> QED
    BY <1>13, <2>1, <2>2, ArriveType DEF Rejoin, RowsTyped
<1>14. ASSUME NEW p \in Profiles, NEW t \in Tokens, NEW m \in Members, ClaimPlaceholder(p, t, m)
       PROVE  RowsTyped'
  <2>1. [members[m] EXCEPT !.profile = p] \in MemberRow
    BY <1>14 DEF ClaimPlaceholder, Claimable, RowsTyped, MemberRow
  <2> QED
    BY <1>14, <2>1, ArriveType DEF ClaimPlaceholder, RowsTyped
<1>15. ASSUME NEW p \in Profiles, NEW t \in Tokens, NEW m \in Members, NEW name \in Labels,
              JoinAsNew(p, t, m, name)
       PROVE  RowsTyped'
  <2>1. [profile |-> p, name |-> name, handle |-> None, left |-> FALSE, seq |-> 0] \in MemberRow
    BY DEF MemberRow
  <2> QED
    BY <1>15, <2>1, ArriveType DEF JoinAsNew, RowsTyped
<1>16. ASSUME NEW p \in Profiles, NEW e \in Entries, NEW in \in EntryInputs, NEW base \in Bases,
              PutEntry(p, e, in, base)
       PROVE  RowsTyped'
  <2>1. PICK actor \in SeatOf(p) : events' = events \o SnapshotEvents(seq + 1, e, in, actor)
    BY <1>16 DEF PutEntry
  <2>2. actor \in Members
    BY DEF SeatOf, PlaceOf, Places
  <2>3. [Event(seq + 1, "entry", e, actor) EXCEPT !.entry = in] \in EventRow
    BY <1>0, <2>2 DEF Event, EventRow
  <2>4. events' \in Seq(EventRow)
    BY <2>1, <2>3 DEF SnapshotEvents, RowsTyped
  <2> QED
    BY <1>16, <2>4 DEF PutEntry, RowsTyped, EntryRow
<1>17. CASE UNCHANGED vars
  BY <1>17 DEF vars, tables, RowsTyped
<1> QED
  BY <1>1, <1>2, <1>3, <1>4, <1>5, <1>6, <1>7, <1>8, <1>9, <1>10, <1>11, <1>12, <1>13,
     <1>14, <1>15, <1>16, <1>17
     DEF Next, EditNext, RosterNext, GroupNext, AccountNext, DoorsNext, RevokeNext, LedgerNext

\* Every table of the group object keeps its type, whatever it is asked.
LEMMA RowsCorrect == Spec => []RowsTyped
<1>1. ASSUME Init
      PROVE  RowsTyped
  <2>1. events \in Seq(EventRow)
    BY <1>1 DEF Init
  <2>2. staged \in [Profiles -> {"active", "left", None}]
    BY <1>1 DEF Init
  <2> QED
    BY <1>1, <2>1, <2>2 DEF Init, RowsTyped
<1> QED
  BY <1>1, TypeStep, PTL DEF Spec

\* Every variable does.
THEOREM TypeCorrect == Spec => []TypeOK
<1>1. Init => editor \in Profiles \cup {None}
  BY DEF Init
<1>2. editor \in Profiles \cup {None} /\ [Next]_vars => (editor \in Profiles \cup {None})'
  BY DEF Next, EditNext, vars
<1>3. RowsTyped /\ editor \in Profiles \cup {None} => TypeOK
  BY DEF TypeOK
<1> QED
  BY <1>1, <1>2, <1>3, RowsCorrect, PTL DEF Spec

-----------------------------------------------------------------------------
(* Places, ownership, and the end of a group. *)

\* The inductive invariant.  Ownership needs one place per account (forgetting
\* an account that held two would leave one behind), one place needs an empty
\* roster before the group exists, and the index rows need both.
Safe ==
    /\ OnePlacePerAccount
    /\ Owned
    /\ LiveXorGone
    /\ StagedMirrorsRoster

LEMMA PurgeSafe ==
    ASSUME NEW s \in Nat, Purge(s)
    PROVE  Safe'
BY NullAssumption
   DEF Purge, Safe, OnePlacePerAccount, Owned, LiveXorGone, StagedMirrorsRoster, Live

\* An account with no current place gets one, on a row nobody else holds.
LEMMA ArriveSafe ==
    ASSUME RowsTyped, Safe, Live, NEW p \in Profiles, NEW m \in Members, NEW row \in MemberRow,
           row.profile = p, ~row.left,
           members[m] = None \/ members[m].profile \in {p, None},
           PlaceOf(p) \subseteq {m},
           Arrive(p, m, row)
    PROVE  Safe'
<1> DEFINE new == [row EXCEPT !.seq = seq + 1]
<1>1. new \in MemberRow /\ new.profile = p /\ ~new.left /\ new # None /\ new.profile # None
  BY IdsAssumption, NullAssumption DEF MemberRow, RowsTyped
<1>2. members' = [members EXCEPT ![m] = new] /\ Live' /\ UNCHANGED <<tombstone, stagedPurge>>
  BY DEF Arrive, Live
<1>3. staged' = [staged EXCEPT ![p] = "active"]
  BY DEF Arrive, Stage, Standing
<1> HIDE DEF new
<1>4. OnePlacePerAccount'
  BY <1>1, <1>2 DEF Safe, OnePlacePerAccount, PlaceOf, Places, RowsTyped
<1>5. Owned'
  BY <1>1, <1>2 DEF Owned, RowsTyped
<1>6. LiveXorGone'
  BY <1>2 DEF Safe, LiveXorGone, Live
<1>7. StagedMirrorsRoster'
  BY <1>1, <1>2, <1>3 DEF Safe, StagedMirrorsRoster, Standing, RowsTyped, PlaceOf, Places
<1> QED
  BY <1>4, <1>5, <1>6, <1>7 DEF Safe

\* OnePlacePerAccount and StagedMirrorsRoster of a roster on its way in.
OnePlaceIn(roster) ==
    \A m, n \in Members :
        /\ roster[m] # None /\ roster[n] # None
        /\ roster[m].profile # None /\ roster[m].profile = roster[n].profile
        => m = n

MirroredIn(roster, rows) ==
    \A m \in Members :
        roster[m] # None /\ roster[m].profile # None =>
            rows[roster[m].profile] = Standing(roster[m].left)

\* Forgetting an account collects the group or leaves somebody else active.
LEMMA ForgetSafe ==
    ASSUME RowsTyped, Safe, Live, NEW roster \in [Members -> MemberRow \cup {None}],
           NEW s \in Nat, NEW p \in Profiles, NEW name \in Labels \cup {None},
           Forget(roster, s, p, name), OnePlaceIn(roster), MirroredIn(roster, staged')
    PROVE  Safe'
<1>1. CASE ActiveIn(roster) \ Places(roster, p) = {}
  BY <1>1, PurgeSafe DEF Forget
<1>2. CASE ActiveIn(roster) \ Places(roster, p) # {}
  <2> DEFINE gone(m) == [roster[m] EXCEPT !.profile = None, !.seq = s,
                           !.name = IF name = None THEN @ ELSE name]
  <2>1. /\ Live' /\ UNCHANGED <<tombstone, stagedPurge>>
        /\ members' = [m \in Members |-> IF m \in Places(roster, p) THEN gone(m) ELSE roster[m]]
    BY <1>2 DEF Forget, Live
  <2>2. \A m \in Places(roster, p) : gone(m).profile = None
    BY DEF Places, MemberRow
  <2> HIDE DEF gone
  <2>3. OnePlacePerAccount'
    BY <2>1, <2>2 DEF OnePlacePerAccount, OnePlaceIn
  <2>4. Owned'
    <3>1. PICK m \in ActiveIn(roster) : m \notin Places(roster, p)
      BY <1>2
    <3> QED
      BY <2>1, <3>1 DEF Owned, ActiveIn
  <2>5. LiveXorGone'
    BY <2>1 DEF Safe, LiveXorGone, Live
  <2>6. StagedMirrorsRoster'
    BY <2>1, <2>2 DEF StagedMirrorsRoster, MirroredIn, Standing
  <2> QED
    BY <2>3, <2>4, <2>5, <2>6 DEF Safe
<1> QED
  BY <1>1, <1>2

\* A handler that leaves the roster, the group's existence and the staged
\* membership rows alone.
LEMMA RosterUntouched ==
    ASSUME Safe, Live, UNCHANGED <<tombstone, members, index>>, Live'
    PROVE  Safe'
BY DEF Safe, OnePlacePerAccount, Owned, LiveXorGone, StagedMirrorsRoster, Live, index, Standing

LEMMA SafeStep == RowsTyped /\ Safe /\ [Next]_vars => Safe'
<1> SUFFICES ASSUME RowsTyped, Safe, [Next]_vars
             PROVE  Safe'
  OBVIOUS
<1>0. seq + 1 \in Nat /\ seq + 2 \in Nat
  BY DEF RowsTyped
<1>1. ASSUME NEW p \in Profiles, NEW m \in Members, NEW name \in Labels, NEW look \in Looks,
             CreateGroup(p, m, name, look)
      PROVE  Safe'
  <2> DEFINE row == [profile |-> p, name |-> name, handle |-> None,
                     left |-> FALSE, seq |-> seq + 1]
  <2>0. row \in MemberRow
    BY <1>0 DEF MemberRow
  <2>1. row # None /\ p # None
    BY <2>0, IdsAssumption, NullAssumption
  <2>2. [name |-> name, look |-> look, seq |-> seq + 1] # None
    BY <1>0, NullAssumption DEF MetaRow
  <2>3. /\ \A n \in Members : members[n] = None
        /\ Live' /\ UNCHANGED <<tombstone, stagedPurge>> /\ tombstone = None
        /\ members' = [members EXCEPT ![m] = row]
        /\ staged' = Stage(p, FALSE)
    BY <1>1, <2>2 DEF CreateGroup, Creatable, Safe, LiveXorGone, Live, doors
  <2>4. row.profile = p /\ ~row.left
    OBVIOUS
  <2> HIDE DEF row
  <2> QED
    BY <2>0, <2>1, <2>3, <2>4
       DEF Safe, OnePlacePerAccount, Owned, LiveXorGone, StagedMirrorsRoster, Stage, Standing,
           RowsTyped, Live
<1>2. ASSUME NEW p \in Profiles, NEW m \in Members, NEW name \in Labels,
             NEW handle \in Labels \cup {None}, AddMember(p, m, name, handle)
      PROVE  Safe'
  <2> DEFINE row == [profile |-> None, name |-> name, handle |-> handle,
                     left |-> FALSE, seq |-> seq + 1]
  <2>1. /\ Live' /\ UNCHANGED <<tombstone, index>> /\ members[m] = None
        /\ members' = [members EXCEPT ![m] = row]
    BY <1>2 DEF AddMember, Live
  <2>2. row.profile = None
    OBVIOUS
  <2> HIDE DEF row
  <2> QED
    BY <1>2, <2>1, <2>2
       DEF AddMember, Safe, OnePlacePerAccount, Owned, LiveXorGone, StagedMirrorsRoster, Standing,
           RowsTyped, Live, index
<1>3. ASSUME NEW p \in Profiles, NEW m \in Members, NEW name \in Labels,
             NEW handle \in Labels \cup {None}, NEW left \in BOOLEAN, NEW base \in Bases,
             UpdateMember(p, m, name, handle, left, base)
      PROVE  Safe'
  <2> DEFINE old == members[m]
             new == [old EXCEPT !.name = name, !.handle = handle,
                                !.left = left, !.seq = seq + 1]
             roster == [members EXCEPT ![m] = new]
             leaving == left /\ ~old.left
  <2>1. old \in MemberRow /\ old # None /\ Live
    BY <1>3 DEF UpdateMember, RowsTyped
  <2>2. new \in MemberRow /\ new # None /\ new.profile = old.profile /\ new.left = left
    BY <1>0, <2>1, NullAssumption DEF MemberRow
  <2>3. staged' = IF old.profile = None THEN staged ELSE Stage(old.profile, left)
    BY <1>3 DEF UpdateMember
  <2>4. \/ Purge(seq + 2)
        \/ /\ ~(leaving /\ ActiveIn(roster) = {})
           /\ members' = roster /\ UNCHANGED <<meta, tombstone, stagedPurge>>
    BY <1>3 DEF UpdateMember
  <2>5. old.left /\ ~left => old.profile = None
    BY <1>3 DEF UpdateMember
  <2>6. CASE Purge(seq + 2)
    BY <1>0, <2>6, PurgeSafe
  <2>7. CASE /\ ~(leaving /\ ActiveIn(roster) = {})
             /\ members' = roster /\ UNCHANGED <<meta, tombstone, stagedPurge>>
    <3>1. Live' /\ LiveXorGone'
      BY <2>1, <2>7 DEF Safe, LiveXorGone, Live
    <3> HIDE DEF new
    <3>2. OnePlacePerAccount'
      BY <2>1, <2>2, <2>7 DEF Safe, OnePlacePerAccount, RowsTyped
    <3>3. StagedMirrorsRoster'
      BY <2>1, <2>2, <2>3, <2>7
         DEF Safe, StagedMirrorsRoster, OnePlacePerAccount, Stage, Standing, RowsTyped, MemberRow
    <3>4. Owned'
      <4>1. CASE leaving
        BY <2>7, <4>1 DEF Owned, ActiveIn
      <4>2. CASE ~leaving
        <5>1. PICK n \in Members : members[n] # None /\ members[n].profile # None /\ ~members[n].left
          BY <2>1 DEF Safe, Owned
        <5>2. roster[n] # None /\ roster[n].profile # None /\ ~roster[n].left
          BY <2>2, <4>2, <5>1 DEF RowsTyped
        <5> QED
          BY <2>7, <5>2 DEF Owned
      <4> QED
        BY <4>1, <4>2
    <3> QED
      BY <3>1, <3>2, <3>3, <3>4 DEF Safe
  <2> QED
    BY <2>4, <2>6, <2>7
<1>4. ASSUME NEW p \in Profiles, NEW name \in Labels, NEW look \in Looks, NEW base \in Bases,
             UpdateGroup(p, name, look, base)
      PROVE  Safe'
  <2>1. [name |-> name, look |-> look, seq |-> seq + 1] # None
    BY <1>0, NullAssumption DEF MetaRow
  <2> QED
    BY <1>4, <2>1, RosterUntouched DEF UpdateGroup, Live
<1>5. ASSUME NEW p \in Profiles, NEW name \in Labels \cup {None}, ForgetProfile(p, name)
      PROVE  Safe'
  <2>1. OnePlaceIn(members) /\ MirroredIn(members, staged')
    BY <1>5 DEF ForgetProfile, Safe, OnePlacePerAccount, OnePlaceIn, StagedMirrorsRoster, MirroredIn
  <2>2. Live /\ members \in [Members -> MemberRow \cup {None}]
    BY <1>5 DEF ForgetProfile, RowsTyped
  <2> QED
    BY <1>0, <1>5, <2>1, <2>2, ForgetSafe DEF ForgetProfile
<1>6. ASSUME NEW p \in Profiles, NEW heir \in Profiles, HandOverPlace(p, heir)
      PROVE  Safe'
  <2>1. PICK m \in PlaceOf(p) :
          /\ members' = [members EXCEPT ![m].profile = heir, ![m].seq = seq + 1]
          /\ staged' = Stage(heir, members[m].left)
    BY <1>6 DEF HandOverPlace
  <2> DEFINE row == [members[m] EXCEPT !.profile = heir, !.seq = seq + 1]
  <2>2. m \in Members /\ members[m] \in MemberRow /\ members[m] # None /\ members[m].profile = p
    BY DEF PlaceOf, Places, RowsTyped
  <2>3. /\ row \in MemberRow /\ row # None /\ row.profile = heir /\ row.left = members[m].left
        /\ heir # None /\ p # None /\ members[m].left \in BOOLEAN
    BY <1>0, <2>2, IdsAssumption, NullAssumption DEF MemberRow
  <2>4. members' = [members EXCEPT ![m] = row]
    BY <2>1, <2>2 DEF MemberRow, RowsTyped
  <2>5. Live /\ Live' /\ UNCHANGED <<tombstone, stagedPurge>> /\ PlaceOf(heir) = {}
    BY <1>6 DEF HandOverPlace, Live
  <2> HIDE DEF row
  <2>6. \A n \in Members : members[n] # None => members[n].profile # heir
    BY <2>5 DEF PlaceOf, Places
  <2>7. OnePlacePerAccount'
    BY <2>2, <2>3, <2>4, <2>6 DEF Safe, OnePlacePerAccount, RowsTyped
  <2>8. Owned'
    BY <2>2, <2>3, <2>4, <2>5 DEF Safe, Owned, RowsTyped
  <2>9. LiveXorGone'
    BY <2>5 DEF Safe, LiveXorGone, Live
  <2>10. StagedMirrorsRoster'
    BY <2>1, <2>2, <2>3, <2>4, <2>6 DEF Safe, StagedMirrorsRoster, Stage, Standing, RowsTyped
  <2> QED
    BY <2>7, <2>8, <2>9, <2>10 DEF Safe
<1>7. ASSUME NEW p \in Profiles, NEW heir \in Profiles, HandOverBeside(p, heir)
      PROVE  Safe'
  <2>1. PICK g \in PlaceOf(p), h \in PlaceOf(heir) :
         IF members[h].left /\ ~members[g].left
         THEN /\ Forget([members EXCEPT ![h].left = FALSE, ![h].seq = seq + 1],
                        seq + 2, p, None)
              /\ staged' = Stage(heir, FALSE)
         ELSE /\ Forget(members, seq + 1, p, None)
              /\ UNCHANGED staged
    BY <1>7 DEF HandOverBeside
  <2>2. /\ h \in Members /\ members[h] \in MemberRow /\ members[h] # None
        /\ members[h].profile = heir /\ heir # None /\ Live
    BY <1>7, IdsAssumption DEF PlaceOf, Places, RowsTyped, HandOverBeside
  <2>3. CASE members[h].left /\ ~members[g].left
    <3> DEFINE row == [members[h] EXCEPT !.left = FALSE, !.seq = seq + 1]
               roster == [members EXCEPT ![h] = row]
    <3>1. row \in MemberRow /\ row.profile = heir /\ ~row.left
      BY <1>0, <2>2 DEF MemberRow
    <3>2. [members EXCEPT ![h].left = FALSE, ![h].seq = seq + 1] = roster
      BY <2>2 DEF MemberRow, RowsTyped
    <3> HIDE DEF row
    <3>3. OnePlaceIn(roster)
      BY <2>2, <3>1 DEF Safe, OnePlacePerAccount, OnePlaceIn, RowsTyped
    <3>4. MirroredIn(roster, staged')
      <4>1. staged' = [staged EXCEPT ![heir] = "active"]
        BY <2>1, <2>3 DEF Stage, Standing
      <4>2. \A n \in Members \ {h} : members[n] # None => members[n].profile # heir
        BY <2>2 DEF Safe, OnePlacePerAccount
      <4> QED
        BY <2>2, <3>1, <4>1, <4>2
           DEF Safe, StagedMirrorsRoster, MirroredIn, Standing, RowsTyped
    <3>5. roster \in [Members -> MemberRow \cup {None}]
      BY <3>1 DEF RowsTyped
    <3>6. Forget(roster, seq + 2, p, None)
      BY <2>1, <2>3, <3>2
    <3> HIDE DEF roster
    <3> QED
      BY <1>0, <2>2, <3>3, <3>4, <3>5, <3>6, ForgetSafe
  <2>4. CASE ~(members[h].left /\ ~members[g].left)
    <3>1. OnePlaceIn(members) /\ MirroredIn(members, staged')
      BY <2>1, <2>4 DEF Safe, OnePlacePerAccount, OnePlaceIn, StagedMirrorsRoster, MirroredIn
    <3>2. members \in [Members -> MemberRow \cup {None}]
      BY DEF RowsTyped
    <3> QED
      BY <1>0, <2>1, <2>2, <2>4, <3>1, <3>2, ForgetSafe
  <2> QED
    BY <2>3, <2>4
<1>8. ASSUME NEW p \in Profiles, NEW m \in Members, NEW t \in Tokens, CreateInvite(p, m, t)
      PROVE  Safe'
  BY <1>8, RosterUntouched DEF CreateInvite, Live
<1>9. ASSUME NEW p \in Profiles, NEW t \in Tokens, CreateGroupLink(p, t)
      PROVE  Safe'
  BY <1>9, RosterUntouched DEF CreateGroupLink, Live
<1>10. ASSUME NEW p \in Profiles, RevokeGroupLink(p)
       PROVE  Safe'
  BY <1>10, RosterUntouched DEF RevokeGroupLink, Live
<1>11. ASSUME NEW t \in Tokens, Expire(t)
       PROVE  Safe'
  <2>1. Live
    <3>1. invites[t] # None \/ groupLink # None
      BY <1>11 DEF Expire
    <3> QED
      BY <1>11, <3>1 DEF Safe, LiveXorGone, Live
  <2>2. UNCHANGED <<meta, tombstone, members, index>>
    BY <1>11 DEF Expire
  <2> QED
    BY <2>1, <2>2, RosterUntouched DEF Live
<1>12. ASSUME NEW p \in Profiles, NEW t \in Tokens, RedeemInvite(p, t)
       PROVE  Safe'
  <2> DEFINE m == invites[t].member
             row == [members[m] EXCEPT !.profile = p]
  <2>1. /\ m \in Members /\ members[m] \in MemberRow /\ members[m].profile = None
        /\ ~members[m].left /\ PlaceOf(p) = {} /\ Live /\ Arrive(p, m, row)
    BY <1>12 DEF RedeemInvite, InviteOpen, Claimable, RowsTyped, InviteRow
  <2>2. row \in MemberRow /\ row.profile = p /\ ~row.left
    BY <2>1 DEF MemberRow
  <2> HIDE DEF m, row
  <2> QED
    BY <2>1, <2>2, ArriveSafe
<1>13. ASSUME NEW p \in Profiles, NEW t \in Tokens, Rejoin(p, t)
       PROVE  Safe'
  <2>1. PICK m \in PlaceOf(p) : Arrive(p, m, [members[m] EXCEPT !.left = FALSE])
    BY <1>13 DEF Rejoin
  <2> DEFINE row == [members[m] EXCEPT !.left = FALSE]
  <2>2. m \in Members /\ members[m] \in MemberRow /\ members[m].profile = p /\ members[m] # None
    BY DEF PlaceOf, Places, RowsTyped
  <2>3. row \in MemberRow /\ row.profile = p /\ ~row.left
    BY <2>2 DEF MemberRow
  <2>4. PlaceOf(p) \subseteq {m}
    BY <2>2, IdsAssumption DEF PlaceOf, Places, Safe, OnePlacePerAccount
  <2>5. Live /\ Arrive(p, m, row)
    BY <1>13, <2>1 DEF Rejoin
  <2> HIDE DEF row
  <2> QED
    BY <2>2, <2>3, <2>4, <2>5, ArriveSafe
<1>14. ASSUME NEW p \in Profiles, NEW t \in Tokens, NEW m \in Members, ClaimPlaceholder(p, t, m)
       PROVE  Safe'
  <2> DEFINE row == [members[m] EXCEPT !.profile = p]
  <2>1. /\ members[m] \in MemberRow /\ members[m].profile = None
        /\ ~members[m].left /\ PlaceOf(p) = {} /\ Live /\ Arrive(p, m, row)
    BY <1>14 DEF ClaimPlaceholder, Claimable, RowsTyped
  <2>2. row \in MemberRow /\ row.profile = p /\ ~row.left
    BY <2>1 DEF MemberRow
  <2> HIDE DEF row
  <2> QED
    BY <2>1, <2>2, ArriveSafe
<1>15. ASSUME NEW p \in Profiles, NEW t \in Tokens, NEW m \in Members, NEW name \in Labels,
              JoinAsNew(p, t, m, name)
       PROVE  Safe'
  <2> DEFINE row == [profile |-> p, name |-> name, handle |-> None, left |-> FALSE, seq |-> 0]
  <2>1. row \in MemberRow /\ row.profile = p /\ ~row.left
    BY DEF MemberRow
  <2>2. members[m] = None /\ PlaceOf(p) = {} /\ Live /\ Arrive(p, m, row)
    BY <1>15 DEF JoinAsNew
  <2> HIDE DEF row
  <2> QED
    BY <2>1, <2>2, ArriveSafe
<1>16. ASSUME NEW p \in Profiles, NEW e \in Entries, NEW in \in EntryInputs, NEW base \in Bases,
              PutEntry(p, e, in, base)
       PROVE  Safe'
  BY <1>16, RosterUntouched DEF PutEntry, Live
<1>17. CASE UNCHANGED vars
  BY <1>17
     DEF vars, tables, index, doors, Safe, OnePlacePerAccount, Owned, LiveXorGone, StagedMirrorsRoster,
         Live, Standing
<1> QED
  BY <1>1, <1>2, <1>3, <1>4, <1>5, <1>6, <1>7, <1>8, <1>9, <1>10, <1>11, <1>12, <1>13,
     <1>14, <1>15, <1>16, <1>17
     DEF Next, EditNext, RosterNext, GroupNext, AccountNext, DoorsNext, RevokeNext, LedgerNext

LEMMA InitSafe == Init => Safe
BY NullAssumption
   DEF Init, Safe, OnePlacePerAccount, Owned, LiveXorGone, StagedMirrorsRoster, Live

LEMMA SafeInvariant == Spec => []Safe
BY RowsCorrect, InitSafe, SafeStep, PTL DEF Spec

\* One account never holds two places, however it came in.
THEOREM OnePlaceHolds == Spec => []OnePlacePerAccount
BY SafeInvariant, PTL DEF Safe

\* A live group can always be opened by somebody: runUpkeep finds nothing.
THEOREM OwnedHolds == Spec => []Owned
BY SafeInvariant, PTL DEF Safe

\* A collected group is empty and is never created again.
THEOREM GraveHolds == Spec => []LiveXorGone
BY SafeInvariant, PTL DEF Safe

\* What is staged for the index agrees with the roster.
THEOREM MirrorHolds == Spec => []StagedMirrorsRoster
BY SafeInvariant, PTL DEF Safe

-----------------------------------------------------------------------------
(* One open invite for a place. *)

\* An invite row, and what is asked of the others while it is unspent.
Unspent(rows, t, m) == rows[t] # None /\ rows[t].redeemedBy = None /\ rows[t].member = m

OneOpenIn(rows) ==
    \A t, u \in Tokens, m \in Members : Unspent(rows, t, m) /\ Unspent(rows, u, m) => t = u

LEMMA OneOpenForm == RowsTyped => (OneOpenInvite <=> OneOpenIn(invites))
BY DEF RowsTyped, InviteRow, OneOpenInvite, OneOpenIn, Unspent

\* Invite rows go away or are spent; only createInvite adds one.
LEMMA OneOpenStep == RowsTyped /\ OneOpenIn(invites) /\ [Next]_vars => OneOpenIn(invites)'
<1> SUFFICES ASSUME RowsTyped, OneOpenIn(invites), [Next]_vars
             PROVE  OneOpenIn(invites)'
  OBVIOUS
<1> USE DEF doors
<1>1. SUFFICES ASSUME \/ UNCHANGED invites
                      \/ \A t \in Tokens : invites'[t] = None
                      \/ \E t \in Tokens : Expire(t)
                      \/ \E t \in Tokens, p \in Profiles : RedeemInvite(p, t)
                      \/ \E t \in Tokens, p \in Profiles, m \in Members : CreateInvite(p, m, t)
               PROVE  OneOpenIn(invites)'
  <2>1. ASSUME NEW p \in Profiles, NEW m \in Members, NEW name \in Labels,
               NEW handle \in Labels \cup {None}, NEW left \in BOOLEAN, NEW base \in Bases,
               UpdateMember(p, m, name, handle, left, base)
        PROVE  UNCHANGED invites \/ \A t \in Tokens : invites'[t] = None
    BY <2>1 DEF UpdateMember, Purge
  <2>2. ASSUME NEW roster, NEW s, NEW p, NEW name, Forget(roster, s, p, name)
        PROVE  UNCHANGED invites \/ \A t \in Tokens : invites'[t] = None
    BY <2>2 DEF Forget, Purge
  <2>3. ASSUME NEW p \in Profiles, NEW heir \in Profiles, HandOverBeside(p, heir)
        PROVE  UNCHANGED invites \/ \A t \in Tokens : invites'[t] = None
    BY <2>2, <2>3 DEF HandOverBeside
  <2>4. ASSUME NEW p \in Profiles, NEW name \in Labels \cup {None}, ForgetProfile(p, name)
        PROVE  UNCHANGED invites \/ \A t \in Tokens : invites'[t] = None
    BY <2>2, <2>4 DEF ForgetProfile
  <2>5. EditNext => UNCHANGED invites \/ \A t \in Tokens : invites'[t] = None
    BY <2>1 DEF EditNext
  <2>9. RosterNext => UNCHANGED invites
    BY ZenonT(30) DEF RosterNext, CreateGroup, AddMember, doors
  <2>6. AccountNext => UNCHANGED invites \/ \A t \in Tokens : invites'[t] = None
    BY <2>3, <2>4 DEF AccountNext, HandOverPlace
  <2>7. DoorsNext => \/ UNCHANGED invites
                     \/ \E t \in Tokens : Expire(t)
                     \/ \E t \in Tokens, p \in Profiles : RedeemInvite(p, t)
                     \/ \E t \in Tokens, p \in Profiles, m \in Members : CreateInvite(p, m, t)
    BY ZenonT(30) DEF DoorsNext, CreateGroupLink, Rejoin, ClaimPlaceholder, JoinAsNew
  <2>8. GroupNext \/ RevokeNext \/ LedgerNext \/ UNCHANGED vars => UNCHANGED invites
    BY DEF GroupNext, UpdateGroup, RevokeNext, RevokeGroupLink, LedgerNext, PutEntry, vars, tables
  <2> QED
    BY <2>5, <2>6, <2>7, <2>8, <2>9 DEF Next
<1>2. CASE UNCHANGED invites
  BY <1>2 DEF OneOpenIn, Unspent
<1>3. CASE \A t \in Tokens : invites'[t] = None
  BY <1>3 DEF OneOpenIn, Unspent
<1>4. ASSUME NEW t \in Tokens, Expire(t)
      PROVE  OneOpenIn(invites)'
  <2>1. \A u \in Tokens, m \in Members : Unspent(invites', u, m) => Unspent(invites, u, m)
    BY <1>4 DEF Expire, Unspent, RowsTyped, InviteRow
  <2> QED
    BY <2>1 DEF OneOpenIn
<1>5. ASSUME NEW t \in Tokens, NEW p \in Profiles, RedeemInvite(p, t)
      PROVE  OneOpenIn(invites)'
  <2>1. \A u \in Tokens, m \in Members : Unspent(invites', u, m) => Unspent(invites, u, m)
    BY <1>5 DEF RedeemInvite, InviteOpen, Unspent, RowsTyped, InviteRow
  <2> QED
    BY <2>1 DEF OneOpenIn
<1>6. ASSUME NEW t \in Tokens, NEW p \in Profiles, NEW m \in Members, CreateInvite(p, m, t)
      PROVE  OneOpenIn(invites)'
  <2> DEFINE row == [member |-> m, redeemedBy |-> None, expired |-> FALSE]
  <2>1. invites' = [Reissued(m) EXCEPT ![t] = row]
    BY <1>6 DEF CreateInvite
  <2>2. row.member = m
    OBVIOUS
  <2> HIDE DEF row
  <2>3. ASSUME NEW u \in Tokens, NEW n \in Members, Unspent(invites', u, n)
        PROVE  (u = t /\ n = m) \/ (u # t /\ n # m /\ Unspent(invites, u, n))
    BY <2>1, <2>2, <2>3 DEF Reissued, Unspent
  <2> QED
    BY <2>3 DEF OneOpenIn
<1> QED
  BY <1>1, <1>2, <1>3, <1>4, <1>5, <1>6

\* However invites are reissued, expire and are redeemed, one that can still
\* hand over a place is the only one for it.
THEOREM OneOpenHolds == Spec => []OneOpenInvite
<1>1. Init => OneOpenIn(invites)
  BY DEF Init, OneOpenIn, Unspent
<1> QED
  BY <1>1, RowsCorrect, OneOpenForm, OneOpenStep, PTL DEF Spec
=============================================================================
