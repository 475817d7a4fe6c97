--------------------------- MODULE IndexFlushProofs ---------------------------
(***************************************************************************)
(* The index in D1 says what the roster says once nothing is owed, never   *)
(* brings a collected group or a deleted account back, and the group's     *)
(* participants behave as Participation promises: for any accounts, any    *)
(* number of ids and faults of every kind.                                 *)
(***************************************************************************)
EXTENDS IndexFlush, SequenceTheorems, FiniteSetTheorems, TLAPS

-----------------------------------------------------------------------------
(* The inductive invariant. *)

\* The id of the outbox's oldest row, or the next one of all.
Base == nextId - Len(outbox)

\* The outbox is what is left of the ids given out: its rows are numbered in
\* one run up to the next.
Numbered ==
    /\ Len(outbox) < nextId
    /\ \A i \in 1..Len(outbox) : outbox[i].id = Base + i - 1

\* A membership row is of an account and a standing.
Writable(row) ==
    row.kind = "membership" => row.profile \in Profiles /\ row.standing \in Standings

Formed ==
    /\ \A i \in 1..Len(outbox) : Writable(outbox[i])
    /\ stray # None => Writable(stray)

\* D1 has what the row says, or has a reason never to take it.
Applied(row) ==
    \/ row.kind = "link_token"
    \/ row.kind = "group_purged" /\ buried
    \/ /\ row.kind = "membership"
       /\ \/ row.profile \notin users
          \/ buried
          \/ idx[row.profile] # None /\ idx[row.profile].version >= row.id

\* A group goes on while somebody is active, and its end is the last it tells.
Ends ==
    /\ status # "live" => place = Empty
    /\ status = "live" => Active(place) # {}
    /\ buried => status = "purged" /\ idx = Empty /\ ~routed
    /\ status = "purged" =>
         buried \/ (outbox # <<>> /\ outbox[Len(outbox)].kind = "group_purged")
    /\ \A i \in 1..Len(outbox) : outbox[i].kind = "group_purged" => status = "purged"
    /\ stray # None => (stray.kind = "group_purged" => status = "purged")

\* The index is behind the outbox, or has just been given its first row.
Given(p, row) ==
    /\ row.kind = "membership" /\ row.profile = p
    /\ row.standing = idx[p].standing /\ row.id = idx[p].version

Behind ==
    \A p \in Profiles : idx[p] # None =>
        idx[p].version < Base \/ (outbox # <<>> /\ Given(p, outbox[1]))

\* The rows that are of an account.
Owes(p, i) == outbox[i].kind = "membership" /\ outbox[i].profile = p
LastOf(p, i) == Owes(p, i) /\ \A j \in 1..Len(outbox) : Owes(p, j) => j <= i

\* What the last row owed for an account says, or the index if none is, is what
\* the roster says.
Mirrored(p) ==
    /\ \A i \in 1..Len(outbox) : LastOf(p, i) => outbox[i].standing = place[p]
    /\ (\A i \in 1..Len(outbox) : ~Owes(p, i)) => StandingIn(idx[p]) = place[p]

Mirrors == status # "purged" => \A p \in users : Mirrored(p)

\* After its statement ran, the first row is in D1 and still in the outbox.
Sent ==
    phase \in {"read", "clear", "forget"} =>
        /\ outbox # <<>>
        /\ Applied(outbox[1])
        /\ phase \in {"read", "forget"} => outbox[1].kind = "membership"
        /\ phase = "forget" => outbox[1].profile \notin users

\* A write given up on is the first row, or one whose work has been done.
Late ==
    stray # None =>
        \/ stray.id < Base /\ Applied(stray)
        \/ outbox # <<>> /\ stray = outbox[1]

\* Only accounts whose user row is gone are being ended.
Gone == \A r \in Runs : ending[r] # None => r[2] \notin users

Inv ==
    /\ TypeOK /\ Numbered /\ Formed /\ Ends /\ Behind
    /\ Mirrors /\ Sent /\ Late /\ Gone

-----------------------------------------------------------------------------
(* A transaction. *)

Body == [kind : {"membership", "link_token", "group_purged"},
         profile : Profiles \cup {None}, standing : Standings \cup {None}]

\* What a transaction may come to: nothing; the group's end; a link; or one
\* account's new standing, beside which only an account that is gone loses its.
Kept(o) == o.status = status /\ o.place = place /\ o.rows = <<>>

Ended(o) ==
    /\ status # "purged"
    /\ o.status = "purged" /\ o.place = Empty
    /\ o.rows # <<>> /\ o.rows[Len(o.rows)].kind = "group_purged"

Goes(o) ==
    /\ status # "purged"
    /\ o.status = "live" /\ Active(o.place) # {}

Quiet(o) ==
    /\ Goes(o)
    /\ o.rows = <<>> \/ o.rows = <<LinkToken>>
    /\ \A p \in users : o.place[p] = place[p]

Moves(o) ==
    /\ Goes(o)
    /\ \E h \in Profiles : \E s \in Standings :
         /\ o.rows = <<Membership(h, s)>>
         /\ o.place[h] = s
         /\ \A p \in users \ {h} : o.place[p] = place[p]

Sound(o) ==
    /\ o.status \in {"none", "live", "purged"}
    /\ o.place \in [Profiles -> Standings \cup {None}]
    /\ o.rows \in Seq(Body)
    /\ \A i \in 1..Len(o.rows) : Writable(o.rows[i])
    /\ Kept(o) \/ Ended(o) \/ Quiet(o) \/ Moves(o)

\* The rows after the first ones.
LEMMA Rest ==
    ASSUME NEW list \in Seq(Row), NEW n \in {0, 1}, n <= Len(list)
    PROVE  /\ SubSeq(list, n + 1, Len(list)) \in Seq(Row)
           /\ Len(SubSeq(list, n + 1, Len(list))) = Len(list) - n
           /\ \A i \in 1..(Len(list) - n) :
                SubSeq(list, n + 1, Len(list))[i] = list[i + n]
<1> DEFINE rest == SubSeq(list, n + 1, Len(list))
<1>1. Len(list) \in Nat /\ n + 1 \in Int /\ Len(list) \in Int
      /\ \A i \in (n + 1)..Len(list) : list[i] \in Row
  OBVIOUS
<1>2. /\ rest \in Seq(Row)
      /\ Len(rest) = IF n + 1 <= Len(list) THEN Len(list) - (n + 1) + 1 ELSE 0
      /\ \A i \in 1..(Len(list) - (n + 1) + 1) : rest[i] = list[(n + 1) + i - 1]
  BY <1>1, SubSeqProperties
<1> HIDE DEF rest
<1>3. Len(rest) = Len(list) - n
  BY <1>1, <1>2
<1>4. \A i \in 1..(Len(list) - n) : rest[i] = list[i + n]
  BY <1>1, <1>2
<1>5. rest \in Seq(Row) /\ Len(rest) = Len(list) - n
      /\ \A i \in 1..(Len(list) - n) : rest[i] = list[i + n]
  BY <1>2, <1>3, <1>4
<1> QED
  BY <1>5 DEF rest

\* One list of rows after another.
LEMMA Joined ==
    ASSUME NEW one \in Seq(Row), NEW two \in Seq(Row)
    PROVE  /\ one \o two \in Seq(Row)
           /\ Len(one \o two) = Len(one) + Len(two)
           /\ \A i \in 1..Len(one) : (one \o two)[i] = one[i]
           /\ \A i \in 1..Len(two) : (one \o two)[Len(one) + i] = two[i]
OBVIOUS

\* The outbox after a transaction that drops its first rows and adds others.
LEMMA Queued ==
    ASSUME TypeOK, NEW o, Sound(o), NEW sent \in {0, 1}, sent <= Len(outbox),
           Commit(o, sent)
    PROVE  /\ outbox' \in Seq(Row) /\ nextId' \in Nat
           /\ nextId' = nextId + Len(o.rows)
           /\ Len(outbox') = Len(outbox) - sent + Len(o.rows)
           /\ \A i \in 1..(Len(outbox) - sent) : outbox'[i] = outbox[i + sent]
           /\ \A i \in 1..Len(o.rows) :
                outbox'[Len(outbox) - sent + i] =
                  [id |-> nextId + i - 1, kind |-> o.rows[i].kind,
                   profile |-> o.rows[i].profile, standing |-> o.rows[i].standing]
<1> DEFINE old == SubSeq(outbox, sent + 1, Len(outbox))
           new == [i \in 1..Len(o.rows) |->
                     [id |-> nextId + i - 1, kind |-> o.rows[i].kind,
                      profile |-> o.rows[i].profile, standing |-> o.rows[i].standing]]
<1>1. outbox \in Seq(Row) /\ nextId \in Nat /\ o.rows \in Seq(Body)
      /\ Len(outbox) \in Nat /\ Len(o.rows) \in Nat
  BY DEF TypeOK, Sound
<1>2. /\ old \in Seq(Row) /\ Len(old) = Len(outbox) - sent
      /\ \A i \in 1..Len(old) : old[i] = outbox[i + sent]
  BY <1>1, Rest
<1>3. new \in Seq(Row) /\ Len(new) = Len(o.rows)
  <2>1. ASSUME NEW i \in 1..Len(o.rows)
        PROVE  new[i] \in Row
    <3>1. o.rows[i] \in Body /\ nextId + i - 1 \in Nat
      BY <1>1
    <3> QED
      BY <3>1 DEF Body, Row
  <2>2. new \in [1..Len(o.rows) -> Row]
    BY <2>1
  <2> HIDE DEF new
  <2> QED
    BY <1>1, <2>2
<1>4. outbox' = old \o new /\ nextId' = nextId + Len(o.rows)
  BY DEF Commit
<1>5. \A i \in 1..Len(o.rows) :
        new[i] = [id |-> nextId + i - 1, kind |-> o.rows[i].kind,
                  profile |-> o.rows[i].profile, standing |-> o.rows[i].standing]
  OBVIOUS
<1> HIDE DEF old, new
<1>6. /\ outbox' \in Seq(Row) /\ Len(outbox') = Len(old) + Len(new)
      /\ \A i \in 1..Len(old) : outbox'[i] = old[i]
      /\ \A i \in 1..Len(new) : outbox'[Len(old) + i] = new[i]
  BY <1>2, <1>3, <1>4, Joined
<1>7. Len(outbox') = Len(outbox) - sent + Len(o.rows)
  BY <1>1, <1>2, <1>3, <1>6
<1>8. \A i \in 1..(Len(outbox) - sent) : outbox'[i] = outbox[i + sent]
  BY <1>1, <1>2, <1>6
<1>9. \A i \in 1..Len(o.rows) : outbox'[Len(outbox) - sent + i] = new[i]
  BY <1>1, <1>2, <1>3, <1>6
<1>10. nextId' \in Nat
  BY <1>1, <1>4
<1> QED
  BY <1>4, <1>5, <1>6, <1>7, <1>8, <1>9, <1>10

\* What a transaction was handed: its outcome, with the rows it drops already
\* in D1.
Commits(o, sent) ==
    /\ Sound(o) /\ sent \in {0, 1} /\ Commit(o, sent)
    /\ UNCHANGED <<users, idx, routed, buried, stray>>
    /\ sent = 1 => phase \in {"clear", "forget"} /\ phase' = "send"
    /\ sent = 0 => phase' = phase

\* What it leaves in the outbox, row by row.
Drops(o, sent) ==
    /\ sent <= Len(outbox) /\ Len(outbox) \in Nat /\ Len(o.rows) \in Nat
    /\ sent = 1 => Len(outbox) > 0 /\ Applied(outbox[1])
    /\ Len(outbox') = Len(outbox) - sent + Len(o.rows)
    /\ nextId \in Nat /\ nextId' = nextId + Len(o.rows)
    /\ Base' = Base + sent
    /\ \A i \in 1..(Len(outbox) - sent) : outbox'[i] = outbox[i + sent]
    /\ \A i \in 1..Len(o.rows) :
         LET row == outbox'[Len(outbox) - sent + i] IN
         /\ row.id = nextId + i - 1 /\ row.kind = o.rows[i].kind
         /\ row.profile = o.rows[i].profile /\ row.standing = o.rows[i].standing
    /\ \A i \in 1..Len(outbox') :
         \/ i \in 1..(Len(outbox) - sent)
         \/ \E j \in 1..Len(o.rows) : i = Len(outbox) - sent + j

\* Whatever it came to, the outbox is what was left with its rows behind.
LEMMA Dropping ==
    ASSUME Inv, NEW o, NEW sent, Commits(o, sent)
    PROVE  /\ Drops(o, sent)
           /\ outbox' \in Seq(Row) /\ nextId' \in Nat
           /\ status' = o.status /\ place' = o.place
<1>1. Sound(o) /\ sent \in {0, 1} /\ Commit(o, sent)
  BY DEF Commits
<1>2. outbox \in Seq(Row) /\ Len(outbox) \in Nat /\ Len(o.rows) \in Nat /\ nextId \in Nat
  BY <1>1 DEF Inv, TypeOK, Sound
<1>3. sent = 1 => Len(outbox) > 0 /\ Applied(outbox[1])
  BY <1>2 DEF Commits, Inv, Sent
<1>4. sent <= Len(outbox)
  BY <1>1, <1>2, <1>3
<1>5. TypeOK
  BY DEF Inv
<1>6. /\ outbox' \in Seq(Row) /\ nextId' \in Nat
      /\ nextId' = nextId + Len(o.rows)
      /\ Len(outbox') = Len(outbox) - sent + Len(o.rows)
      /\ \A i \in 1..(Len(outbox) - sent) : outbox'[i] = outbox[i + sent]
      /\ \A i \in 1..Len(o.rows) :
           outbox'[Len(outbox) - sent + i] =
             [id |-> nextId + i - 1, kind |-> o.rows[i].kind,
              profile |-> o.rows[i].profile, standing |-> o.rows[i].standing]
  BY <1>1, <1>4, <1>5, Queued
<1>7. Base' = Base + sent
  BY <1>1, <1>2, <1>6 DEF Base
<1>8. \A i \in 1..Len(outbox') :
         \/ i \in 1..(Len(outbox) - sent)
         \/ \E j \in 1..Len(o.rows) : i = Len(outbox) - sent + j
  <2> SUFFICES ASSUME NEW i \in 1..Len(outbox'), i \notin 1..(Len(outbox) - sent)
               PROVE  \E j \in 1..Len(o.rows) : i = Len(outbox) - sent + j
    OBVIOUS
  <2>1. i - (Len(outbox) - sent) \in 1..Len(o.rows)
    BY <1>1, <1>2, <1>4, <1>6
  <2>2. i = Len(outbox) - sent + (i - (Len(outbox) - sent))
    BY <1>1, <1>2
  <2> QED
    BY <2>1, <2>2
<1>9. status' = o.status /\ place' = o.place
  BY <1>1 DEF Commit
<1>10. ASSUME NEW i \in 1..Len(o.rows)
       PROVE  LET row == outbox'[Len(outbox) - sent + i] IN
              /\ row.id = nextId + i - 1 /\ row.kind = o.rows[i].kind
              /\ row.profile = o.rows[i].profile /\ row.standing = o.rows[i].standing
  <2> DEFINE row == outbox'[Len(outbox) - sent + i]
  <2>1. row = [id |-> nextId + i - 1, kind |-> o.rows[i].kind,
               profile |-> o.rows[i].profile, standing |-> o.rows[i].standing]
    BY <1>6
  <2> HIDE DEF row
  <2>2. /\ row.id = nextId + i - 1 /\ row.kind = o.rows[i].kind
        /\ row.profile = o.rows[i].profile /\ row.standing = o.rows[i].standing
    BY <2>1
  <2> QED
    BY <2>2 DEF row
<1> QED
  BY <1>2, <1>3, <1>4, <1>6, <1>7, <1>8, <1>9, <1>10 DEF Drops

\* The rows stay numbered in one run, and well formed.
LEMMA CommitNumbers ==
    ASSUME Inv, NEW o, NEW sent, Commits(o, sent)
    PROVE  Numbered' /\ Formed'
<1>1. Drops(o, sent) /\ sent \in {0, 1}
  BY Dropping DEF Commits
<1>2. Len(outbox') < nextId'
  BY <1>1 DEF Drops, Inv, Numbered
<1>3. ASSUME NEW i \in 1..Len(outbox') PROVE outbox'[i].id = Base' + i - 1
  <2>1. CASE i \in 1..(Len(outbox) - sent)
    <3>1. i + sent \in 1..Len(outbox)
      BY <1>1, <2>1 DEF Drops
    <3>2. outbox[i + sent].id = Base + (i + sent) - 1
      BY <3>1 DEF Inv, Numbered
    <3>3. Base \in Int
      BY <1>1 DEF Drops, Base
    <3> QED
      BY <1>1, <2>1, <3>2, <3>3 DEF Drops
  <2>2. ASSUME NEW j \in 1..Len(o.rows), i = Len(outbox) - sent + j
        PROVE  outbox'[i].id = Base' + i - 1
    <3>1. outbox'[i].id = nextId + j - 1
      BY <1>1, <2>2 DEF Drops
    <3>2. Base' = Base + sent /\ Base = nextId - Len(outbox)
      BY <1>1 DEF Drops, Base
    <3>3. Base + sent + (Len(outbox) - sent + j) - 1 = nextId + j - 1
      BY <1>1, <3>2 DEF Drops
    <3> QED
      BY <2>2, <3>1, <3>2, <3>3
  <2> QED
    BY <1>1, <2>1, <2>2 DEF Drops
<1>4. ASSUME NEW i \in 1..Len(outbox') PROVE Writable(outbox'[i])
  <2>1. CASE i \in 1..(Len(outbox) - sent)
    <3>1. i + sent \in 1..Len(outbox)
      BY <1>1, <2>1 DEF Drops
    <3> QED
      BY <1>1, <2>1, <3>1 DEF Drops, Inv, Formed
  <2>2. ASSUME NEW j \in 1..Len(o.rows), i = Len(outbox) - sent + j
        PROVE  Writable(outbox'[i])
    BY <1>1, <2>2 DEF Drops, Commits, Sound, Writable
  <2> QED
    BY <1>1, <2>1, <2>2 DEF Drops
<1>5. stray' # None => Writable(stray')
  BY DEF Commits, Inv, Formed
<1> QED
  BY <1>2, <1>3, <1>4, <1>5 DEF Numbered, Formed

\* The first row stays first until it is dropped, and then D1 has it.
LEMMA CommitBehind ==
    ASSUME Inv, NEW o, NEW sent, Commits(o, sent)
    PROVE  Behind' /\ Sent' /\ Late'
<1>1. Drops(o, sent) /\ sent \in {0, 1} /\ UNCHANGED <<users, idx, buried, stray>>
  BY Dropping DEF Commits
<1>2. Base \in Int
  BY <1>1 DEF Drops, Base
<1>3. ASSUME outbox # <<>>, sent = 0
      PROVE  outbox' # <<>> /\ outbox'[1] = outbox[1]
  <2>1. Len(outbox) > 0 /\ 1 \in 1..(Len(outbox) - sent)
    BY <1>1, <1>3 DEF Drops, Inv, TypeOK
  <2>2. outbox'[1] = outbox[1]
    BY <1>1, <1>3, <2>1 DEF Drops
  <2>3. Len(outbox') > 0
    BY <1>1, <1>3, <2>1 DEF Drops
  <2> QED
    BY <2>2, <2>3
<1>4. sent = 1 => outbox[1].id = Base /\ Applied(outbox[1])
  BY <1>1, <1>2 DEF Drops, Inv, Numbered
<1>5. ASSUME NEW row PROVE Applied(row)' = Applied(row)
  BY <1>1 DEF Applied
<1>6. ASSUME NEW p \in Profiles, idx'[p] # None
      PROVE  idx'[p].version < Base' \/ (outbox' # <<>> /\ Given(p, outbox[1])')
  <2>1. idx[p] # None /\ idx'[p] = idx[p] /\ idx[p].version \in Nat
    BY <1>1, <1>6 DEF Inv, TypeOK, IndexRow
  <2>2. CASE idx[p].version < Base
    BY <1>1, <1>2, <2>1, <2>2 DEF Drops
  <2>3. CASE outbox # <<>> /\ Given(p, outbox[1])
    <3>1. CASE sent = 0
      BY <1>1, <1>3, <2>3, <3>1 DEF Given
    <3>2. CASE sent = 1
      BY <1>1, <1>2, <1>4, <2>1, <2>3, <3>2 DEF Given, Drops
    <3> QED
      BY <1>1, <3>1, <3>2
  <2> QED
    BY <2>1, <2>2, <2>3 DEF Inv, Behind
<1>7. Sent'
  <2>1. CASE sent = 0
    <3>1. phase' = phase
      BY <2>1 DEF Commits
    <3> QED
      BY <1>1, <1>3, <1>5, <2>1, <3>1 DEF Inv, Sent
  <2>2. CASE sent = 1
    BY <2>2 DEF Commits, Sent
  <2> QED
    BY <1>1, <2>1, <2>2
<1>8. ASSUME stray' # None
      PROVE  \/ stray'.id < Base' /\ Applied(stray)'
             \/ outbox' # <<>> /\ stray' = outbox'[1]
  <2>1. stray # None /\ stray' = stray /\ stray.id \in Nat
    BY <1>1, <1>8 DEF Inv, TypeOK, Row
  <2>2. CASE stray.id < Base /\ Applied(stray)
    BY <1>1, <1>2, <1>5, <2>1, <2>2 DEF Drops
  <2>3. CASE outbox # <<>> /\ stray = outbox[1]
    <3>1. CASE sent = 0
      BY <1>1, <1>3, <2>1, <2>3, <3>1
    <3>2. CASE sent = 1
      BY <1>1, <1>2, <1>4, <1>5, <2>1, <2>3, <3>2 DEF Drops
    <3> QED
      BY <1>1, <3>1, <3>2
  <2> QED
    BY <2>1, <2>2, <2>3 DEF Inv, Late
<1> QED
  BY <1>6, <1>7, <1>8 DEF Behind, Late

\* A group that ends says so last; one that has ended says no more.
LEMMA CommitEnds ==
    ASSUME Inv, NEW o, NEW sent, Commits(o, sent)
    PROVE  Ends'
<1>1. /\ Drops(o, sent) /\ sent \in {0, 1} /\ Sound(o)
      /\ UNCHANGED <<idx, routed, buried, stray>>
      /\ status' = o.status /\ place' = o.place
      /\ outbox \in Seq(Row) /\ outbox' \in Seq(Row) /\ o.rows \in Seq(Body)
  BY Dropping DEF Commits, Sound, Inv, TypeOK
<1>2. Ends
  BY DEF Inv
<1>3. Kept(o) \/ (status # "purged" /\ (Ended(o) \/ Goes(o)))
  BY <1>1 DEF Sound, Ended, Goes, Quiet, Moves
<1>4. status' # "live" => place' = Empty
  BY <1>1, <1>2, <1>3 DEF Ends, Kept, Ended, Goes
<1>5. status' = "live" => Active(place') # {}
  BY <1>1, <1>2, <1>3 DEF Ends, Kept, Ended, Goes
<1>6. buried' => status' = "purged" /\ idx' = Empty /\ ~routed'
  BY <1>1, <1>2, <1>3 DEF Ends, Kept
<1>7. ASSUME status' = "purged"
      PROVE  buried' \/ (outbox' # <<>> /\ outbox'[Len(outbox')].kind = "group_purged")
  <2>1. CASE Kept(o)
    <3>1. o.rows = <<>> /\ status = "purged" /\ Len(o.rows) = 0
      BY <1>1, <1>7, <2>1 DEF Kept
    <3>2. CASE buried
      BY <1>1, <3>2
    <3>3. CASE ~buried
      <4>1. Len(outbox) > 0 /\ outbox[Len(outbox)].kind = "group_purged"
        BY <1>1, <1>2, <3>1, <3>3 DEF Ends
      <4>2. ~(sent = 1 /\ Len(outbox) = 1)
        BY <1>1, <3>3, <4>1 DEF Drops, Applied
      <4>3. Len(outbox') = Len(outbox) - sent /\ Len(outbox) \in Nat
        BY <1>1, <3>1 DEF Drops
      <4>4. Len(outbox') \in 1..(Len(outbox) - sent) /\ Len(outbox') + sent = Len(outbox)
        BY <1>1, <4>1, <4>2, <4>3
      <4>5. outbox'[Len(outbox')] = outbox[Len(outbox)]
        BY <1>1, <4>4 DEF Drops
      <4>6. outbox' # <<>>
        BY <1>1, <4>4
      <4> QED
        BY <4>1, <4>5, <4>6
    <3> QED
      BY <3>2, <3>3
  <2>2. CASE Ended(o)
    <3>1. Len(o.rows) \in 1..Len(o.rows) /\ o.rows[Len(o.rows)].kind = "group_purged"
      BY <1>1, <2>2 DEF Ended
    <3>2. Len(outbox') = Len(outbox) - sent + Len(o.rows) /\ Len(outbox') > 0
      BY <1>1, <3>1 DEF Drops
    <3>3. outbox'[Len(outbox')].kind = "group_purged"
      BY <1>1, <3>1, <3>2 DEF Drops
    <3>4. outbox' # <<>>
      BY <1>1, <3>2
    <3> QED
      BY <3>3, <3>4
  <2>3. CASE Goes(o)
    BY <1>1, <1>7, <2>3 DEF Goes
  <2> QED
    BY <1>3, <2>1, <2>2, <2>3
<1>8. ASSUME NEW i \in 1..Len(outbox'), outbox'[i].kind = "group_purged"
      PROVE  status' = "purged"
  <2>1. CASE i \in 1..(Len(outbox) - sent)
    <3>1. i + sent \in 1..Len(outbox) /\ outbox'[i] = outbox[i + sent]
      BY <1>1, <2>1 DEF Drops
    <3>2. status = "purged"
      BY <1>2, <1>8, <3>1 DEF Ends
    <3> QED
      BY <1>1, <1>3, <3>2 DEF Kept
  <2>2. ASSUME NEW j \in 1..Len(o.rows), i = Len(outbox) - sent + j
        PROVE  status' = "purged"
    <3>1. o.rows[j].kind = "group_purged"
      BY <1>1, <1>8, <2>2 DEF Drops
    <3>2. ~Kept(o)
      BY <2>2 DEF Kept
    <3>3. ~Quiet(o)
      <4>1. o.rows = <<LinkToken>> => FALSE
        BY <2>2, <3>1 DEF LinkToken
      <4> QED
        BY <2>2, <4>1 DEF Quiet
    <3>4. ~Moves(o)
      <4>1. ASSUME NEW h \in Profiles, NEW s \in Standings, o.rows = <<Membership(h, s)>>
            PROVE  FALSE
        <5>1. j = 1 /\ o.rows[1] = Membership(h, s)
          BY <2>2, <4>1
        <5> QED
          BY <3>1, <5>1 DEF Membership
      <4> QED
        BY <4>1 DEF Moves
    <3> QED
      BY <1>1, <3>2, <3>3, <3>4 DEF Sound, Ended
  <2> QED
    BY <1>1, <2>1, <2>2 DEF Drops
<1>9. stray' # None => (stray'.kind = "group_purged" => status' = "purged")
  BY <1>1, <1>2, <1>3 DEF Ends, Kept
<1> QED
  BY <1>4, <1>5, <1>6, <1>7, <1>8, <1>9 DEF Ends

\* The rows an account is still owed once the first one is dropped.
Left(p, sent) ==
    /\ \A i \in 1..(Len(outbox) - sent) :
         /\ Owes(p, i + sent)
         /\ \A j \in 1..(Len(outbox) - sent) : Owes(p, j + sent) => j <= i
         => outbox[i + sent].standing = place[p]
    /\ (\A i \in 1..(Len(outbox) - sent) : ~Owes(p, i + sent)) =>
         StandingIn(idx[p]) = place[p]

\* Dropping a row D1 has leaves the index saying what the row said.
LEMMA DropMirrors ==
    ASSUME Inv, NEW p \in users, status # "purged", NEW sent \in {0, 1},
           sent = 1 => Len(outbox) > 0 /\ Applied(outbox[1])
    PROVE  Left(p, sent)
<1>1. Mirrored(p) /\ p \in Profiles /\ outbox \in Seq(Row) /\ Len(outbox) \in Nat
  BY DEF Inv, Mirrors, TypeOK
<1>2. CASE sent = 0
  <2>1. \A i \in 1..Len(outbox) : i + sent = i
    BY <1>1, <1>2
  <2>2. Len(outbox) - sent = Len(outbox)
    BY <1>1, <1>2
  <2> QED
    BY <1>1, <2>1, <2>2 DEF Left, Mirrored, LastOf
<1>3. CASE sent = 1
  <2>1. ASSUME NEW i \in 1..(Len(outbox) - 1), Owes(p, i + 1),
               \A j \in 1..(Len(outbox) - 1) : Owes(p, j + 1) => j <= i
        PROVE  outbox[i + 1].standing = place[p]
    <3>1. i + 1 \in 1..Len(outbox)
      BY <1>1
    <3>2. ASSUME NEW k \in 1..Len(outbox), Owes(p, k) PROVE k <= i + 1
      <4>1. CASE k = 1
        BY <4>1
      <4>2. CASE k # 1
        <5>1. k - 1 \in 1..(Len(outbox) - 1) /\ (k - 1) + 1 = k
          BY <1>1, <4>2
        <5>2. k - 1 <= i
          BY <2>1, <3>2, <5>1
        <5> QED
          BY <5>1, <5>2
      <4> QED
        BY <4>1, <4>2
    <3> QED
      BY <1>1, <2>1, <3>1, <3>2 DEF Mirrored, LastOf
  <2>2. ASSUME \A i \in 1..(Len(outbox) - 1) : ~Owes(p, i + 1)
        PROVE  StandingIn(idx[p]) = place[p]
    <3>1. ASSUME NEW k \in 1..Len(outbox), k # 1 PROVE ~Owes(p, k)
      <4>1. k - 1 \in 1..(Len(outbox) - 1) /\ (k - 1) + 1 = k
        BY <1>1, <3>1
      <4> QED
        BY <2>2, <4>1
    <3>2. CASE ~Owes(p, 1)
      BY <1>1, <3>1, <3>2 DEF Mirrored
    <3>3. CASE Owes(p, 1)
      <4>1. 1 \in 1..Len(outbox) /\ Applied(outbox[1]) /\ outbox[1].id = Base /\ Base \in Int
        BY <1>1, <1>3 DEF Inv, Numbered, Base, TypeOK
      <4>2. outbox[1].standing = place[p]
        BY <1>1, <3>1, <3>3, <4>1 DEF Mirrored, LastOf
      <4>3. ~buried
        BY DEF Inv, Ends
      <4>4. idx[p] # None /\ idx[p].version >= Base
        BY <3>3, <4>1, <4>3 DEF Applied, Owes
      <4>5. idx[p].version \in Nat
        BY <1>1, <4>4 DEF Inv, TypeOK, IndexRow
      <4>6. Given(p, outbox[1])
        BY <1>1, <4>1, <4>4, <4>5 DEF Inv, Behind
      <4> QED
        BY <4>2, <4>4, <4>6 DEF Given, StandingIn
    <3> QED
      BY <3>2, <3>3
  <2> QED
    BY <1>3, <2>1, <2>2 DEF Left
<1> QED
  BY <1>2, <1>3

\* Whose standing changes is told; who is told nothing keeps theirs.
LEMMA CommitMirrors ==
    ASSUME Inv, NEW o, NEW sent, Commits(o, sent)
    PROVE  Mirrors'
<1> SUFFICES ASSUME status' # "purged", NEW p \in users'
             PROVE  Mirrored(p)'
  BY DEF Mirrors
<1>1. /\ Drops(o, sent) /\ sent \in {0, 1} /\ Sound(o)
      /\ UNCHANGED <<users, idx>> /\ p \in users
      /\ status' = o.status /\ place' = o.place /\ o.rows \in Seq(Body)
  BY Dropping DEF Commits, Sound
<1>2. status # "purged" /\ (Kept(o) \/ Quiet(o) \/ Moves(o))
  BY <1>1 DEF Sound, Ended, Kept, Quiet, Moves, Goes
<1>3. Left(p, sent)
  BY <1>1, <1>2, DropMirrors DEF Drops
<1>4. ASSUME \A i \in 1..Len(o.rows) :
                ~(o.rows[i].kind = "membership" /\ o.rows[i].profile = p),
             place'[p] = place[p]
      PROVE  Mirrored(p)'
  <2>1. ASSUME NEW i \in 1..(Len(outbox) - sent)
        PROVE  /\ i \in 1..Len(outbox')
               /\ outbox'[i] = outbox[i + sent] /\ (Owes(p, i)' <=> Owes(p, i + sent))
    BY <1>1, <2>1, SMTT(30) DEF Drops, Owes
  <2>2. ASSUME NEW i \in 1..Len(outbox'), Owes(p, i)' PROVE i \in 1..(Len(outbox) - sent)
    <3>1. ASSUME NEW j \in 1..Len(o.rows), i = Len(outbox) - sent + j PROVE FALSE
      BY <1>1, <1>4, <2>2, <3>1 DEF Drops, Owes
    <3> QED
      BY <1>1, <3>1 DEF Drops
  <2>3. ASSUME NEW i \in 1..Len(outbox'), LastOf(p, i)'
        PROVE  outbox'[i].standing = place'[p]
    <3>1. i \in 1..(Len(outbox) - sent) /\ Owes(p, i)'
      BY <2>2, <2>3 DEF LastOf
    <3>2. \A j \in 1..(Len(outbox) - sent) : Owes(p, j + sent) => j <= i
      BY <2>1, <2>3 DEF LastOf
    <3>3. outbox[i + sent].standing = place[p]
      BY <1>3, <2>1, <3>1, <3>2 DEF Left
    <3> QED
      BY <1>4, <2>1, <3>1, <3>3
  <2>4. ASSUME \A i \in 1..Len(outbox') : ~Owes(p, i)'
        PROVE  StandingIn(idx[p])' = place'[p]
    <3>1. \A i \in 1..(Len(outbox) - sent) : ~Owes(p, i + sent)
      BY <2>1, <2>4
    <3> QED
      BY <1>1, <1>3, <1>4, <3>1 DEF Left, StandingIn
  <2> QED
    BY <2>3, <2>4 DEF Mirrored
<1>5. CASE Kept(o)
  BY <1>1, <1>4, <1>5 DEF Kept
<1>6. CASE Quiet(o)
  <2>1. \A i \in 1..Len(o.rows) : o.rows[i].kind # "membership"
    <3>1. CASE o.rows = <<>>
      BY <3>1
    <3>2. CASE o.rows = <<LinkToken>>
      BY <3>2 DEF LinkToken
    <3> QED
      BY <1>6, <3>1, <3>2 DEF Quiet
  <2>2. place'[p] = place[p]
    BY <1>1, <1>6 DEF Quiet
  <2> QED
    BY <1>4, <2>1, <2>2
<1>7. CASE Moves(o)
  <2>1. PICK h \in Profiles, s \in Standings :
          /\ o.rows = <<Membership(h, s)>> /\ o.place[h] = s
          /\ \A q \in users \ {h} : o.place[q] = place[q]
    BY <1>7 DEF Moves
  <2>2. /\ Len(o.rows) = 1 /\ o.rows[1] = Membership(h, s)
        /\ o.rows[1].kind = "membership" /\ o.rows[1].profile = h /\ o.rows[1].standing = s
    BY <2>1 DEF Membership
  <2>3. CASE p = h
    <3>1. Len(outbox') = Len(outbox) - sent + 1 /\ Len(outbox') \in 1..Len(outbox')
      BY <1>1, <2>2 DEF Drops
    <3>2. /\ outbox'[Len(outbox')].kind = "membership" /\ outbox'[Len(outbox')].profile = p
          /\ outbox'[Len(outbox')].standing = s
      BY <1>1, <2>2, <2>3, <3>1 DEF Drops
    <3>3. Owes(p, Len(outbox))'
      BY <3>2 DEF Owes
    <3>4. \A i \in 1..Len(outbox') : LastOf(p, i)' => i = Len(outbox')
      BY <3>1, <3>3 DEF LastOf
    <3> QED
      BY <1>1, <2>1, <2>3, <3>1, <3>2, <3>3, <3>4 DEF Mirrored
  <2>4. CASE p # h
    <3>1. place'[p] = place[p]
      BY <1>1, <2>1, <2>4
    <3>2. \A i \in 1..Len(o.rows) : o.rows[i].profile # p
      BY <2>2, <2>4
    <3> QED
      BY <1>4, <3>1, <3>2
  <2> QED
    BY <2>3, <2>4
<1> QED
  BY <1>2, <1>5, <1>6, <1>7

\* Every transaction keeps what the outbox, the roster and the index promise
\* each other.
LEMMA CommitKeeps ==
    ASSUME Inv, NEW o, NEW sent, Commits(o, sent)
    PROVE  /\ Numbered' /\ Formed' /\ Ends' /\ Behind' /\ Mirrors' /\ Sent' /\ Late'
           /\ outbox' \in Seq(Row) /\ nextId' \in Nat
           /\ status' \in {"none", "live", "purged"}
           /\ place' \in [Profiles -> Standings \cup {None}]
<1>1. status' = o.status /\ place' = o.place /\ outbox' \in Seq(Row) /\ nextId' \in Nat
  BY Dropping
<1>2. Sound(o)
  BY DEF Commits
<1> QED
  BY <1>1, <1>2, CommitNumbers, CommitBehind, CommitEnds, CommitMirrors DEF Sound

-----------------------------------------------------------------------------
(* What the handlers' transactions come to. *)

\* A roster with somebody active goes on, one without ends.
LEMMA Collects ==
    ASSUME NEW roster, NEW rows \in Seq(Body)
    PROVE  /\ Active(roster) = {} =>
                /\ Outcome(roster, rows).status = "purged"
                /\ Outcome(roster, rows).place = Empty
                /\ Outcome(roster, rows).rows = Append(rows, GroupPurged)
           /\ Active(roster) # {} =>
                /\ Outcome(roster, rows).status = "live"
                /\ Outcome(roster, rows).place = roster
                /\ Outcome(roster, rows).rows = rows
BY DEF Outcome

\* The rows are well formed.
LEMMA Bodies ==
    /\ GroupPurged \in Body /\ GroupPurged.kind = "group_purged"
    /\ LinkToken \in Body /\ LinkToken.kind = "link_token"
    /\ \A p \in Profiles : \A s \in Standings :
         /\ Membership(p, s) \in Body /\ Membership(p, s).kind = "membership"
         /\ Membership(p, s).profile = p /\ Membership(p, s).standing = s
BY DEF Body, GroupPurged, LinkToken, Membership

\* A group whose roster nobody is active in is collected, whatever else it says.
LEMMA EndSound ==
    ASSUME TypeOK, status # "purged", NEW roster, Active(roster) = {},
           NEW rows \in Seq(Body), \A i \in 1..Len(rows) : Writable(rows[i])
    PROVE  Sound(Outcome(roster, rows))
<1> DEFINE o == Outcome(roster, rows)
<1>1. o.status = "purged" /\ o.place = Empty /\ o.rows = Append(rows, GroupPurged)
  BY Collects
<1> HIDE DEF o
<1>2. GroupPurged \in Body /\ GroupPurged.kind = "group_purged"
  BY Bodies
<1>3. /\ o.rows \in Seq(Body) /\ Len(o.rows) = Len(rows) + 1
      /\ o.rows[Len(o.rows)] = GroupPurged
      /\ \A i \in 1..Len(rows) : o.rows[i] = rows[i]
  BY <1>1, <1>2
<1>4. o.rows # <<>>
  BY <1>1
<1>5. \A i \in 1..Len(o.rows) : Writable(o.rows[i])
  <2> SUFFICES ASSUME NEW i \in 1..Len(o.rows) PROVE Writable(o.rows[i])
    OBVIOUS
  <2>1. CASE i = Len(o.rows)
    BY <1>2, <1>3, <2>1 DEF Writable
  <2>2. CASE i # Len(o.rows)
    BY <1>3, <2>2
  <2> QED
    BY <2>1, <2>2
<1>6. Ended(o)
  BY <1>1, <1>2, <1>3, <1>4 DEF Ended
<1>7. Empty \in [Profiles -> Standings \cup {None}]
  BY DEF Empty
<1>8. Sound(o)
  BY <1>1, <1>3, <1>5, <1>6, <1>7 DEF Sound
<1> QED
  BY <1>8 DEF o

\* One account's standing changes and is told; only accounts that are gone
\* change theirs beside it.
LEMMA MoveSound ==
    ASSUME TypeOK, status # "purged", NEW h \in Profiles, NEW s \in Standings,
           NEW o, o.status = "live", o.rows = <<Membership(h, s)>>,
           o.place \in [Profiles -> Standings \cup {None}],
           Active(o.place) # {}, o.place[h] = s,
           \A p \in users \ {h} : o.place[p] = place[p]
    PROVE  Sound(o)
<1>1. Membership(h, s) \in Body /\ Writable(Membership(h, s))
  BY Bodies DEF Writable
<1>2. o.rows \in Seq(Body) /\ \A i \in 1..Len(o.rows) : Writable(o.rows[i])
  BY <1>1
<1>3. Moves(o)
  BY DEF Moves, Goes
<1> QED
  BY <1>2, <1>3 DEF Sound

\* Nothing is said, or a link: only accounts that are gone change.
LEMMA QuietSound ==
    ASSUME TypeOK, status # "purged", NEW o, o.status = "live",
           o.rows = <<>> \/ o.rows = <<LinkToken>>,
           o.place \in [Profiles -> Standings \cup {None}],
           Active(o.place) # {}, \A p \in users : o.place[p] = place[p]
    PROVE  Sound(o)
<1>1. LinkToken \in Body /\ Writable(LinkToken)
  BY Bodies DEF Writable
<1>2. o.rows \in Seq(Body) /\ \A i \in 1..Len(o.rows) : Writable(o.rows[i])
  <2>1. CASE o.rows = <<>>
    BY <2>1
  <2>2. CASE o.rows = <<LinkToken>>
    BY <1>1, <2>2
  <2> QED
    BY <2>1, <2>2
<1>3. Quiet(o)
  BY DEF Quiet, Goes
<1> QED
  BY <1>2, <1>3 DEF Sound

\* Nothing is to be done.
LEMMA UnchangedSound == TypeOK => Sound(Unchanged)
<1> SUFFICES ASSUME TypeOK PROVE Sound(Unchanged)
  OBVIOUS
<1>1. Unchanged.status = status /\ Unchanged.place = place /\ Unchanged.rows = <<>>
  BY DEF Unchanged
<1> QED
  BY <1>1 DEF Sound, Kept, TypeOK

\* A place becomes nobody's, after an account's return or after nothing.
LEMMA ForgottenSound ==
    ASSUME TypeOK, status # "purged", NEW p \in Profiles, p \notin users,
           NEW roster \in [Profiles -> Standings \cup {None}], NEW rows,
           \/ roster = place /\ rows = <<>>
           \/ \E h \in Profiles \ {p} :
                /\ roster = [place EXCEPT ![h] = "active"]
                /\ rows = <<Membership(h, "active")>>
    PROVE  Sound(Forgotten(roster, rows, p))
<1> DEFINE left == [roster EXCEPT ![p] = None]
           o == Outcome(left, rows)
<1>1. left \in [Profiles -> Standings \cup {None}] /\ \A q \in Profiles \ {p} : left[q] = roster[q]
  OBVIOUS
<1> HIDE DEF left
<1>2. users \subseteq Profiles /\ place \in [Profiles -> Standings \cup {None}]
  BY DEF TypeOK
<1>3. ASSUME roster = place, rows = <<>> PROVE Sound(o)
  <2>1. rows \in Seq(Body) /\ \A i \in 1..Len(rows) : Writable(rows[i])
    BY <1>3
  <2>2. CASE Active(left) = {}
    BY <2>1, <2>2, EndSound
  <2>3. CASE Active(left) # {}
    <3>1. o.status = "live" /\ o.place = left /\ o.rows = <<>>
      BY <1>3, <2>1, <2>3, Collects
    <3> HIDE DEF o
    <3>2. \A q \in users : o.place[q] = place[q]
      BY <1>1, <1>2, <1>3, <3>1
    <3> QED
      BY <1>1, <2>3, <3>1, <3>2, QuietSound
  <2> QED
    BY <2>2, <2>3
<1>4. ASSUME NEW h \in Profiles \ {p}, roster = [place EXCEPT ![h] = "active"],
             rows = <<Membership(h, "active")>>
      PROVE  Sound(o)
  <2>1. rows \in Seq(Body) /\ "active" \in Standings
    BY <1>4, Bodies DEF Standings
  <2>2. left[h] = "active" /\ h \in Active(left)
    BY <1>1, <1>2, <1>4 DEF Active
  <2>3. o.status = "live" /\ o.place = left /\ o.rows = rows
    BY <2>1, <2>2, Collects
  <2> HIDE DEF o
  <2>4. \A q \in users \ {h} : o.place[q] = place[q]
    BY <1>1, <1>2, <1>4, <2>3
  <2>5. /\ o.rows = <<Membership(h, "active")>> /\ o.place[h] = "active"
        /\ Active(o.place) # {} /\ o.place \in [Profiles -> Standings \cup {None}]
    BY <1>1, <1>4, <2>2, <2>3
  <2> QED
    BY <1>4, <2>1, <2>3, <2>4, <2>5, MoveSound
<1>5. Sound(o)
  BY <1>3, <1>4
<1> QED
  BY <1>5 DEF Forgotten, left

\* Forgetting an account whose user row is gone, by the drain or a deletion.
LEMMA ForgetSound ==
    ASSUME TypeOK, NEW p \in Profiles, p \notin users
    PROVE  Sound(ForgetProfile(p))
<1>1. CASE status = "live" /\ place[p] # None
  <2>1. Sound(Forgotten(place, <<>>, p))
    BY <1>1, ForgottenSound DEF TypeOK
  <2> QED
    BY <1>1, <2>1 DEF ForgetProfile
<1>2. CASE ~(status = "live" /\ place[p] # None)
  BY <1>2, UnchangedSound DEF ForgetProfile
<1> QED
  BY <1>1, <1>2

\* Either outcome of a hand-over leaves the accounts that remain told.
LEMMA HandOverSound ==
    ASSUME TypeOK, Ends, NEW g \in Profiles, g \notin users, NEW h \in Profiles
    PROVE  Sound(HandOver(g, h))
<1>1. CASE status # "live" \/ place[g] = None
  BY <1>1, UnchangedSound DEF HandOver
<1>2. CASE status = "live" /\ place[g] # None /\ place[h] = None
  <2> DEFINE new == [place EXCEPT ![h] = place[g], ![g] = None]
             o == [status |-> "live", place |-> new, rows |-> <<Membership(h, place[g])>>]
  <2>1. place \in [Profiles -> Standings \cup {None}] /\ g # h /\ place[g] \in Standings
        /\ users \subseteq Profiles
    BY <1>2 DEF TypeOK
  <2>2. /\ new \in [Profiles -> Standings \cup {None}] /\ new[h] = place[g]
        /\ \A q \in Profiles \ {g, h} : new[q] = place[q]
    BY <2>1
  <2> HIDE DEF new
  <2>3. Active(new) # {}
    <3>1. PICK q \in Profiles : place[q] = "active"
      BY <1>2 DEF Ends, Active
    <3>2. place[h] # "active"
      BY <1>2, NullAssumption DEF Standings
    <3>3. CASE q = g
      BY <2>2, <3>1, <3>3 DEF Active
    <3>4. CASE q # g
      BY <2>2, <3>1, <3>2, <3>4 DEF Active
    <3> QED
      BY <3>3, <3>4
  <2>4. o.status = "live" /\ o.place = new /\ o.rows = <<Membership(h, place[g])>>
    OBVIOUS
  <2>5. HandOver(g, h) = o
    BY <1>2 DEF HandOver, new
  <2> HIDE DEF o
  <2>6. \A q \in users \ {h} : o.place[q] = place[q]
    BY <2>1, <2>2, <2>4
  <2>7. Sound(o)
    BY <1>2, <2>1, <2>2, <2>3, <2>4, <2>6, MoveSound
  <2> QED
    BY <2>5, <2>7
<1>3. CASE /\ status = "live" /\ place[g] # None /\ place[h] # None
           /\ place[g] = "active" /\ place[h] = "left"
  <2>1. g # h /\ place \in [Profiles -> Standings \cup {None}] /\ "active" \in Standings
    BY <1>3 DEF TypeOK, Standings
  <2>2. [place EXCEPT ![h] = "active"] \in [Profiles -> Standings \cup {None}]
    BY <2>1
  <2>3. Sound(Forgotten([place EXCEPT ![h] = "active"], <<Membership(h, "active")>>, g))
    BY <1>3, <2>1, <2>2, ForgottenSound
  <2> QED
    BY <1>3, <2>3 DEF HandOver
<1>4. CASE /\ status = "live" /\ place[g] # None /\ place[h] # None
           /\ ~(place[g] = "active" /\ place[h] = "left")
  <2>1. Sound(Forgotten(place, <<>>, g))
    BY <1>4, ForgottenSound DEF TypeOK
  <2> QED
    BY <1>4, <2>1 DEF HandOver
<1> QED
  BY <1>1, <1>2, <1>3, <1>4

-----------------------------------------------------------------------------
(* What a statement does when it gets to D1. *)

\* A statement that runs: the first row's, or an older one given up on.
Reaches(row) ==
    /\ row \in Row /\ Writable(row) /\ Lands(row)
    /\ row.kind = "group_purged" => status = "purged"
    /\ \/ outbox # <<>> /\ row = outbox[1]
       \/ row.id < Base /\ Applied(row)
    /\ UNCHANGED <<object, users>>

\* It changes at most one row of the index, and that to a later version.
LEMMA LandsRow ==
    ASSUME Inv, NEW row, Reaches(row)
    PROVE  /\ idx' \in [Profiles -> IndexRow \cup {None}]
           /\ routed' \in BOOLEAN /\ buried' \in BOOLEAN
           /\ \/ idx' = idx
              \/ /\ row.kind = "membership"
                 /\ row.profile \in users /\ ~buried /\ Newer(row.profile, row.id)
                 /\ idx'[row.profile] # None
                 /\ idx'[row.profile].standing = row.standing
                 /\ idx'[row.profile].version = row.id
                 /\ \A q \in Profiles \ {row.profile} : idx'[q] = idx[q]
              \/ row.kind = "group_purged" /\ idx' = Empty
           /\ buried => buried'
           /\ buried' => buried \/ row.kind = "group_purged"
           /\ row.kind = "group_purged" => buried' /\ idx' = Empty /\ ~routed'
<1>1. idx \in [Profiles -> IndexRow \cup {None}] /\ routed \in BOOLEAN /\ buried \in BOOLEAN
      /\ users \subseteq Profiles /\ row.id \in Nat
  BY DEF Inv, TypeOK, Reaches, Row
<1>2. Lands(row) /\ Writable(row)
  BY DEF Reaches
<1>3. CASE row.kind = "membership"
  <2> DEFINE new == [standing |-> row.standing, version |-> row.id]
  <2>1. new \in IndexRow /\ new # None /\ new.standing = row.standing /\ new.version = row.id
    <3>1. row.standing \in Standings
      BY <1>2, <1>3 DEF Writable
    <3>2. new \in IndexRow
      BY <1>1, <3>1 DEF IndexRow
    <3> QED
      BY <3>2, NullAssumption
  <2>2. UNCHANGED <<routed, buried>>
    BY <1>2, <1>3 DEF Lands
  <2>3. CASE AccountExists(row.profile) /\ NotPurged /\ Newer(row.profile, row.id)
    <3>1. idx' = [idx EXCEPT ![row.profile] = new] /\ row.profile \in users /\ ~buried
      BY <1>2, <1>3, <2>3 DEF Lands, AccountExists, NotPurged
    <3> HIDE DEF new
    <3> QED
      BY <1>1, <1>3, <2>1, <2>2, <2>3, <3>1
  <2>4. CASE ~(AccountExists(row.profile) /\ NotPurged /\ Newer(row.profile, row.id))
    <3>1. idx' = idx
      BY <1>2, <1>3, <2>4 DEF Lands
    <3> QED
      BY <1>1, <1>3, <2>2, <3>1
  <2> QED
    BY <2>3, <2>4
<1>4. CASE row.kind = "link_token"
  BY <1>1, <1>2, <1>4 DEF Lands
<1>5. CASE row.kind = "group_purged"
  BY <1>1, <1>2, <1>5 DEF Lands, Empty
<1> QED
  BY <1>3, <1>4, <1>5 DEF Reaches, Row

\* Nothing D1 has is undone, and the statement itself has been done.
LEMMA LandsApplied ==
    ASSUME Inv, NEW row, Reaches(row)
    PROVE  /\ Applied(row)'
           /\ \A x \in Row : Writable(x) /\ Applied(x) => Applied(x)'
<1>1. /\ users' = users /\ row.id \in Nat /\ users \subseteq Profiles
      /\ idx \in [Profiles -> IndexRow \cup {None}]
      /\ \A p \in Profiles : idx[p] # None => idx[p].version \in Nat
      /\ row.kind \in {"membership", "link_token", "group_purged"}
  BY DEF Reaches, Inv, TypeOK, Row, IndexRow
<1>2. Applied(row)'
  <2>1. CASE row.kind = "membership"
    <3>1. Writable(row) /\ row.profile \in Profiles
      BY <2>1 DEF Reaches, Writable
    <3>2. CASE row.profile \in users /\ ~buried /\ Newer(row.profile, row.id)
      <4>1. idx' = [idx EXCEPT ![row.profile] = [standing |-> row.standing, version |-> row.id]]
        BY <2>1, <3>2 DEF Reaches, Lands, AccountExists, NotPurged
      <4>2. idx' # idx
        <5>1. CASE idx[row.profile] = None
          <6>1. [standing |-> row.standing, version |-> row.id] \in IndexRow
            BY <1>1, <2>1, <3>1 DEF IndexRow, Writable
          <6> QED
            BY <1>1, <3>1, <4>1, <5>1, <6>1, NullAssumption
        <5>2. CASE idx[row.profile] # None
          <6>1. row.id > idx[row.profile].version
            BY <3>2, <5>2 DEF Newer
          <6>2. idx'[row.profile] = [standing |-> row.standing, version |-> row.id]
            BY <1>1, <3>1, <4>1
          <6>3. idx'[row.profile].version = row.id
            BY <6>2
          <6> QED
            BY <1>1, <3>1, <5>2, <6>1, <6>3
        <5> QED
          BY <5>1, <5>2
      <4> QED
        BY <1>1, <2>1, <4>2, LandsRow DEF Applied
    <3>3. CASE row.profile \notin users
      BY <1>1, <2>1, <3>3 DEF Applied
    <3>4. CASE buried
      BY <2>1, <3>4, LandsRow DEF Applied
    <3>5. CASE row.profile \in users /\ ~buried /\ ~Newer(row.profile, row.id)
      <4>1. idx[row.profile] # None /\ idx[row.profile].version >= row.id
        BY <1>1, <3>1, <3>5 DEF Newer
      <4>2. idx' = idx
        BY <2>1, <3>5, LandsRow
      <4> QED
        BY <2>1, <4>1, <4>2 DEF Applied
    <3> QED
      BY <3>2, <3>3, <3>4, <3>5
  <2>2. CASE row.kind = "link_token"
    BY <2>2 DEF Applied
  <2>3. CASE row.kind = "group_purged"
    BY <2>3, LandsRow DEF Applied
  <2> QED
    BY <1>1, <2>1, <2>2, <2>3
<1>3. ASSUME NEW x \in Row, Writable(x), Applied(x) PROVE Applied(x)'
  <2>1. CASE x.kind = "link_token"
    BY <2>1 DEF Applied
  <2>2. CASE buried
    BY <1>3, <2>2, LandsRow DEF Applied
  <2>3. CASE x.kind = "membership" /\ x.profile \notin users
    BY <1>1, <2>3 DEF Applied
  <2>4. CASE /\ x.kind = "membership" /\ x.profile \in users
             /\ idx[x.profile] # None /\ idx[x.profile].version >= x.id
    <3>1. x.id \in Nat /\ x.profile \in Profiles
      BY <1>1, <1>3, <2>4 DEF Row
    <3>2. CASE row.kind = "membership" /\ idx' # idx
      <4>1. idx'[x.profile] # None /\ idx'[x.profile].version >= x.id
        <5>1. CASE x.profile = row.profile
          <6>1. /\ idx'[x.profile] # None /\ idx'[x.profile].version = row.id
                /\ Newer(x.profile, row.id)
            BY <3>2, <5>1, LandsRow
          <6> QED
            BY <1>1, <2>4, <3>1, <6>1 DEF Newer
        <5>2. CASE x.profile # row.profile
          BY <2>4, <3>1, <3>2, <5>2, LandsRow
        <5> QED
          BY <5>1, <5>2
      <4> QED
        BY <2>4, <4>1 DEF Applied
    <3>3. CASE idx' = idx
      BY <2>4, <3>3 DEF Applied
    <3>4. CASE row.kind = "group_purged"
      BY <2>4, <3>4, LandsRow DEF Applied
    <3> QED
      BY <3>2, <3>3, <3>4, LandsRow
  <2> QED
    BY <1>3, <2>1, <2>2, <2>3, <2>4 DEF Applied
<1> QED
  BY <1>2, <1>3

\* The roster and the index go on agreeing about who remains.
LEMMA LandsKeeps ==
    ASSUME Inv, NEW row, Reaches(row), stray' = None \/ stray' = stray
    PROVE  Numbered' /\ Formed' /\ Ends' /\ Behind' /\ Mirrors'
<1>1. /\ UNCHANGED <<status, place, outbox, nextId, users>>
      /\ users \subseteq Profiles /\ row.id \in Nat
      /\ outbox \in Seq(Row) /\ nextId \in Nat /\ Base' = Base /\ Base \in Int
      /\ row.kind = "group_purged" => status = "purged"
  BY DEF Reaches, object, Inv, TypeOK, Row, Base
<1>2. Numbered' /\ Formed'
  BY <1>1 DEF Inv, Numbered, Formed, Base
<1>3. Ends'
  <2>1. Ends
    BY DEF Inv
  <2>2. ASSUME buried' PROVE status' = "purged" /\ idx' = Empty /\ ~routed'
    <3>1. CASE row.kind = "group_purged"
      BY <1>1, <3>1, LandsRow
    <3>2. CASE row.kind # "group_purged"
      <4>1. buried /\ status = "purged" /\ idx = Empty /\ ~routed
        BY <2>1, <2>2, <3>2, LandsRow DEF Ends
      <4>2. idx' = idx
        BY <3>2, <4>1, LandsRow
      <4>3. ~routed'
        BY <3>2, <4>1 DEF Reaches, Lands, NotPurged
      <4> QED
        BY <1>1, <4>1, <4>2, <4>3
    <3> QED
      BY <3>1, <3>2
  <2>3. buried => buried'
    BY LandsRow
  <2> QED
    BY <1>1, <2>1, <2>2, <2>3 DEF Ends
<1>4. ASSUME NEW p \in Profiles, idx'[p] # None
      PROVE  idx'[p].version < Base' \/ (outbox' # <<>> /\ Given(p, outbox[1])')
  <2>1. CASE idx'[p] = idx[p]
    BY <1>1, <1>4, <2>1 DEF Inv, Behind, Given
  <2>2. CASE row.kind = "membership" /\ p = row.profile /\ idx'[p] # idx[p]
    <3>1. idx'[p].standing = row.standing /\ idx'[p].version = row.id
      BY <2>2, LandsRow
    <3>2. CASE outbox # <<>> /\ row = outbox[1]
      BY <1>1, <2>2, <3>1, <3>2 DEF Given
    <3>3. CASE row.id < Base
      BY <1>1, <3>1, <3>3
    <3> QED
      BY <3>2, <3>3 DEF Reaches
  <2>3. idx' = Empty => FALSE
    BY <1>4 DEF Empty
  <2> QED
    BY <2>1, <2>2, <2>3, LandsRow
<1>5. ASSUME status' # "purged", NEW p \in users' PROVE Mirrored(p)'
  <2>1. Mirrored(p) /\ p \in users /\ p \in Profiles /\ status # "purged" /\ ~buried
    BY <1>1, <1>5 DEF Inv, Mirrors, Ends
  <2>2. CASE idx'[p] = idx[p]
    BY <1>1, <2>1, <2>2 DEF Mirrored, LastOf, Owes, StandingIn
  <2>3. CASE idx'[p] # idx[p]
    <3>1. row.kind = "membership" /\ row.profile = p /\ Newer(p, row.id)
      BY <1>1, <2>1, <2>3, LandsRow
    <3>2. CASE outbox # <<>> /\ row = outbox[1]
      <4>1. 1 \in 1..Len(outbox) /\ Owes(p, 1)
        BY <1>1, <3>1, <3>2 DEF Owes
      <4>2. Owes(p, 1)' /\ 1 \in 1..Len(outbox')
        BY <1>1, <4>1 DEF Owes
      <4>3. \A i \in 1..Len(outbox') : LastOf(p, i)' => LastOf(p, i)
        BY <1>1 DEF LastOf, Owes
      <4> QED
        BY <1>1, <2>1, <4>2, <4>3 DEF Mirrored
    <3>3. CASE row.id < Base /\ Applied(row)
      <4>1. idx[p] # None /\ idx[p].version >= row.id
        BY <2>1, <3>1, <3>3 DEF Applied
      <4>2. idx[p].version \in Nat
        BY <2>1, <4>1 DEF Inv, TypeOK, IndexRow
      <4> QED
        BY <1>1, <3>1, <4>1, <4>2 DEF Newer
    <3> QED
      BY <3>2, <3>3 DEF Reaches
  <2> QED
    BY <2>2, <2>3
<1> QED
  BY <1>2, <1>3, <1>4, <1>5 DEF Behind, Mirrors

\* Taking an account's row out of the index once its user row is gone.
LEMMA EraseApplied ==
    ASSUME Inv, NEW p \in Profiles, p \notin users,
           idx' = [idx EXCEPT ![p] = None], UNCHANGED <<object, users, buried>>,
           NEW x \in Row, Applied(x)
    PROVE  Applied(x)'
<1>1. idx \in [Profiles -> IndexRow \cup {None}]
  BY DEF Inv, TypeOK
<1>2. CASE x.kind = "membership" /\ x.profile \in users /\ ~buried
  <2>1. x.profile \in Profiles /\ x.profile # p
    BY <1>2 DEF Inv, TypeOK
  <2>2. idx'[x.profile] = idx[x.profile]
    BY <1>1, <2>1
  <2> QED
    BY <1>2, <2>2 DEF Applied
<1>3. CASE ~(x.kind = "membership" /\ x.profile \in users /\ ~buried)
  BY <1>3 DEF Applied
<1> QED
  BY <1>2, <1>3

\* What it does to the index, nobody who remains can tell.
LEMMA EraseKeeps ==
    ASSUME Inv, NEW p \in Profiles, p \notin users,
           idx' = [idx EXCEPT ![p] = None],
           UNCHANGED <<object, users, routed, buried, stray, phase>>
    PROVE  /\ idx' \in [Profiles -> IndexRow \cup {None}]
           /\ Numbered' /\ Formed' /\ Ends' /\ Behind' /\ Mirrors' /\ Sent' /\ Late'
<1>1. /\ idx \in [Profiles -> IndexRow \cup {None}]
      /\ idx' \in [Profiles -> IndexRow \cup {None}]
      /\ idx'[p] = None /\ \A q \in Profiles \ {p} : idx'[q] = idx[q]
      /\ UNCHANGED <<status, place, outbox, nextId>> /\ Base' = Base
      /\ outbox \in Seq(Row) /\ stray \in Row \cup {None} /\ users \subseteq Profiles
  BY DEF Inv, TypeOK, object, Base
<1>2. Numbered' /\ Formed'
  BY <1>1 DEF Inv, Numbered, Formed
<1>3. idx = Empty => idx' = Empty
  BY <1>1 DEF Empty
<1>4. Ends'
  BY <1>1, <1>3 DEF Inv, Ends
<1>5. Behind'
  BY <1>1 DEF Inv, Behind, Given
<1>6. ASSUME status # "purged", NEW q \in users PROVE Mirrored(q)'
  <2>1. Mirrored(q) /\ idx'[q] = idx[q]
    BY <1>1, <1>6 DEF Inv, Mirrors
  <2> QED
    BY <1>1, <2>1 DEF Mirrored, LastOf, Owes, StandingIn
<1>7. outbox # <<>> => outbox[1] \in Row
  BY <1>1
<1>8. Sent'
  BY <1>1, <1>7, EraseApplied DEF Inv, Sent
<1>9. Late'
  BY <1>1, EraseApplied DEF Inv, Late
<1> QED
  BY <1>1, <1>2, <1>4, <1>5, <1>6, <1>8, <1>9 DEF Mirrors

\* A user row that goes takes nobody else's with it.
LEMMA EndUserKeeps ==
    ASSUME Inv, NEW p \in Profiles, EndUser(p)
    PROVE  Numbered' /\ Formed' /\ Ends' /\ Behind' /\ Mirrors' /\ Sent' /\ Late'
<1>1. /\ UNCHANGED <<status, place, outbox, nextId, phase, idx, routed, buried, stray>>
      /\ users' = users \ {p} /\ Base' = Base
  BY DEF EndUser, object, drain, Base
<1>2. Numbered' /\ Formed' /\ Ends' /\ Behind'
  BY <1>1 DEF Inv, Numbered, Formed, Ends, Behind, Given
<1>3. ASSUME status # "purged", NEW q \in users' PROVE Mirrored(q)'
  <2>1. Mirrored(q)
    BY <1>1, <1>3 DEF Inv, Mirrors
  <2> QED
    BY <1>1, <2>1 DEF Mirrored, LastOf, Owes, StandingIn
<1>4. ASSUME NEW x, Applied(x) PROVE Applied(x)'
  BY <1>1, <1>4 DEF Applied
<1>5. Sent'
  BY <1>1, <1>4 DEF Inv, Sent
<1>6. Late'
  BY <1>1, <1>4 DEF Inv, Late
<1> QED
  BY <1>1, <1>2, <1>3, <1>5, <1>6 DEF Mirrors

-----------------------------------------------------------------------------
(* Every step keeps the invariant. *)

\* Faults are counted in natural numbers.
LEMMA FaultTyped ==
    ASSUME TypeOK, NEW kinds, Fault(kinds)
    PROVE  faults' \in Nat
<1>1. IsFiniteSet({"evict", "late", "interrupt"})
  <2>1. IsFiniteSet({"evict"})
    BY FS_Singleton
  <2>2. IsFiniteSet({"evict"} \cup {"late"})
    BY <2>1, FS_AddElement
  <2>3. IsFiniteSet(({"evict"} \cup {"late"}) \cup {"interrupt"})
    BY <2>2, FS_AddElement
  <2>4. ({"evict"} \cup {"late"}) \cup {"interrupt"} = {"evict", "late", "interrupt"}
    OBVIOUS
  <2> QED
    BY <2>3, <2>4
<1>2. kinds \in SUBSET {"evict", "late", "interrupt"}
  BY ConstantsAssumption DEF Fault
<1>3. IsFiniteSet(kinds)
  BY <1>1, <1>2, FS_Subset
<1>4. Cardinality(kinds) \in Nat
  BY <1>3, FS_CardinalityType
<1> QED
  BY <1>4 DEF Fault, TypeOK

\* At first nothing is anywhere.
LEMMA InitInv == Init => Inv
<1> SUFFICES ASSUME Init PROVE Inv
  OBVIOUS
<1>1. TypeOK
  <2>1. /\ Empty \in [Profiles -> Standings \cup {None}]
        /\ Empty \in [Profiles -> IndexRow \cup {None}]
        /\ [r \in Runs |-> None] \in [Runs -> Step \cup {None}]
    BY DEF Empty
  <2>2. <<>> \in Seq(Row)
    OBVIOUS
  <2> QED
    BY <2>1, <2>2 DEF Init, TypeOK
<1>2. Len(outbox) = 0 /\ outbox = <<>> /\ nextId = 1
  BY DEF Init
<1>3. Numbered /\ Formed /\ Behind /\ Sent /\ Late
  BY <1>2 DEF Init, Numbered, Formed, Behind, Sent, Late, Empty
<1>4. Ends
  BY <1>2 DEF Init, Ends
<1>5. Mirrors
  BY <1>2 DEF Init, Mirrors, Mirrored, LastOf, StandingIn, Empty
<1>6. Gone
  BY DEF Init, Gone
<1> QED
  BY <1>1, <1>3, <1>4, <1>5, <1>6 DEF Inv

\* A request commits a sound outcome and asks for a drain.
LEMMA RequestKeeps ==
    ASSUME Inv, NEW o, Sound(o), Request(o)
    PROVE  Inv'
<1>1. Commits(o, 0)
  BY DEF Request, Commits, d1
<1>2. /\ Numbered' /\ Formed' /\ Ends' /\ Behind' /\ Mirrors' /\ Sent' /\ Late'
      /\ outbox' \in Seq(Row) /\ nextId' \in Nat
      /\ status' \in {"none", "live", "purged"}
      /\ place' \in [Profiles -> Standings \cup {None}]
  BY <1>1, CommitKeeps
<1>3. TypeOK'
  BY <1>2 DEF Request, Inv, TypeOK, d1
<1>4. Gone'
  BY DEF Request, Inv, Gone, d1
<1> QED
  BY <1>2, <1>3, <1>4 DEF Inv

\* An account that gets a place is active, and the index is owed as much.
LEMMA ArriveKeeps ==
    ASSUME Inv, NEW p \in Profiles, Arrive(p)
    PROVE  Inv'
<1> DEFINE new == [place EXCEPT ![p] = "active"]
           rows == <<Membership(p, "active")>>
           o == Outcome(new, rows)
<1>1. TypeOK /\ status # "purged" /\ "active" \in Standings
      /\ place \in [Profiles -> Standings \cup {None}] /\ users \subseteq Profiles
  BY DEF Inv, TypeOK, Arrive, Standings
<1>2. /\ new \in [Profiles -> Standings \cup {None}] /\ new[p] = "active"
      /\ \A q \in Profiles \ {p} : new[q] = place[q]
  BY <1>1
<1>3. Request(o)
  BY DEF Arrive
<1>4. rows \in Seq(Body)
  BY <1>1, Bodies
<1> HIDE DEF new
<1>5. Active(new) # {}
  BY <1>2 DEF Active
<1>6. o.status = "live" /\ o.place = new /\ o.rows = rows
  BY <1>4, <1>5, Collects
<1> HIDE DEF o
<1>7. Sound(o)
  <2>1. \A q \in users \ {p} : o.place[q] = place[q]
    BY <1>1, <1>2, <1>6
  <2> QED
    BY <1>1, <1>2, <1>5, <1>6, <2>1, MoveSound
<1> QED
  BY <1>3, <1>7, RequestKeeps

\* An account that leaves is told so, or takes the group with it.
LEMMA LeaveKeeps ==
    ASSUME Inv, NEW p \in Profiles, Leave(p)
    PROVE  Inv'
<1> DEFINE new == [place EXCEPT ![p] = "left"]
           rows == <<Membership(p, "left")>>
           o == Outcome(new, rows)
<1>1. TypeOK /\ status # "purged" /\ "left" \in Standings
      /\ place \in [Profiles -> Standings \cup {None}] /\ users \subseteq Profiles
  BY DEF Inv, TypeOK, Leave, Standings
<1>2. /\ new \in [Profiles -> Standings \cup {None}] /\ new[p] = "left"
      /\ \A q \in Profiles \ {p} : new[q] = place[q]
  BY <1>1
<1>3. Request(o)
  BY DEF Leave
<1>4. rows \in Seq(Body) /\ \A i \in 1..Len(rows) : Writable(rows[i])
  BY <1>1, Bodies DEF Writable
<1> HIDE DEF new
<1>5. CASE Active(new) = {}
  <2>1. Sound(o)
    BY <1>1, <1>4, <1>5, EndSound
  <2> QED
    BY <1>3, <2>1, RequestKeeps
<1>6. CASE Active(new) # {}
  <2>1. o.status = "live" /\ o.place = new /\ o.rows = rows
    BY <1>4, <1>6, Collects
  <2> HIDE DEF o
  <2>2. \A q \in users \ {p} : o.place[q] = place[q]
    BY <1>1, <1>2, <2>1
  <2>3. Sound(o)
    BY <1>1, <1>2, <1>6, <2>1, <2>2, MoveSound
  <2> QED
    BY <1>3, <2>3, RequestKeeps
<1> QED
  BY <1>5, <1>6

\* A link moves nobody.
LEMMA MintKeeps ==
    ASSUME Inv, NEW p \in Profiles, Mint(p)
    PROVE  Inv'
<1> DEFINE o == [status |-> status, place |-> place, rows |-> <<LinkToken>>]
<1>1. TypeOK /\ status = "live" /\ place \in [Profiles -> Standings \cup {None}]
      /\ Active(place) # {}
  BY DEF Inv, TypeOK, Mint, Ends
<1>2. Request(o)
  BY DEF Mint
<1>3. o.status = status /\ o.place = place /\ o.rows = <<LinkToken>>
  OBVIOUS
<1> HIDE DEF o
<1>4. Sound(o)
  BY <1>1, <1>3, QuietSound
<1> QED
  BY <1>2, <1>4, RequestKeeps

\* The first row's statement runs.
LEMMA SendKeeps == Inv /\ Send => Inv'
<1> SUFFICES ASSUME Inv, Send PROVE Inv'
  OBVIOUS
<1>0. PICK row : row = outbox[1]
  OBVIOUS
<1>1. /\ outbox \in Seq(Row) /\ outbox # <<>> /\ row \in Row /\ 1 \in 1..Len(outbox)
      /\ Head(outbox) = row
  BY <1>0 DEF Send, Inv, TypeOK
<1>2. /\ phase' \in {"read", "clear"} /\ (phase' = "read" => row.kind = "membership")
      /\ UNCHANGED <<object, users, stray>>
  BY <1>1 DEF Send
<1>3. Reaches(row)
  BY <1>0, <1>1, <1>2 DEF Send, Reaches, Inv, Formed, Ends
<1>4. Numbered' /\ Formed' /\ Ends' /\ Behind' /\ Mirrors'
  BY <1>2, <1>3, LandsKeeps
<1>5. TypeOK'
  <2>1. idx' \in [Profiles -> IndexRow \cup {None}] /\ routed' \in BOOLEAN /\ buried' \in BOOLEAN
    BY <1>3, LandsRow
  <2>2. phase' \in {"idle", "send", "read", "clear", "forget"}
    BY <1>2
  <2>3. UNCHANGED <<status, place, outbox, nextId, asked, alarm, users, named, stray, ending,
                    faults>>
    BY DEF Send, object
  <2>4. TypeOK
    BY DEF Inv
  <2> QED
    BY <2>1, <2>2, <2>3, <2>4 DEF TypeOK
<1>6. Applied(row)' /\ \A x \in Row : Writable(x) /\ Applied(x) => Applied(x)'
  BY <1>3, LandsApplied
<1>7. Sent'
  BY <1>0, <1>1, <1>2, <1>6 DEF Sent, object
<1>8. Late'
  <2>1. stray # None => stray \in Row /\ Writable(stray)
    BY DEF Inv, TypeOK, Formed
  <2>2. Base' = Base /\ outbox' = outbox /\ stray' = stray
    BY <1>2 DEF object, Base
  <2> QED
    BY <1>6, <2>1, <2>2 DEF Inv, Late
<1>9. Gone'
  BY DEF Send, Inv, Gone
<1> QED
  BY <1>4, <1>5, <1>7, <1>8, <1>9 DEF Inv

\* A statement that was given up on runs after all.
LEMMA StrayKeeps == Inv /\ StrayLands => Inv'
<1> SUFFICES ASSUME Inv, StrayLands PROVE Inv'
  OBVIOUS
<1>1. /\ stray \in Row /\ Writable(stray) /\ stray # None /\ stray' = None
      /\ UNCHANGED <<object, users, phase, ending>>
  BY DEF StrayLands, Inv, TypeOK, Formed, drain
<1>2. Reaches(stray)
  BY <1>1 DEF StrayLands, Reaches, Inv, Ends, Late
<1>3. Numbered' /\ Formed' /\ Ends' /\ Behind' /\ Mirrors'
  BY <1>1, <1>2, LandsKeeps
<1>4. TypeOK'
  BY <1>1, <1>2, LandsRow DEF StrayLands, Inv, TypeOK, object, drain
<1>5. Sent'
  <2>1. outbox # <<>> => outbox[1] \in Row /\ Writable(outbox[1])
    BY DEF Inv, TypeOK, Formed
  <2>2. outbox' = outbox /\ phase' = phase /\ users' = users
    BY <1>1 DEF object
  <2> QED
    BY <1>2, <2>1, <2>2, LandsApplied DEF Inv, Sent
<1>6. Late' /\ Gone'
  BY <1>1 DEF Inv, Late, Gone
<1> QED
  BY <1>3, <1>4, <1>5, <1>6 DEF Inv

\* The first row leaves the outbox with what its answer asks for.
LEMMA ClearKeeps == Inv /\ Clear => Inv'
<1> SUFFICES ASSUME Inv, Clear PROVE Inv'
  OBVIOUS
<1> DEFINE o == IF phase = "forget" THEN ForgetProfile(Head(outbox).profile) ELSE Unchanged
<1>1. TypeOK /\ Sent /\ Formed /\ phase \in {"clear", "forget"}
  BY DEF Inv, Clear
<1>2. Sound(o)
  <2>1. CASE phase = "forget"
    <3>1. /\ outbox # <<>> /\ Head(outbox) = outbox[1] /\ 1 \in 1..Len(outbox)
          /\ outbox[1].kind = "membership" /\ outbox[1].profile \notin users
      BY <1>1, <2>1 DEF TypeOK, Sent
    <3>2. Head(outbox).profile \in Profiles /\ Head(outbox).profile \notin users
      BY <1>1, <3>1 DEF Formed, Writable
    <3> QED
      BY <1>1, <2>1, <3>2, ForgetSound
  <2>2. CASE phase # "forget"
    BY <1>1, <2>2, UnchangedSound
  <2> QED
    BY <2>1, <2>2
<1>3. Commit(o, 1) /\ phase' = "send" /\ UNCHANGED <<asked, alarm, d1, stray, ending, faults>>
  BY DEF Clear
<1> HIDE DEF o
<1>4. Commits(o, 1)
  BY <1>1, <1>2, <1>3 DEF Commits, d1
<1>5. /\ Numbered' /\ Formed' /\ Ends' /\ Behind' /\ Mirrors' /\ Sent' /\ Late'
      /\ outbox' \in Seq(Row) /\ nextId' \in Nat
      /\ status' \in {"none", "live", "purged"}
      /\ place' \in [Profiles -> Standings \cup {None}]
  BY <1>4, CommitKeeps
<1>6. TypeOK'
  BY <1>1, <1>3, <1>5 DEF TypeOK, d1
<1>7. Gone'
  BY <1>3 DEF Inv, Gone, d1
<1> QED
  BY <1>5, <1>6, <1>7 DEF Inv

\* A deletion or a hand-over reaches the group.
LEMMA TellKeeps ==
    ASSUME Inv, NEW r \in Runs, TellGroup(r)
    PROVE  Inv'
<1> DEFINE o == IF ending[r].heir = None THEN ForgetProfile(r[2])
                ELSE HandOver(r[2], ending[r].heir)
<1>1. TypeOK /\ Ends /\ Gone /\ ending[r] # None
  BY DEF Inv, TellGroup, At
<1>2. ending[r] \in Step /\ r[2] \in Profiles /\ r[2] \notin users
  BY <1>1 DEF TypeOK, Gone, Runs
<1>3. ending[r].heir \in Profiles \cup {None}
  BY <1>2 DEF Step
<1>4. Sound(o)
  BY <1>1, <1>2, <1>3, ForgetSound, HandOverSound
<1>5. /\ Commit(o, 0) /\ asked' = TRUE /\ GoTo(r, "erase")
      /\ UNCHANGED <<phase, alarm, d1, stray, faults>>
  BY DEF TellGroup
<1> HIDE DEF o
<1>6. Commits(o, 0)
  BY <1>4, <1>5 DEF Commits, d1
<1>7. /\ Numbered' /\ Formed' /\ Ends' /\ Behind' /\ Mirrors' /\ Sent' /\ Late'
      /\ outbox' \in Seq(Row) /\ nextId' \in Nat
      /\ status' \in {"none", "live", "purged"}
      /\ place' \in [Profiles -> Standings \cup {None}]
  BY <1>6, CommitKeeps
<1>8. [ending[r] EXCEPT !.at = "erase"] \in Step
  BY <1>2 DEF Step
<1>9. ending' \in [Runs -> Step \cup {None}]
      /\ \A q \in Runs : ending'[q] # None => ending[q] # None
  BY <1>1, <1>5, <1>8 DEF GoTo, TypeOK
<1>10. TypeOK'
  BY <1>1, <1>5, <1>7, <1>9 DEF TypeOK, d1
<1>11. Gone'
  BY <1>1, <1>5, <1>9 DEF Gone, d1
<1> QED
  BY <1>7, <1>10, <1>11 DEF Inv

\* A step that leaves the object's tables and D1 alone, and at most gives up the
\* first row's statement.
LEMMA DrainKeeps ==
    ASSUME Inv, UNCHANGED <<object, d1, ending>>, Sent', TypeOK',
           stray' = stray \/ (outbox # <<>> /\ stray' = outbox[1])
    PROVE  Inv'
<1>1. /\ UNCHANGED <<status, place, outbox, nextId, users, idx, routed, buried, ending>>
      /\ Base' = Base
  BY DEF object, d1, Base
<1>2. Numbered' /\ Behind' /\ Mirrors' /\ Gone'
  BY <1>1 DEF Inv, Numbered, Behind, Given, Mirrors, Mirrored, LastOf, Owes, StandingIn, Gone
<1>3. outbox # <<>> => 1 \in 1..Len(outbox)
  BY DEF Inv, TypeOK
<1>4. Formed'
  BY <1>1, <1>3 DEF Inv, Formed
<1>5. Ends'
  BY <1>1, <1>3 DEF Inv, Ends
<1>6. \A x : Applied(x) => Applied(x)'
  BY <1>1 DEF Applied
<1>7. Late'
  BY <1>1, <1>6 DEF Inv, Late
<1> QED
  BY <1>2, <1>4, <1>5, <1>7 DEF Inv

\* The drain begins, asks for the account, and ends.
LEMMA DrainsKeep ==
    ASSUME Inv, StartDrain \/ ReadAccount \/ EndDrain \/ AlarmFires
    PROVE  Inv'
<1>1. /\ UNCHANGED <<object, d1, ending>> /\ stray' = stray /\ UNCHANGED faults
      /\ UNCHANGED <<outbox, users, idx, buried>>
      /\ phase' \in {"idle", "send", "read", "clear", "forget"}
      /\ asked' \in BOOLEAN /\ alarm' \in BOOLEAN
  BY DEF StartDrain, ReadAccount, EndDrain, AlarmFires, object, d1, Inv, TypeOK
<1>2. TypeOK'
  BY <1>1 DEF Inv, TypeOK, object, d1
<1>3. \A x : Applied(x) => Applied(x)'
  BY <1>1 DEF Applied
<1>4. Sent'
  <2>1. CASE ReadAccount
    <3>1. phase = "read" /\ outbox # <<>> /\ Head(outbox) = outbox[1]
          /\ Applied(outbox[1]) /\ outbox[1].kind = "membership"
      BY <2>1 DEF ReadAccount, Inv, Sent, TypeOK
    <3>2. phase' \in {"clear", "forget"} /\ (phase' = "forget" => outbox[1].profile \notin users)
      BY <2>1, <3>1 DEF ReadAccount
    <3> QED
      BY <1>1, <1>3, <3>1, <3>2 DEF Sent
  <2>2. CASE StartDrain \/ EndDrain
    BY <2>2 DEF StartDrain, EndDrain, Sent
  <2>3. CASE AlarmFires
    BY <1>1, <1>3, <2>3 DEF AlarmFires, Inv, Sent
  <2> QED
    BY <2>1, <2>2, <2>3
<1> QED
  BY <1>1, <1>2, <1>4, DrainKeeps

\* A call is given up on, by a refusal or with the object.
LEMMA DroppedKeeps ==
    ASSUME Inv, Refused \/ Evict
    PROVE  Inv'
<1>1. PICK kinds : Dropped(kinds)
  BY DEF Refused, Evict
<1>2. phase' = "idle" /\ faults' \in Nat
      /\ (stray' = stray \/ (outbox # <<>> /\ stray' = outbox[1]))
  BY <1>1, FaultTyped DEF Dropped, Inv, TypeOK
<1>3. UNCHANGED <<object, d1, ending>> /\ asked' \in BOOLEAN /\ alarm' \in BOOLEAN
  BY DEF Refused, Evict, Backoff, Inv, TypeOK
<1>4. Sent'
  BY <1>2 DEF Sent
<1>5. outbox # <<>> => outbox[1] \in Row
  BY DEF Inv, TypeOK
<1>6. TypeOK'
  BY <1>2, <1>3, <1>5 DEF Inv, TypeOK, object, d1
<1> QED
  BY <1>2, <1>3, <1>4, <1>6, DrainKeeps

\* A run of forgetAccount that begins, goes on or stops and touches nothing else.
LEMMA RunKeeps ==
    ASSUME Inv, UNCHANGED <<object, phase, users, idx, routed, buried, stray>>, TypeOK',
           \A r \in Runs : ending'[r] # None => ending[r] # None \/ r[2] \notin users
    PROVE  Inv'
<1>1. UNCHANGED <<status, place, outbox, nextId, phase, users, idx, routed, buried, stray>>
      /\ Base' = Base
  BY DEF object, Base
<1>2. Numbered' /\ Formed' /\ Ends' /\ Behind' /\ Mirrors'
  BY <1>1 DEF Inv, Numbered, Formed, Ends, Behind, Given, Mirrors, Mirrored, LastOf, Owes,
              StandingIn
<1>3. \A x : Applied(x) => Applied(x)'
  BY <1>1 DEF Applied
<1>4. Sent' /\ Late'
  BY <1>1, <1>3 DEF Inv, Sent, Late
<1>5. Gone'
  BY <1>1 DEF Inv, Gone
<1> QED
  BY <1>2, <1>4, <1>5 DEF Inv

\* A run that begins or goes on is at one of its steps.
LEMMA Steps ==
    /\ \A at \in {"read", "tell", "erase", "empty"}, h \in Profiles \cup {None} :
         [at |-> at, heir |-> h] \in Step /\ [at |-> at, heir |-> h] # None
    /\ \A step \in Step : \A at \in {"read", "tell", "erase", "empty"} :
         [step EXCEPT !.at = at] \in Step
<1>1. \A at \in {"read", "tell", "erase", "empty"}, h \in Profiles \cup {None} :
         [at |-> at, heir |-> h] \in Step
  BY DEF Step
<1>2. \A step \in Step : \A at \in {"read", "tell", "erase", "empty"} :
         [step EXCEPT !.at = at] \in Step
  BY DEF Step
<1> QED
  BY <1>1, <1>2, NullAssumption

\* A run begins.
LEMMA BeginTyped ==
    ASSUME TypeOK, NEW r \in Runs, NEW at \in {"read", "tell", "erase", "empty"},
           NEW h \in Profiles \cup {None}, Begin(r, at, h)
    PROVE  /\ ending' \in [Runs -> Step \cup {None}]
           /\ \A q \in Runs \ {r} : ending'[q] = ending[q]
BY Steps DEF Begin, TypeOK

\* A user row goes, and a run for its account begins.
LEMMA EndedKeeps ==
    ASSUME Inv, NEW p \in Profiles, EndUser(p), NEW who \in {"request", "sweep"},
           NEW at \in {"read", "empty"}, NEW h \in Profiles \cup {None},
           Begin(<<who, p>>, at, h)
    PROVE  Inv'
<1>1. <<who, p>> \in Runs /\ <<who, p>>[2] = p /\ TypeOK /\ Gone
  BY DEF Runs, Inv
<1>2. /\ ending' \in [Runs -> Step \cup {None}]
      /\ \A q \in Runs \ {<<who, p>>} : ending'[q] = ending[q]
  BY <1>1, BeginTyped
<1>3. users' = users \ {p}
      /\ UNCHANGED <<object, drain, named, idx, routed, buried, stray, faults>>
  BY DEF EndUser
<1>4. TypeOK'
  BY <1>1, <1>2, <1>3 DEF TypeOK, object, drain
<1>5. Gone'
  BY <1>1, <1>2, <1>3 DEF Gone
<1> QED
  BY <1>4, <1>5, EndUserKeeps DEF Inv

\* Deleting an account, signing in to another, and collecting a guest.
LEMMA AccountsKeep ==
    ASSUME Inv, NEW p \in Profiles,
           DeleteAccount(p) \/ CollectGuest(p) \/ \E h \in Profiles : SignIn(p, h)
    PROVE  Inv'
<1>1. CASE DeleteAccount(p)
  BY <1>1, EndedKeeps DEF DeleteAccount
<1>2. CASE CollectGuest(p)
  BY <1>2, EndedKeeps DEF CollectGuest
<1>3. ASSUME NEW h \in Profiles, SignIn(p, h) PROVE Inv'
  BY <1>3, EndedKeeps DEF SignIn
<1> QED
  BY <1>1, <1>2, <1>3

\* The sweep takes an account up again, once its user row is gone.
LEMMA SweepKeeps ==
    ASSUME Inv, NEW p \in Profiles, Sweep(p)
    PROVE  Inv'
<1>1. <<"sweep", p>> \in Runs /\ <<"sweep", p>>[2] = p /\ TypeOK /\ p \notin users
  BY DEF Runs, Inv, Sweep
<1>2. Begin(<<"sweep", p>>, "read", None) /\ UNCHANGED <<object, drain, d1, stray, faults>>
  BY DEF Sweep
<1>3. /\ ending' \in [Runs -> Step \cup {None}]
      /\ \A q \in Runs \ {<<"sweep", p>>} : ending'[q] = ending[q]
  BY <1>1, <1>2, BeginTyped
<1>4. TypeOK'
  BY <1>1, <1>2, <1>3 DEF TypeOK, object, drain, d1
<1>5. \A r \in Runs : ending'[r] # None => ending[r] # None \/ r[2] \notin users
  BY <1>1, <1>3
<1>6. UNCHANGED <<object, phase, users, idx, routed, buried, stray>>
  BY <1>2 DEF drain, d1
<1> QED
  BY <1>4, <1>5, <1>6, RunKeeps

\* The steps of a run under way.
LEMMA RunsKeep ==
    ASSUME Inv, NEW r \in Runs,
           ReadMemberships(r) \/ EraseRow(r) \/ EmptyProfile(r) \/ Interrupt(r)
    PROVE  Inv'
<1>1. TypeOK /\ Gone /\ ending[r] # None /\ ending[r] \in Step
      /\ r[2] \in Profiles /\ r[2] \notin users
  BY DEF Inv, TypeOK, Gone, Runs, ReadMemberships, EraseRow, EmptyProfile, Interrupt, At
<1>2. ASSUME NEW at \in {"read", "tell", "erase", "empty"}, GoTo(r, at)
      PROVE  ending' \in [Runs -> Step \cup {None}]
             /\ \A q \in Runs : ending'[q] # None => ending[q] # None
  <2>1. [ending[r] EXCEPT !.at = at] \in Step
    BY <1>1, Steps
  <2> QED
    BY <1>1, <1>2, <2>1 DEF GoTo, TypeOK
<1>3. CASE ReadMemberships(r)
  <2>1. PICK at \in {"read", "tell", "erase", "empty"} : GoTo(r, at)
    BY <1>3 DEF ReadMemberships
  <2>2. UNCHANGED <<object, drain, d1, stray, faults>>
    BY <1>3 DEF ReadMemberships
  <2>3. TypeOK'
    BY <1>1, <1>2, <2>1, <2>2 DEF TypeOK, object, drain, d1
  <2> QED
    BY <1>2, <2>1, <2>2, <2>3, RunKeeps DEF drain, d1
<1>4. CASE EraseRow(r)
  <2>1. /\ idx' = [idx EXCEPT ![r[2]] = None] /\ GoTo(r, "empty")
        /\ UNCHANGED <<object, drain, users, named, routed, buried, stray, faults>>
    BY <1>4 DEF EraseRow
  <2>2. ending' \in [Runs -> Step \cup {None}]
        /\ \A q \in Runs : ending'[q] # None => ending[q] # None
    BY <1>2, <2>1
  <2>3. UNCHANGED <<object, users, routed, buried, stray, phase>>
    BY <2>1 DEF drain
  <2>4. /\ idx' \in [Profiles -> IndexRow \cup {None}]
        /\ Numbered' /\ Formed' /\ Ends' /\ Behind' /\ Mirrors' /\ Sent' /\ Late'
    BY <1>1, <2>1, <2>3, EraseKeeps
  <2>5. TypeOK'
    BY <1>1, <2>1, <2>2, <2>4 DEF TypeOK, object, drain
  <2>6. Gone'
    BY <1>1, <2>1, <2>2 DEF Gone
  <2> QED
    BY <2>4, <2>5, <2>6 DEF Inv
<1>5. CASE EmptyProfile(r) \/ Interrupt(r)
  <2>1. /\ ending' = [ending EXCEPT ![r] = None]
        /\ UNCHANGED <<object, drain, users, idx, routed, buried, stray>>
        /\ named' \in SUBSET Profiles /\ faults' \in Nat
    <3>1. CASE EmptyProfile(r)
      BY <1>1, <3>1 DEF EmptyProfile, TypeOK
    <3>2. CASE Interrupt(r)
      BY <1>1, <3>2, FaultTyped DEF Interrupt, TypeOK, d1
    <3> QED
      BY <1>5, <3>1, <3>2
  <2>2. ending' \in [Runs -> Step \cup {None}]
        /\ \A q \in Runs : ending'[q] # None => ending[q] # None
    BY <1>1, <2>1 DEF TypeOK
  <2>3. TypeOK'
    BY <1>1, <2>1, <2>2 DEF TypeOK, object, drain
  <2> QED
    BY <2>1, <2>2, <2>3, RunKeeps DEF drain
<1> QED
  BY <1>3, <1>4, <1>5

\* Nothing happens.
LEMMA StutterKeeps == Inv /\ UNCHANGED vars => Inv'
<1> SUFFICES ASSUME Inv, UNCHANGED vars PROVE Inv'
  OBVIOUS
<1>1. UNCHANGED <<object, phase, users, idx, routed, buried, stray, ending>>
  BY DEF vars, drain, d1
<1>2. TypeOK'
  BY DEF Inv, TypeOK, vars, object, drain, d1
<1> QED
  BY <1>1, <1>2, RunKeeps

\* Every step keeps the invariant.
LEMMA NextInv == Inv /\ [Next]_vars => Inv'
<1> SUFFICES ASSUME Inv, [Next]_vars PROVE Inv'
  OBVIOUS
<1>1. CASE PeopleNext
  BY <1>1, ArriveKeeps, LeaveKeeps, MintKeeps, AccountsKeep DEF PeopleNext
<1>2. CASE DrainNext
  BY <1>2, SendKeeps, ClearKeeps, StrayKeeps, DrainsKeep, DroppedKeeps DEF DrainNext
<1>3. CASE EndingNext
  BY <1>3, SweepKeeps, RunsKeep, TellKeeps DEF EndingNext
<1>4. CASE \E r \in Runs : Interrupt(r)
  BY <1>4, RunsKeep
<1>5. CASE UNCHANGED vars
  BY <1>5, StutterKeeps
<1> QED
  BY <1>1, <1>2, <1>3, <1>4, <1>5 DEF Next

\* The invariant holds of every behaviour.
LEMMA Invariant == Spec => []Inv
BY InitInv, NextInv, PTL DEF Spec

-----------------------------------------------------------------------------
(* What it promises. *)

\* Every variable keeps to what its table or field may hold.
THEOREM TypeCorrect == Spec => []TypeOK
<1>1. Inv => TypeOK
  BY DEF Inv
<1> QED
  BY <1>1, Invariant, PTL

\* Once D1 has been told that a group is collected, nothing brings any of it
\* back: no repeated write, no late one, no account.
THEOREM PurgedHolds == Spec => []PurgedStaysOut
<1>1. Inv => PurgedStaysOut
  BY DEF Inv, Ends, PurgedStaysOut
<1> QED
  BY <1>1, Invariant, PTL

\* When the object owes nothing, the index in D1 says of every account what the
\* roster says, whatever failed, was repeated or came late on the way.
THEOREM MirrorsHold == Spec => []IndexMirrors
<1>1. Inv => IndexMirrors
  <2> SUFFICES ASSUME Inv, outbox = <<>>
               PROVE  /\ \A p \in users : StandingIn(idx[p]) = place[p]
                      /\ buried = (status = "purged")
    BY DEF IndexMirrors
  <2>1. buried <=> status = "purged"
    BY DEF Inv, Ends
  <2>2. buried = (status = "purged")
    BY <2>1 DEF Inv, TypeOK
  <2>3. ASSUME NEW p \in users PROVE StandingIn(idx[p]) = place[p]
    <3>1. p \in Profiles
      BY DEF Inv, TypeOK
    <3>2. CASE status = "purged"
      <4>1. idx = Empty /\ place = Empty
        BY <2>1, <3>2 DEF Inv, Ends
      <4> QED
        BY <3>1, <4>1 DEF Empty, StandingIn
    <3>3. CASE status # "purged"
      <4>1. Mirrored(p) /\ 1..Len(outbox) = {}
        BY <3>3 DEF Inv, Mirrors
      <4> QED
        BY <4>1 DEF Mirrored
    <3> QED
      BY <3>2, <3>3
  <2> QED
    BY <2>2, <2>3
<1> QED
  BY <1>1, Invariant, PTL

-----------------------------------------------------------------------------
(* The object implements Participation, also where its roster is changed     *)
(* late, by a drain that finds an account gone or by a deletion or hand-over *)
(* that reaches it.                                                          *)

\* A step of Participation, or none.
Allowed == Abstract!Happens \/ UNCHANGED <<status, place>>

\* Whatever happens in Participation changes somebody's standing.
LEMMA Happening ==
    ASSUME Inv, Abstract!Happens
    PROVE  place' # place
<1>1. place \in [Profiles -> Standings \cup {None}] /\ None # "active"
  BY NullAssumption DEF Inv, TypeOK, Standings
<1>2. PICK p \in Profiles :
        \/ Abstract!Enter(p) \/ Abstract!Leave(p) \/ Abstract!Forget(p) \/ Abstract!End(p)
        \/ \E h \in Profiles : Abstract!HandOver(p, h) \/ Abstract!ReturnFor(p, h)
  BY DEF Abstract!Happens
<1>3. CASE Abstract!Enter(p)
  BY <1>1, <1>3 DEF Abstract!Enter
<1>4. CASE Abstract!Leave(p)
  BY <1>1, <1>4 DEF Abstract!Leave
<1>5. CASE Abstract!Forget(p)
  BY <1>1, <1>5 DEF Abstract!Forget
<1>6. CASE Abstract!End(p)
  BY <1>1, <1>6 DEF Abstract!End, Abstract!Active
<1>7. ASSUME NEW h \in Profiles, Abstract!HandOver(p, h) \/ Abstract!ReturnFor(p, h)
      PROVE  place' # place
  BY <1>1, <1>7 DEF Abstract!HandOver, Abstract!ReturnFor
<1> QED
  BY <1>2, <1>3, <1>4, <1>5, <1>6, <1>7

\* An account that loses its place goes alone, or takes the group with it.
LEMMA GoesOrEnds ==
    ASSUME Inv, status = "live", NEW p \in Profiles, place[p] # None,
           NEW rows \in Seq(Body),
           status' = Forgotten(place, rows, p).status,
           place' = Forgotten(place, rows, p).place
    PROVE  Allowed
<1> DEFINE left == [place EXCEPT ![p] = None]
<1>1. place \in [Profiles -> Standings \cup {None}] /\ Active(place) # {}
  BY DEF Inv, TypeOK, Ends
<1>2. Active(left) = Active(place) \ {p}
  BY <1>1, NullAssumption DEF Active, Standings
<1>3. status' = Outcome(left, rows).status /\ place' = Outcome(left, rows).place
  BY DEF Forgotten
<1>4. CASE Active(left) = {}
  <2>1. status' = "purged" /\ place' = Empty
    BY <1>3, <1>4, Collects
  <2>2. Active(place) = {p}
    BY <1>1, <1>2, <1>4
  <2>3. Abstract!End(p)
    BY <2>1, <2>2 DEF Abstract!End, Abstract!Active, Active, Empty
  <2> QED
    BY <2>3 DEF Allowed, Abstract!Happens
<1>5. CASE Active(left) # {}
  <2>1. status' = "live" /\ place' = left
    BY <1>3, <1>5, Collects
  <2>2. Active(place) # {p}
    BY <1>2, <1>5
  <2>3. Abstract!Forget(p)
    BY <2>1, <2>2 DEF Abstract!Forget, Abstract!Active, Active
  <2> QED
    BY <2>3 DEF Allowed, Abstract!Happens
<1> QED
  BY <1>4, <1>5

\* What forgetting an account does to the participants.
LEMMA ForgetAllowed ==
    ASSUME Inv, NEW p \in Profiles,
           status' = ForgetProfile(p).status, place' = ForgetProfile(p).place
    PROVE  Allowed
<1>1. CASE status = "live" /\ place[p] # None
  <2>1. ForgetProfile(p) = Forgotten(place, <<>>, p)
    BY <1>1 DEF ForgetProfile
  <2>2. <<>> \in Seq(Body)
    OBVIOUS
  <2> QED
    BY <1>1, <2>1, <2>2, GoesOrEnds
<1>2. CASE ~(status = "live" /\ place[p] # None)
  BY <1>2 DEF ForgetProfile, Unchanged, Allowed
<1> QED
  BY <1>1, <1>2

\* What handing a guest's place over does.
LEMMA HandOverAllowed ==
    ASSUME Inv, NEW g \in Profiles, NEW h \in Profiles,
           status' = HandOver(g, h).status, place' = HandOver(g, h).place
    PROVE  Allowed
<1>1. place \in [Profiles -> Standings \cup {None}]
  BY DEF Inv, TypeOK
<1>2. CASE status # "live" \/ place[g] = None
  BY <1>2 DEF HandOver, Unchanged, Allowed
<1>3. CASE status = "live" /\ place[g] # None /\ place[h] = None
  <2>1. status' = "live" /\ place' = [place EXCEPT ![h] = place[g], ![g] = None]
    BY <1>3 DEF HandOver
  <2>2. Abstract!HandOver(g, h)
    BY <1>3, <2>1 DEF Abstract!HandOver
  <2> QED
    BY <2>2 DEF Allowed, Abstract!Happens
<1>4. CASE /\ status = "live" /\ place[g] # None /\ place[h] # None
           /\ place[g] = "active" /\ place[h] = "left"
  <2> DEFINE back == [place EXCEPT ![h] = "active"]
             left == [back EXCEPT ![g] = None]
             rows == <<Membership(h, "active")>>
  <2>1. g # h /\ "active" \in Standings
    BY <1>4 DEF Standings
  <2>2. rows \in Seq(Body)
    BY <2>1, Bodies
  <2>3. status' = Outcome(left, rows).status /\ place' = Outcome(left, rows).place
    BY <1>4 DEF HandOver, Forgotten
  <2>4. left = [place EXCEPT ![h] = "active", ![g] = None] /\ left[h] = "active"
    BY <1>1, <2>1
  <2> HIDE DEF left, rows
  <2>5. Active(left) # {}
    BY <2>4 DEF Active
  <2>6. status' = "live" /\ place' = left
    BY <2>2, <2>3, <2>5, Collects
  <2>7. Abstract!ReturnFor(g, h)
    BY <1>4, <2>4, <2>6 DEF Abstract!ReturnFor
  <2> QED
    BY <2>7 DEF Allowed, Abstract!Happens
<1>5. CASE /\ status = "live" /\ place[g] # None /\ place[h] # None
           /\ ~(place[g] = "active" /\ place[h] = "left")
  <2>1. HandOver(g, h) = Forgotten(place, <<>>, g)
    BY <1>5 DEF HandOver
  <2>2. <<>> \in Seq(Body)
    OBVIOUS
  <2> QED
    BY <1>5, <2>1, <2>2, GoesOrEnds
<1> QED
  BY <1>2, <1>3, <1>4, <1>5

\* An account enters.
LEMMA ArriveAllowed ==
    ASSUME Inv, NEW p \in Profiles, Arrive(p)
    PROVE  Allowed
<1> DEFINE new == [place EXCEPT ![p] = "active"]
           rows == <<Membership(p, "active")>>
<1>1. place \in [Profiles -> Standings \cup {None}] /\ "active" \in Standings
      /\ (status = "none" => place = Empty)
  BY DEF Inv, TypeOK, Ends, Standings
<1>2. rows \in Seq(Body)
  BY <1>1, Bodies
<1>3. status' = Outcome(new, rows).status /\ place' = Outcome(new, rows).place
  BY DEF Arrive, Request, Commit
<1>4. p \in Active(new)
  BY <1>1 DEF Active
<1> HIDE DEF rows
<1>5. status' = "live" /\ place' = new
  BY <1>2, <1>3, <1>4, Collects
<1>6. status # "purged" /\ place[p] # "active"
  BY <1>1, NullAssumption DEF Arrive, Empty, Standings
<1>7. Abstract!Enter(p)
  BY <1>5, <1>6 DEF Abstract!Enter
<1> QED
  BY <1>7 DEF Allowed, Abstract!Happens

\* An account leaves, or ends the group.
LEMMA LeaveAllowed ==
    ASSUME Inv, NEW p \in Profiles, Leave(p)
    PROVE  Allowed
<1> DEFINE new == [place EXCEPT ![p] = "left"]
           rows == <<Membership(p, "left")>>
<1>1. place \in [Profiles -> Standings \cup {None}] /\ "left" \in Standings
      /\ status = "live" /\ place[p] = "active"
  BY DEF Inv, TypeOK, Leave, Standings
<1>2. rows \in Seq(Body)
  BY <1>1, Bodies
<1>3. status' = Outcome(new, rows).status /\ place' = Outcome(new, rows).place
  BY DEF Leave, Request, Commit
<1>4. Active(new) = Active(place) \ {p} /\ p \in Active(place)
  BY <1>1 DEF Active
<1> HIDE DEF rows
<1>5. CASE Active(new) = {}
  <2>1. status' = "purged" /\ place' = Empty
    BY <1>2, <1>3, <1>5, Collects
  <2>2. Abstract!End(p)
    BY <1>1, <1>4, <1>5, <2>1 DEF Abstract!End, Abstract!Active, Active, Empty
  <2> QED
    BY <2>2 DEF Allowed, Abstract!Happens
<1>6. CASE Active(new) # {}
  <2>1. status' = "live" /\ place' = new
    BY <1>2, <1>3, <1>6, Collects
  <2>2. Abstract!Leave(p)
    BY <1>1, <1>4, <1>6, <2>1 DEF Abstract!Leave, Abstract!Active, Active
  <2> QED
    BY <2>2 DEF Allowed, Abstract!Happens
<1> QED
  BY <1>5, <1>6

\* The drain forgets an account it finds gone.
LEMMA ClearAllowed == Inv /\ Clear => Allowed
<1> SUFFICES ASSUME Inv, Clear PROVE Allowed
  OBVIOUS
<1>1. CASE phase = "forget"
  <2>1. /\ outbox # <<>> /\ Head(outbox) = outbox[1] /\ 1 \in 1..Len(outbox)
        /\ outbox[1].kind = "membership"
    BY <1>1 DEF Inv, Sent, TypeOK
  <2>2. Head(outbox).profile \in Profiles
    BY <2>1 DEF Inv, Formed, Writable
  <2>3. Commit(ForgetProfile(Head(outbox).profile), 1)
    BY <1>1 DEF Clear
  <2> QED
    BY <2>2, <2>3, ForgetAllowed DEF Commit
<1>2. CASE phase # "forget"
  BY <1>2 DEF Clear, Commit, Unchanged, Allowed
<1> QED
  BY <1>1, <1>2

\* A deletion or a hand-over reaches the group.
LEMMA TellAllowed ==
    ASSUME Inv, NEW r \in Runs, TellGroup(r)
    PROVE  Allowed
<1>1. ending[r] \in Step /\ r[2] \in Profiles
  BY DEF TellGroup, At, Inv, TypeOK, Runs
<1>2. ending[r].heir \in Profiles \cup {None}
  BY <1>1 DEF Step
<1>3. CASE ending[r].heir = None
  BY <1>1, <1>3, ForgetAllowed DEF TellGroup, Commit
<1>4. CASE ending[r].heir # None
  BY <1>1, <1>2, <1>4, HandOverAllowed DEF TellGroup, Commit
<1> QED
  BY <1>3, <1>4

\* Every step is one of Participation's or leaves the participants alone.
LEMMA ImplementsStep == Inv /\ [Next]_vars => Allowed
<1> SUFFICES ASSUME Inv, [Next]_vars PROVE Allowed
  OBVIOUS
<1>1. CASE PeopleNext
  <2>1. ASSUME NEW p \in Profiles, Mint(p) PROVE Allowed
    BY <2>1 DEF Mint, Request, Commit, Allowed
  <2>2. ASSUME NEW p \in Profiles, EndUser(p) PROVE Allowed
    BY <2>2 DEF EndUser, object, Allowed
  <2> QED
    BY <1>1, <2>1, <2>2, ArriveAllowed, LeaveAllowed
       DEF PeopleNext, DeleteAccount, CollectGuest, SignIn
<1>2. CASE DrainNext
  BY <1>2, ClearAllowed
     DEF DrainNext, StartDrain, Send, ReadAccount, EndDrain, Refused, StrayLands, AlarmFires,
         Evict, object, Allowed
<1>3. CASE EndingNext
  BY <1>3, TellAllowed
     DEF EndingNext, Sweep, ReadMemberships, EraseRow, EmptyProfile, object, Allowed
<1>4. CASE (\E r \in Runs : Interrupt(r)) \/ UNCHANGED vars
  BY <1>4 DEF Interrupt, vars, object, Allowed
<1> QED
  BY <1>1, <1>2, <1>3, <1>4 DEF Next

\* Whatever a drain, a deletion or a hand-over does late, the participants
\* behave as Participation promises.
THEOREM IndexImplementsParticipation == Spec => ImplementsParticipation
<1>1. Init => Abstract!Init
  BY DEF Init, Abstract!Init, Empty
<1>2. Inv /\ [Next]_vars => [Abstract!Next]_(Abstract!vars)
  BY ImplementsStep, Happening DEF Allowed, Abstract!Next, Abstract!vars
<1> QED
  BY <1>1, <1>2, Invariant, PTL DEF Spec, ImplementsParticipation, Abstract!Spec

=============================================================================
