--------------------------- MODULE ProfilesProofs ---------------------------
(***************************************************************************)
(* Profiles for any accounts, names, page size and bound: the variables     *)
(* keep their types, and whom the device has read past it shows as they are.*)
(***************************************************************************)
EXTENDS Profiles, TLAPS, FiniteSetTheorems, WellFoundedInduction

-----------------------------------------------------------------------------
(* The inductive invariant. *)

\* A snapshot of a profile: an older version, or the profile as it is.
Snapshot(p, row) ==
    /\ row.version <= profile[p].version
    /\ row.version = profile[p].version => row = profile[p]

\* The server: a version is at least 1, a place no later than the group, and the
\* reader asks for no place.
ServerFits ==
    /\ \A p \in Accounts : 1 <= profile[p].version
    /\ \A p \in Accounts : places[p].seq <= seq
    /\ joins[Reader] = None

\* The copy: a row held is a snapshot, and a name typed is in it.
CopyFits ==
    /\ \A p \in Accounts : held[p] # None /\ (p = Reader => typed = None) => Snapshot(p, held[p])
    /\ typed # None =>
           /\ typed.revision <= events
           /\ held[Reader] # None /\ held[Reader].name \in Names

\* A request of the push and one of the pull, where the run is.
CallFits == call # None =>
    /\ call.kind \in {"sent", "stored", "refused", "recorded"} =>
           /\ step = "push" /\ call.revision <= events
    /\ call.kind = "sent" /\ IsCurrent(call.revision) => call.name = held[Reader].name
    /\ call.kind = "stored" =>
           /\ feed < call.version
           /\ IsCurrent(call.revision) => Snapshot(Reader, [name |-> held[Reader].name, version |-> call.version])
    /\ call.kind = "recorded" /\ IsCurrent(call.revision) =>
           feed < held[Reader].version /\ Snapshot(Reader, held[Reader])
    /\ call.kind = "feed" => step = "feed" /\ call.seq <= counter
    /\ call.kind \in {"changes", "group"} => step = "group" /\ call.seq <= seq
    /\ call.kind \in {"feed", "group"} =>
           \A p \in Accounts : call.rows[p] # None => Snapshot(p, call.rows[p])

\* What the device shows is the profile, or the feed has yet to bring it.
Shown(p, upto) ==
    held[p] = profile[p] \/ (Settled(p) /\ upto < profile[p].version)

\* Whom the device shows, once it has read the group up to here.
Shows(p, upto) == p \notin hidden /\ p # Reader /\ places[p].at = "active" /\ places[p].seq <= upto

\* A place the device has yet to read of.
New(p, upto) == places[p].at = "active" /\ read < places[p].seq /\ places[p].seq <= upto

\* On the page as it is.
On(p) == call.rows[p] # None /\ call.rows[p] = profile[p]

\* The reader's own row, and what a page of the feed does for it.
ReaderShown ==
    /\ typed = None => ShowsAsTheyAre(Reader)
    /\ call # None /\ call.kind = "feed" =>
           (profile[Reader].version <= call.seq =>
               On(Reader) \/ profile[Reader].version <= feed)

\* Everybody else's: shown, or brought by the page in flight; a page of the
\* group has whom it passes, and their profiles as they are unless the feed will
\* bring them.
OthersShown ==
    /\ \A p \in Accounts : Shows(p, read) => Shown(p, feed)
    /\ call # None /\ call.kind = "feed" =>
           \A p \in Accounts : Shows(p, read) => Shown(p, call.seq) \/ On(p)
    /\ call # None /\ call.kind = "changes" =>
           \A p \in Accounts : New(p, call.seq) => p \in call.who
    /\ call # None /\ call.kind = "group" =>
           \A p \in Accounts : New(p, call.seq) /\ Shows(p, call.seq) =>
               On(p) \/ (Settled(p) /\ feed < profile[p].version)

\* What is inductive beside the types.
PInv == ServerFits /\ CopyFits /\ CallFits /\ ReaderShown /\ OthersShown

\* The types and the invariant.
Inv == TypeOK /\ PInv

\* None is no row, request or item.
LEMMA Nothing ==
    None \notin Profile /\ None \notin Joining /\ None \notin Item /\ None \notin Call
BY NullAssumption

\* What a request holds, by its kind.
LEMMA CallHolds ==
    ASSUME TypeOK, call # None
    PROVE  /\ call \in Call
           /\ call.kind \in {"sent", "stored", "refused", "recorded", "feed", "changes", "group"}
           /\ call.kind \in {"sent", "stored", "refused", "recorded"} => call.revision \in Nat
           /\ call.kind = "sent" => call.name \in Names
           /\ call.kind = "stored" => call.version \in Nat
           /\ call.kind \in {"feed", "changes", "group"} => call.seq \in Nat
           /\ call.kind \in {"feed", "group"} => call.rows \in Rows
           /\ call.kind = "feed" => call.hasMore \in BOOLEAN
           /\ call.kind = "changes" => call.who \subseteq Accounts
<1>1. call \in Call
  BY DEF TypeOK
<1> QED
  BY <1>1 DEF Call

\* The fields of the tables.
LEMMA Fields ==
    ASSUME TypeOK
    PROVE  /\ counter \in Nat /\ seq \in Nat /\ feed \in Nat /\ read \in Nat /\ events \in Nat
           /\ feed <= counter /\ read <= seq /\ Reader \in Accounts
           /\ \A p \in Accounts :
                 /\ profile[p] \in Profile
                 /\ profile[p].version \in Nat /\ profile[p].version <= counter
                 /\ profile[p].name \in Names \cup {None}
                 /\ places[p] \in Place
                 /\ places[p].seq \in Nat /\ places[p].name \in Names \cup {None}
                 /\ places[p].at \in Standing
                 /\ owed[p] \in Seq(Standing)
                 /\ held[p] # None => /\ held[p] \in Profile /\ held[p].version \in Nat
                                      /\ held[p].name \in Names \cup {None}
                 /\ joins[p] # None => /\ joins[p] \in Joining /\ joins[p].read \in Names \cup {None}
                                       /\ joins[p].place \in Names \cup {None}
           /\ typed # None => typed \in Item /\ typed.revision \in Nat
BY AccountsAssumption, BoundsAssumption DEF TypeOK, Profile, Place, Joining, Item

-----------------------------------------------------------------------------
(* Renames. *)

\* A rename takes the next version, past every cursor and every page; whoever
\* is renamed in the group and not hidden is one the feed will bring.
LEMMA Renamed ==
    ASSUME Inv, NEW p \in Accounts, NEW name \in Names \cup {None}, Versioned(p, name),
           UNCHANGED <<index, group>>
    PROVE  /\ counter' = counter + 1
           /\ profile' \in [Accounts -> Profile]
           /\ \A q \in Accounts : profile'[q].version <= counter' /\ 1 <= profile'[q].version
           /\ \A q, r \in Accounts : q # r => profile'[q].version # profile'[r].version
           /\ hidden' \subseteq Accounts
           /\ profile'[p] = [name |-> name, version |-> counter + 1]
           /\ \A q \in Accounts : \/ profile'[q] = profile[q]
                                  \/ profile'[q].version = counter + 1
           /\ \A q \in Accounts : \A row \in Profile : Snapshot(q, row) => Snapshot(q, row)'
           /\ \A q \in Accounts : q \notin hidden' /\ q # Reader /\ places[q].at = "active" =>
                 \/ q \notin hidden /\ profile'[q] = profile[q]
                 \/ profile'[q].version = counter + 1 /\ Settled(q)
           /\ \A q \in Accounts : Settled(q)' <=> Settled(q)
<1> DEFINE new == [name |-> name, version |-> counter + 1]
<1>1. /\ counter' = counter + 1 /\ profile' = [profile EXCEPT ![p] = new]
      /\ hidden' = IF places[p].at # "active" \/ Settled(p) THEN hidden \ {p} ELSE hidden \cup {p}
  BY DEF Versioned
<1>2. counter \in Nat /\ profile \in [Accounts -> Profile] /\ hidden \subseteq Accounts
      /\ \A q \in Accounts : profile[q].version \in Nat /\ profile[q].version <= counter
                             /\ 1 <= profile[q].version
  BY Fields DEF Inv, TypeOK, PInv, ServerFits
<1>3. new \in Profile /\ new.version = counter + 1
  BY <1>2 DEF Profile
<1> HIDE DEF new
<1>4. \A q \in Accounts : profile'[q] = IF q = p THEN new ELSE profile[q]
  BY <1>1, <1>2
<1>5. profile' \in [Accounts -> Profile] /\ hidden' \subseteq Accounts
  BY <1>1, <1>2, <1>3
<1>6. \A q \in Accounts : profile'[q].version <= counter' /\ 1 <= profile'[q].version
  BY <1>1, <1>2, <1>3, <1>4
<1>7. ASSUME NEW q \in Accounts, NEW r \in Accounts, q # r
      PROVE  profile'[q].version # profile'[r].version
  <2>1. profile[q].version # profile[r].version
    BY <1>7 DEF Inv, TypeOK
  <2>2. counter + 1 # profile[q].version /\ counter + 1 # profile[r].version
    BY <1>2
  <2> QED
    BY <1>3, <1>4, <1>7, <2>1, <2>2
<1>8. \A q \in Accounts : \A row \in Profile : Snapshot(q, row) => Snapshot(q, row)'
  <2> SUFFICES ASSUME NEW q \in Accounts, NEW row \in Profile, Snapshot(q, row) PROVE Snapshot(q, row)'
    OBVIOUS
  <2>1. row.version \in Nat
    BY DEF Profile
  <2> QED
    BY <1>2, <1>3, <1>4, <2>1 DEF Snapshot
<1>9. \A q \in Accounts : Settled(q)' <=> Settled(q)
  BY DEF Settled, VisibleToReader, group
<1>10. \A q \in Accounts : q \notin hidden' /\ q # Reader /\ places[q].at = "active" =>
                 \/ q \notin hidden /\ profile'[q] = profile[q]
                 \/ profile'[q].version = counter + 1 /\ Settled(q)
  BY <1>1, <1>3, <1>4
<1> QED
  BY <1>1, <1>3, <1>4, <1>5, <1>6, <1>7, <1>8, <1>9, <1>10 DEF new

\* So what the device shows stays as it is, or is yet to come.
LEMMA RenameShows ==
    ASSUME Inv, NEW p \in Accounts, NEW name \in Names \cup {None}, Versioned(p, name),
           UNCHANGED <<index, group, device>>
    PROVE  /\ \A q \in Accounts : Shows(q, read)' => Shown(q, feed)'
           /\ typed' = None => ShowsAsTheyAre(Reader)'
<1>1. /\ \A q \in Accounts : profile'[q] = profile[q] \/ profile'[q].version = counter + 1
      /\ \A q \in Accounts : q \notin hidden' /\ q # Reader /\ places[q].at = "active" =>
                 \/ q \notin hidden /\ profile'[q] = profile[q]
                 \/ profile'[q].version = counter + 1 /\ Settled(q)
      /\ \A q \in Accounts : Settled(q)' <=> Settled(q)
  BY Renamed
<1>2. /\ feed \in Nat /\ counter \in Nat /\ feed <= counter
      /\ typed' = typed /\ feed' = feed /\ held' = held /\ read' = read /\ places' = places
  BY Fields DEF Inv, device, group
<1>3. ASSUME NEW q \in Accounts, Shows(q, read)' PROVE Shown(q, feed)'
  <2>1. q \notin hidden' /\ q # Reader /\ places[q].at = "active" /\ places[q].seq <= read
    BY <1>2, <1>3 DEF Shows
  <2>2. CASE q \notin hidden /\ profile'[q] = profile[q]
    <3>1. Shown(q, feed)
      BY <2>1, <2>2 DEF Inv, PInv, OthersShown, Shows
    <3> QED
      BY <1>1, <1>2, <2>2, <3>1 DEF Shown
  <2>3. CASE profile'[q].version = counter + 1 /\ Settled(q)
    BY <1>1, <1>2, <2>3 DEF Shown
  <2> QED
    BY <1>1, <2>1, <2>2, <2>3
<1>4. ASSUME typed' = None PROVE ShowsAsTheyAre(Reader)'
  <2>1. Reader \in Accounts
    BY AccountsAssumption
  <2>2. ShowsAsTheyAre(Reader)
    BY <1>2, <1>4 DEF Inv, PInv, ReaderShown
  <2> QED
    BY <1>1, <1>2, <2>1, <2>2 DEF ShowsAsTheyAre
<1> QED
  BY <1>3, <1>4

\* A rename beside a run and its request keeps everything.
LEMMA RenameKeeps ==
    ASSUME Inv, NEW p \in Accounts, NEW name \in Names \cup {None}, Versioned(p, name),
           UNCHANGED <<index, group, device, run>>, joins'[Reader] = None,
           joins' \in [Accounts -> Joining \cup {None}],
           stray' \in {stray, None}, events' \in 0..MaxEvents, events <= events'
    PROVE  Inv'
<1> DEFINE At(q) == profile'[q] = profile[q]
<1>1. /\ counter' = counter + 1
      /\ profile' \in [Accounts -> Profile]
      /\ \A q \in Accounts : profile'[q].version <= counter' /\ 1 <= profile'[q].version
      /\ \A q, r \in Accounts : q # r => profile'[q].version # profile'[r].version
      /\ hidden' \subseteq Accounts
      /\ \A q \in Accounts : profile'[q] = profile[q] \/ profile'[q].version = counter + 1
      /\ \A q \in Accounts : \A row \in Profile : Snapshot(q, row) => Snapshot(q, row)'
      /\ \A q \in Accounts : q \notin hidden' /\ q # Reader /\ places[q].at = "active" =>
                 \/ q \notin hidden /\ profile'[q] = profile[q]
                 \/ profile'[q].version = counter + 1 /\ Settled(q)
      /\ \A q \in Accounts : Settled(q)' <=> Settled(q)
  BY Renamed
<1>2. /\ index' = index /\ seq' = seq /\ places' = places /\ owed' = owed
      /\ held' = held /\ typed' = typed /\ feed' = feed /\ read' = read
      /\ step' = step /\ full' = full /\ call' = call
  BY DEF group, device, run
<1>3. TypeOK
  BY DEF Inv
<1>4. /\ counter \in Nat /\ feed \in Nat /\ feed <= counter /\ Reader \in Accounts /\ events \in Nat
      /\ \A q \in Accounts : held[q] # None => held[q] \in Profile
      /\ typed # None => typed.revision \in Nat
  BY <1>3, Fields
<1>5. TypeOK'
  BY <1>1, <1>2, <1>3, <1>4 DEF TypeOK
<1>6. ServerFits'
  BY <1>1, <1>2 DEF Inv, PInv, ServerFits
<1>7. CopyFits'
  BY <1>1, <1>2, <1>4 DEF Inv, PInv, CopyFits
<1>8. CallFits'
  <2> SUFFICES ASSUME call # None PROVE CallFits'
    BY <1>2 DEF CallFits
  <2>1. /\ call.kind \in {"sent", "stored", "refused", "recorded"} => call.revision \in Nat
        /\ call.kind = "stored" => call.version \in Nat
        /\ call.kind \in {"feed", "changes", "group"} => call.seq \in Nat
        /\ call.kind \in {"feed", "group"} => \A q \in Accounts : call.rows[q] # None => call.rows[q] \in Profile
    BY <1>3, CallHolds DEF Rows
  <2>2. CallFits
    BY DEF Inv, PInv
  <2>3. call.kind \in {"sent", "stored", "refused", "recorded"} => step = "push" /\ call.revision <= events'
    BY <1>4, <2>1, <2>2 DEF CallFits
  <2>4. call.kind = "stored" /\ IsCurrent(call.revision) =>
            Snapshot(Reader, [name |-> held[Reader].name, version |-> call.version])'
    <3> SUFFICES ASSUME call.kind = "stored", IsCurrent(call.revision)
                 PROVE  Snapshot(Reader, [name |-> held[Reader].name, version |-> call.version])'
      OBVIOUS
    <3> DEFINE row == [name |-> held[Reader].name, version |-> call.version]
    <3>1. held[Reader].name \in Names
      BY DEF Inv, PInv, CopyFits, IsCurrent
    <3>2. row \in Profile
      BY <2>1, <3>1 DEF Profile
    <3>3. Snapshot(Reader, row)
      BY <2>2 DEF CallFits
    <3>4. row' = row
      BY <1>2
    <3> HIDE DEF row
    <3> QED
      BY <1>1, <1>4, <3>2, <3>3, <3>4 DEF row
  <2>5. call.kind = "recorded" /\ IsCurrent(call.revision) => Snapshot(Reader, held[Reader])'
    <3> SUFFICES ASSUME call.kind = "recorded", IsCurrent(call.revision) PROVE Snapshot(Reader, held[Reader])'
      OBVIOUS
    <3>1. held[Reader] # None
      BY DEF Inv, PInv, CopyFits, IsCurrent
    <3> QED
      BY <1>1, <1>2, <1>4, <2>2, <3>1 DEF CallFits
  <2>6. call.kind = "feed" => call.seq <= counter'
    BY <1>1, <1>4, <2>1, <2>2 DEF CallFits
  <2>7. call.kind \in {"feed", "group"} =>
           \A q \in Accounts : call.rows[q] # None => Snapshot(q, call.rows[q])'
    BY <1>1, <1>2, <2>1, <2>2 DEF CallFits
  <2> QED
    BY <1>2, <2>2, <2>3, <2>4, <2>5, <2>6, <2>7 DEF CallFits, IsCurrent
<1>9. ReaderShown'
  <2>1. typed' = None => ShowsAsTheyAre(Reader)'
    BY RenameShows
  <2>2. ASSUME call # None, call.kind = "feed", profile'[Reader].version <= call.seq
        PROVE  On(Reader)' \/ profile'[Reader].version <= feed
    <3>1. call.seq \in Nat /\ call.seq <= counter
      BY <1>3, <2>2, CallHolds DEF Inv, PInv, CallFits
    <3>2. profile'[Reader] = profile[Reader]
      BY <1>1, <1>4, <2>2, <3>1
    <3> QED
      BY <1>2, <2>2, <3>2 DEF Inv, PInv, ReaderShown, On
  <2> QED
    BY <1>2, <2>1, <2>2 DEF ReaderShown
<1>10. OthersShown'
  <2>1. \A q \in Accounts : Shows(q, read)' => Shown(q, feed)'
    BY RenameShows
  <2>2. ASSUME call # None, call.kind = "feed", NEW q \in Accounts, Shows(q, read)'
        PROVE  Shown(q, call.seq)' \/ On(q)'
    <3>1. call.seq \in Nat /\ call.seq <= counter
      BY <1>3, <2>2, CallHolds DEF Inv, PInv, CallFits
    <3>2. q \notin hidden' /\ q # Reader /\ places[q].at = "active" /\ places[q].seq <= read
      BY <1>2, <2>2 DEF Shows
    <3>3. CASE q \notin hidden /\ profile'[q] = profile[q]
      <4>1. Shown(q, call.seq) \/ On(q)
        BY <2>2, <3>2, <3>3 DEF Inv, PInv, OthersShown, Shows
      <4> QED
        BY <1>1, <1>2, <3>3, <4>1 DEF Shown, On
    <3>4. CASE profile'[q].version = counter + 1 /\ Settled(q)
      BY <1>1, <1>2, <1>4, <3>1, <3>4 DEF Shown
    <3> QED
      BY <1>1, <3>2, <3>3, <3>4
  <2>3. ASSUME call # None, call.kind = "group", NEW q \in Accounts, New(q, call.seq)', Shows(q, call.seq)'
        PROVE  On(q)' \/ (Settled(q)' /\ feed' < profile'[q].version)
    <3>2. q \notin hidden' /\ q # Reader /\ places[q].at = "active" /\ New(q, call.seq) /\ places[q].seq <= call.seq
      BY <1>2, <2>3 DEF Shows, New
    <3>3. CASE q \notin hidden /\ profile'[q] = profile[q]
      <4>1. On(q) \/ (Settled(q) /\ feed < profile[q].version)
        BY <2>3, <3>2, <3>3 DEF Inv, PInv, OthersShown, Shows
      <4> QED
        BY <1>1, <1>2, <3>3, <4>1 DEF On
    <3>4. CASE profile'[q].version = counter + 1 /\ Settled(q)
      BY <1>1, <1>2, <1>4, <3>4
    <3> QED
      BY <1>1, <3>2, <3>3, <3>4
  <2>4. ASSUME call # None, call.kind = "changes", NEW q \in Accounts, New(q, call.seq)'
        PROVE  q \in call.who
    BY <1>2, <2>4 DEF Inv, PInv, OthersShown, New
  <2> QED
    BY <1>2, <2>1, <2>2, <2>3, <2>4 DEF OthersShown
<1> QED
  BY <1>5, <1>6, <1>7, <1>8, <1>9, <1>10 DEF Inv, PInv

\* The group and the index move on: a place that changes is past every cursor
\* and every page, and who is settled stays so while their place does.
LEMMA MoveKeeps ==
    ASSUME Inv, TypeOK', UNCHANGED <<counter, profile, device, run, hidden>>,
           joins'[Reader] = None, seq <= seq', events <= events',
           \A q \in Accounts : places'[q].seq <= seq',
           \A q \in Accounts : places'[q] = places[q] \/ seq < places'[q].seq,
           \A q \in Accounts : places'[q] = places[q] /\ Settled(q) => Settled(q)'
    PROVE  Inv'
<1>1. /\ counter' = counter /\ profile' = profile /\ hidden' = hidden
      /\ held' = held /\ typed' = typed /\ feed' = feed /\ read' = read
      /\ step' = step /\ full' = full /\ call' = call
  BY DEF device, run
<1>2. TypeOK
  BY DEF Inv
<1>3. /\ seq \in Nat /\ read \in Nat /\ read <= seq /\ seq' \in Nat /\ events \in Nat /\ events' \in Nat
      /\ \A q \in Accounts : places[q].seq \in Nat /\ places'[q].seq \in Nat
      /\ typed # None => typed.revision \in Nat
  <2>1. seq' \in Nat /\ places' \in [Accounts -> Place] /\ events' \in Nat
    BY BoundsAssumption DEF TypeOK
  <2> QED
    BY <1>2, <2>1, Fields DEF Place
<1>4. ServerFits'
  BY <1>1 DEF Inv, PInv, ServerFits
<1>5. CopyFits'
  BY <1>1, <1>3 DEF Inv, PInv, CopyFits, Snapshot
<1>6. CallFits'
  <2> SUFFICES ASSUME call # None PROVE CallFits'
    BY <1>1 DEF CallFits
  <2>1. /\ call.kind \in {"sent", "stored", "refused", "recorded"} => call.revision \in Nat
        /\ call.kind \in {"feed", "changes", "group"} => call.seq \in Nat
    BY <1>2, CallHolds
  <2>2. CallFits
    BY DEF Inv, PInv
  <2>3. call.kind \in {"sent", "stored", "refused", "recorded"} => step = "push" /\ call.revision <= events'
    BY <1>3, <2>1, <2>2 DEF CallFits
  <2>4. call.kind \in {"changes", "group"} => step = "group" /\ call.seq <= seq'
    BY <1>3, <2>1, <2>2 DEF CallFits
  <2> QED
    BY <1>1, <2>2, <2>3, <2>4 DEF CallFits, IsCurrent, Snapshot
<1>7. ReaderShown'
  BY <1>1 DEF Inv, PInv, ReaderShown, ShowsAsTheyAre, On
<1>8. OthersShown'
  <2>1. ASSUME NEW q \in Accounts, Shows(q, read)', NEW upto \in {feed} \cup (IF call # None THEN {call.seq} ELSE {}),
               Shown(q, upto)
        PROVE  Shown(q, upto)'
    <3>1. places'[q] = places[q]
      BY <1>1, <1>3, <2>1 DEF Shows
    <3> QED
      BY <1>1, <2>1, <3>1 DEF Shown
  <2>2. ASSUME NEW q \in Accounts, Shows(q, read)' PROVE Shows(q, read)
    BY <1>1, <1>3, <2>2 DEF Shows
  <2>3. ASSUME call # None, call.kind \in {"changes", "group"}, NEW q \in Accounts, New(q, call.seq)'
        PROVE  New(q, call.seq) /\ places'[q] = places[q]
    <3>1. call.seq \in Nat /\ call.seq <= seq
      BY <1>2, <2>3, CallHolds DEF Inv, PInv, CallFits
    <3> QED
      BY <1>1, <1>3, <2>3, <3>1 DEF New
  <2>4. \A q \in Accounts : Shows(q, read)' => Shown(q, feed)'
    <3> SUFFICES ASSUME NEW q \in Accounts, Shows(q, read)' PROVE Shown(q, feed)'
      OBVIOUS
    <3>1. Shown(q, feed)
      BY <2>2 DEF Inv, PInv, OthersShown
    <3>2. places'[q] = places[q]
      BY <1>1, <1>3 DEF Shows
    <3> QED
      BY <1>1, <3>1, <3>2 DEF Shown
  <2>5. call # None /\ call.kind = "feed" =>
           \A q \in Accounts : Shows(q, read)' => Shown(q, call.seq)' \/ On(q)'
    BY <1>1, <2>1, <2>2 DEF Inv, PInv, OthersShown, On
  <2>6. call # None /\ call.kind = "changes" => \A q \in Accounts : New(q, call.seq)' => q \in call.who
    BY <2>3 DEF Inv, PInv, OthersShown
  <2>7. ASSUME call # None, call.kind = "group", NEW q \in Accounts, New(q, call.seq)', Shows(q, call.seq)'
        PROVE  On(q)' \/ (Settled(q)' /\ feed' < profile'[q].version)
    <3>1. New(q, call.seq) /\ Shows(q, call.seq) /\ places'[q] = places[q]
      BY <1>1, <2>3, <2>7 DEF Shows
    <3>2. On(q) \/ (Settled(q) /\ feed < profile[q].version)
      BY <2>7, <3>1 DEF Inv, PInv, OthersShown
    <3> QED
      BY <1>1, <3>1, <3>2 DEF On
  <2> QED
    BY <1>1, <2>4, <2>5, <2>6, <2>7 DEF OthersShown
<1> QED
  BY <1>4, <1>5, <1>6, <1>7, <1>8 DEF Inv, PInv

-----------------------------------------------------------------------------
(* The requests of an account. *)

\* UpdateProfile: a rename of its own.
LEMMA UpdateProfileKeeps ==
    ASSUME Inv, NEW p \in Accounts, NEW name \in Names \ Malformed, UpdateProfile(p, name)
    PROVE  Inv'
<1>1. /\ Versioned(p, name) /\ UNCHANGED <<index, group, device, run>>
      /\ joins' = joins /\ stray' = stray /\ events < MaxEvents /\ events' = events + 1
  BY DEF UpdateProfile, Happens
<1>2. joins'[Reader] = None
  BY <1>1 DEF Inv, PInv, ServerFits
<1>3. joins' \in [Accounts -> Joining \cup {None}] /\ events' \in 0..MaxEvents /\ events <= events'
  BY <1>1, BoundsAssumption DEF Inv, TypeOK
<1> QED
  BY <1>1, <1>2, <1>3, RenameKeeps

\* BeginJoin: the name is read.
LEMMA BeginJoinKeeps ==
    ASSUME Inv, NEW p \in Accounts, BeginJoin(p)
    PROVE  Inv'
<1> DEFINE began == [read |-> profile[p].name, at |-> "read", place |-> None]
<1>1. /\ UNCHANGED <<counter, profile, device, run, hidden>> /\ UNCHANGED <<index, group>> /\ stray' = stray
      /\ p # Reader /\ joins' = [joins EXCEPT ![p] = began]
      /\ events < MaxEvents /\ events' = events + 1
  BY DEF BeginJoin, Happens
<1>2. TypeOK
  BY DEF Inv
<1>3. began \in Joining
  BY <1>2, Fields DEF Joining
<1> HIDE DEF began
<1>4. joins' \in [Accounts -> Joining \cup {None}] /\ joins'[Reader] = None
  BY <1>1, <1>2, <1>3, AccountsAssumption DEF TypeOK, Inv, PInv, ServerFits
<1>5. events' \in 0..MaxEvents /\ events <= events'
  BY <1>1, <1>2, BoundsAssumption DEF TypeOK
<1>6. TypeOK'
  BY <1>1, <1>2, <1>4, <1>5 DEF TypeOK, group, device, run
<1>7. \A q \in Accounts : Settled(q)' <=> Settled(q)
  BY <1>1 DEF Settled, VisibleToReader, group
<1>8. seq' = seq /\ places' = places /\ seq \in Nat
  BY <1>1, <1>2 DEF group, TypeOK
<1> QED
  BY <1>1, <1>4, <1>5, <1>6, <1>7, <1>8, MoveKeeps DEF Inv, PInv, ServerFits

\* Interrupt: the request to join is gone.
LEMMA InterruptKeeps ==
    ASSUME Inv, NEW p \in Accounts, Interrupt(p)
    PROVE  Inv'
<1>1. /\ UNCHANGED <<counter, profile, device, run, hidden>> /\ UNCHANGED <<index, group>> /\ stray' = stray
      /\ joins' = [joins EXCEPT ![p] = None]
      /\ events < MaxEvents /\ events' = events + 1
  BY DEF Interrupt, Happens
<1>2. TypeOK
  BY DEF Inv
<1>4. joins' \in [Accounts -> Joining \cup {None}] /\ joins'[Reader] = None
  BY <1>1, <1>2, AccountsAssumption DEF TypeOK, Inv, PInv, ServerFits
<1>5. events' \in 0..MaxEvents /\ events <= events'
  BY <1>1, <1>2, BoundsAssumption DEF TypeOK
<1>6. TypeOK'
  BY <1>1, <1>2, <1>4, <1>5 DEF TypeOK, group, device, run
<1>7. \A q \in Accounts : Settled(q)' <=> Settled(q)
  BY <1>1 DEF Settled, VisibleToReader, group
<1>8. seq' = seq /\ places' = places /\ seq \in Nat
  BY <1>1, <1>2 DEF group, TypeOK
<1> QED
  BY <1>1, <1>4, <1>5, <1>6, <1>7, <1>8, MoveKeeps DEF Inv, PInv, ServerFits

\* Adopt: a rename, or only the end of the request.
LEMMA AdoptKeeps ==
    ASSUME Inv, NEW p \in Accounts, Adopt(p)
    PROVE  Inv'
<1>1. /\ joins[p] # None /\ joins' = [joins EXCEPT ![p] = None]
      /\ UNCHANGED <<index, group, device, run>> /\ stray' = stray /\ events' = events
      /\ IF joins[p].read = None THEN Versioned(p, joins[p].place)
         ELSE UNCHANGED <<counter, profile, hidden>>
  BY DEF Adopt
<1>2. TypeOK
  BY DEF Inv
<1>3. joins' \in [Accounts -> Joining \cup {None}] /\ joins'[Reader] = None
  BY <1>1, <1>2, AccountsAssumption DEF TypeOK, Inv, PInv, ServerFits
<1>4. events' \in 0..MaxEvents /\ events <= events' /\ joins[p].place \in Names \cup {None}
  BY <1>1, <1>2, Fields DEF TypeOK
<1>5. CASE Versioned(p, joins[p].place)
  BY <1>1, <1>3, <1>4, <1>5, RenameKeeps
<1>6. CASE UNCHANGED <<counter, profile, hidden>>
  <2>1. TypeOK'
    BY <1>1, <1>2, <1>3, <1>4, <1>6 DEF TypeOK, group, device, run
  <2>2. \A q \in Accounts : Settled(q)' <=> Settled(q)
    BY <1>1 DEF Settled, VisibleToReader, group
  <2>3. seq' = seq /\ places' = places /\ seq \in Nat
    BY <1>1, <1>2 DEF group, TypeOK
  <2> QED
    BY <1>1, <1>3, <1>4, <1>6, <2>1, <2>2, <2>3, MoveKeeps DEF Inv, PInv, ServerFits
<1> QED
  BY <1>1, <1>5, <1>6

\* Somebody's place changes and the row for D1 is staged behind it.
LEMMA MovedKeeps ==
    ASSUME Inv, NEW p \in Accounts, p # Reader, NEW at \in Standing, NEW name \in Names \cup {None},
           Moved(p, at, name), UNCHANGED <<counter, profile, index, device, run, hidden, stray>>,
           joins' \in [Accounts -> Joining \cup {None}], joins'[Reader] = None,
           events' \in 0..MaxEvents, events <= events'
    PROVE  Inv'
<1> DEFINE place == [at |-> at, name |-> name, seq |-> seq + 1]
<1>1. /\ seq' = seq + 1 /\ places' = [places EXCEPT ![p] = place]
      /\ owed' = [owed EXCEPT ![p] = Append(@, at)]
  BY DEF Moved
<1>2. TypeOK
  BY DEF Inv
<1>3. seq \in Nat /\ read \in Nat /\ read <= seq /\ Reader \in Accounts
      /\ \A q \in Accounts : places[q].seq \in Nat /\ places[q].seq <= seq
  BY <1>2, Fields DEF Inv, PInv, ServerFits
<1>4. place \in Place /\ place.seq = seq + 1
  BY <1>3 DEF Place
<1> HIDE DEF place
<1>5. owed' \in [Accounts -> Seq(Standing)]
  <2>1. Append(owed[p], at) \in Seq(Standing)
    BY <1>2 DEF TypeOK
  <2> QED
    BY <1>1, <1>2, <2>1 DEF TypeOK
<1>6. places' \in [Accounts -> Place] /\ \A q \in Accounts : places'[q] = IF q = p THEN place ELSE places[q]
  BY <1>1, <1>2, <1>4 DEF TypeOK
<1>7. TypeOK'
  BY <1>1, <1>2, <1>3, <1>5, <1>6 DEF TypeOK, device, run
<1>8. \A q \in Accounts : places'[q].seq <= seq' /\ (places'[q] = places[q] \/ seq < places'[q].seq)
  BY <1>1, <1>3, <1>4, <1>6
<1>9. ASSUME NEW q \in Accounts, places'[q] = places[q], Settled(q) PROVE Settled(q)'
  <2>1. q # p
    BY <1>3, <1>4, <1>6, <1>9
  <2>2. owed'[q] = owed[q] /\ owed'[Reader] = owed[Reader]
    BY <1>1, <1>2, <1>3, <2>1 DEF TypeOK
  <2> QED
    BY <1>9, <2>2 DEF Settled, VisibleToReader
<1> QED
  BY <1>1, <1>3, <1>7, <1>8, <1>9, MoveKeeps

\* Join: a place taken, or the one there is.
LEMMA JoinKeeps ==
    ASSUME Inv, NEW p \in Accounts, NEW name \in Names \ Malformed, Join(p, name)
    PROVE  Inv'
<1> DEFINE place == IF places[p].at = "none" THEN name ELSE places[p].name
           joined == [joins[p] EXCEPT !.at = "joined", !.place = place]
<1>1. /\ joins[p] # None /\ joins' = [joins EXCEPT ![p].at = "joined", ![p].place = place]
      /\ IF places[p].at = "active" THEN UNCHANGED group ELSE Moved(p, "active", place)
      /\ UNCHANGED <<counter, profile, index, device, run, hidden, stray>> /\ events' = events
  BY DEF Join
<1>2. TypeOK
  BY DEF Inv
<1>3. place \in Names \cup {None} /\ joins[p] \in Joining /\ joins \in [Accounts -> Joining \cup {None}]
  BY <1>1, <1>2, Fields DEF TypeOK
<1>4. joins[Reader] = None /\ Reader \in Accounts
  BY AccountsAssumption DEF Inv, PInv, ServerFits
<1>5. p # Reader
  BY <1>1, <1>4
<1> HIDE DEF place
<1>6. joined \in Joining
  BY <1>3 DEF Joining
<1>7. joins' = [joins EXCEPT ![p] = joined]
  BY <1>1, <1>3 DEF Joining
<1>8. joins' \in [Accounts -> Joining \cup {None}] /\ joins'[Reader] = None
  BY <1>3, <1>4, <1>5, <1>6, <1>7
<1>9. events' \in 0..MaxEvents /\ events <= events'
  BY <1>1, <1>2, BoundsAssumption DEF TypeOK
<1>10. CASE UNCHANGED group
  <2>1. TypeOK'
    BY <1>1, <1>2, <1>8, <1>9, <1>10 DEF TypeOK, group, device, run
  <2>2. \A q \in Accounts : Settled(q)' <=> Settled(q)
    BY <1>1, <1>10 DEF Settled, VisibleToReader, group
  <2>3. seq' = seq /\ places' = places /\ seq \in Nat
    BY <1>2, <1>10 DEF group, TypeOK
  <2> QED
    BY <1>1, <1>8, <1>9, <2>1, <2>2, <2>3, MoveKeeps DEF Inv, PInv, ServerFits
<1>11. CASE Moved(p, "active", place)
  <2>1. "active" \in Standing
    BY DEF Standing
  <2> QED
    BY <1>1, <1>3, <1>5, <1>8, <1>9, <1>11, <2>1, MovedKeeps
<1> QED
  BY <1>1, <1>10, <1>11

\* Leave: the place changes.
LEMMA LeaveKeeps ==
    ASSUME Inv, NEW p \in Accounts, Leave(p)
    PROVE  Inv'
<1>1. /\ p # Reader /\ Moved(p, "left", places[p].name)
      /\ UNCHANGED <<counter, profile, index, device, run, hidden, stray>> /\ joins' = joins
      /\ events < MaxEvents /\ events' = events + 1
  BY DEF Leave, Happens
<1>2. TypeOK
  BY DEF Inv
<1>3. places[p].name \in Names \cup {None} /\ "left" \in Standing
  BY <1>2, Fields DEF Standing
<1>4. joins' \in [Accounts -> Joining \cup {None}] /\ joins'[Reader] = None
  BY <1>1, <1>2 DEF TypeOK, Inv, PInv, ServerFits
<1>5. events' \in 0..MaxEvents /\ events <= events'
  BY <1>1, <1>2, BoundsAssumption DEF TypeOK
<1> QED
  BY <1>1, <1>3, <1>4, <1>5, MovedKeeps

\* Deliver: D1 shows what was staged, about somebody who is not settled.
LEMMA DeliverKeeps ==
    ASSUME Inv, NEW p \in Accounts, Deliver(p)
    PROVE  Inv'
<1>1. /\ owed[p] # <<>> /\ index' = [index EXCEPT ![p] = Head(owed[p])]
      /\ owed' = [owed EXCEPT ![p] = Tail(@)]
      /\ UNCHANGED <<counter, profile, device, run, hidden>>
      /\ seq' = seq /\ places' = places /\ joins' = joins /\ stray' = stray /\ events' = events
  BY DEF Deliver
<1>2. TypeOK
  BY DEF Inv
<1>3. index \in [Accounts -> Standing] /\ owed \in [Accounts -> Seq(Standing)] /\ Reader \in Accounts
      /\ seq \in Nat /\ events \in Nat
  BY <1>2, Fields DEF TypeOK
<1>4. Head(owed[p]) \in Standing /\ Tail(owed[p]) \in Seq(Standing)
  BY <1>1, <1>3
<1>5. index' \in [Accounts -> Standing] /\ owed' \in [Accounts -> Seq(Standing)]
  BY <1>1, <1>3, <1>4
<1>6. TypeOK'
  BY <1>1, <1>2, <1>5 DEF TypeOK, device, run
<1>7. ASSUME NEW q \in Accounts, Settled(q) PROVE Settled(q)'
  <2>1. q # p /\ Reader # p
    BY <1>1, <1>7 DEF Settled
  <2>2. owed'[q] = owed[q] /\ owed'[Reader] = owed[Reader] /\ index'[q] = index[q] /\ index'[Reader] = index[Reader]
    BY <1>1, <1>3, <2>1
  <2> QED
    BY <1>3, <1>7, <2>2 DEF Settled, VisibleToReader
<1> QED
  BY <1>1, <1>3, <1>6, <1>7, MoveKeeps DEF Inv, PInv, ServerFits

\* StrayLands: a rename, or a refusal nobody hears.
LEMMA StrayLandsKeeps ==
    ASSUME Inv, StrayLands
    PROVE  Inv'
<1>1. /\ stray # None /\ stray' = None /\ UNCHANGED <<index, group, device, run>> /\ joins' = joins
      /\ events' = events
      /\ IF stray \in Malformed THEN UNCHANGED <<counter, profile, hidden>> ELSE Versioned(Reader, stray)
  BY DEF StrayLands
<1>2. TypeOK
  BY DEF Inv
<1>3. joins' \in [Accounts -> Joining \cup {None}] /\ joins'[Reader] = None /\ Reader \in Accounts
  BY <1>1, <1>2, AccountsAssumption DEF TypeOK, Inv, PInv, ServerFits
<1>4. events' \in 0..MaxEvents /\ events <= events' /\ stray \in Names \cup {None}
  BY <1>1, <1>2, BoundsAssumption DEF TypeOK
<1>5. CASE Versioned(Reader, stray)
  BY <1>1, <1>3, <1>4, <1>5, RenameKeeps
<1>6. CASE UNCHANGED <<counter, profile, hidden>>
  <2>1. TypeOK'
    BY <1>1, <1>2, <1>3, <1>4, <1>6 DEF TypeOK, group, device, run
  <2>2. \A q \in Accounts : Settled(q)' <=> Settled(q)
    BY <1>1 DEF Settled, VisibleToReader, group
  <2>3. seq' = seq /\ places' = places /\ seq \in Nat
    BY <1>1, <1>2 DEF group, TypeOK
  <2> QED
    BY <1>1, <1>3, <1>4, <1>6, <2>1, <2>2, <2>3, MoveKeeps DEF Inv, PInv, ServerFits
<1> QED
  BY <1>1, <1>5, <1>6

\* Whatever an account asks for.
LEMMA RequestsKeep ==
    ASSUME Inv, NEW p \in Accounts, Requests(p)
    PROVE  Inv'
BY UpdateProfileKeeps, JoinKeeps, BeginJoinKeeps, AdoptKeeps, LeaveKeeps, DeliverKeeps, InterruptKeeps
   DEF Requests

-----------------------------------------------------------------------------
(* The push. *)

\* Nothing is read or written: the run goes on, ends or gives up its request,
\* and what is typed waits, backs off or is set aside.
LEMMA QuietKeeps ==
    ASSUME Inv, TypeOK', UNCHANGED <<server, held, feed, read, hidden>>, events <= events',
           call' \in {call, None}, step' = step \/ call' = None,
           \/ typed' = typed
           \/ typed # None /\ typed' # None /\ typed'.revision = typed.revision
    PROVE  Inv'
<1>1. /\ counter' = counter /\ profile' = profile /\ index' = index /\ seq' = seq /\ places' = places
      /\ owed' = owed /\ joins' = joins
      /\ held' = held /\ feed' = feed /\ read' = read /\ hidden' = hidden
  BY DEF server, group
<1>2. TypeOK
  BY DEF Inv
<1>3. /\ events \in Nat /\ events' \in Nat
      /\ typed # None => typed.revision \in Nat
      /\ typed' = None <=> typed = None
      /\ \A revision : IsCurrent(revision)' <=> IsCurrent(revision)
      /\ \A q \in Accounts : Settled(q)' <=> Settled(q)
  <2>1. events' \in Nat
    BY BoundsAssumption DEF TypeOK
  <2> QED
    BY <1>1, <1>2, <2>1, Fields DEF IsCurrent, Settled, VisibleToReader
<1>4. ServerFits'
  BY <1>1 DEF Inv, PInv, ServerFits
<1>5. CopyFits'
  BY <1>1, <1>3 DEF Inv, PInv, CopyFits, Snapshot
<1>6. CallFits'
  <2> SUFFICES ASSUME call' # None PROVE CallFits'
    BY DEF CallFits
  <2>1. call # None /\ call' = call /\ step' = step
    OBVIOUS
  <2>2. call.kind \in {"sent", "stored", "refused", "recorded"} => call.revision \in Nat
    BY <1>2, <2>1, CallHolds
  <2>3. CallFits
    BY DEF Inv, PInv
  <2>4. call.kind \in {"sent", "stored", "refused", "recorded"} => step = "push" /\ call.revision <= events'
    BY <1>3, <2>1, <2>2, <2>3 DEF CallFits
  <2> QED
    BY <1>1, <1>3, <2>1, <2>3, <2>4 DEF CallFits, Snapshot
<1>7. ReaderShown'
  BY <1>1, <1>3 DEF Inv, PInv, ReaderShown, ShowsAsTheyAre, On
<1>8. OthersShown'
  BY <1>1, <1>3 DEF Inv, PInv, OthersShown, Shows, Shown, New, On
<1> QED
  BY <1>4, <1>5, <1>6, <1>7, <1>8 DEF Inv, PInv

\* Type: a revision later than that of any request.
LEMMA TypeKeeps ==
    ASSUME Inv, NEW name \in Names, Type(name)
    PROVE  Inv'
<1> DEFINE row == [held[Reader] EXCEPT !.name = name]
           item == [revision |-> events + 1, due |-> TRUE, refused |-> FALSE]
<1>1. /\ held[Reader] # None /\ held' = [held EXCEPT ![Reader].name = name] /\ typed' = item
      /\ UNCHANGED <<server, feed, read, run, stray, hidden>>
      /\ events < MaxEvents /\ events' = events + 1
  BY DEF Type, Happens
<1>2. TypeOK
  BY DEF Inv
<1>3. /\ held \in [Accounts -> Profile \cup {None}] /\ held[Reader] \in Profile
      /\ events \in Nat /\ Reader \in Accounts
  BY <1>1, <1>2, Fields DEF TypeOK
<1>4. row \in Profile /\ row.name = name
  BY <1>3 DEF Profile
<1>5. held' = [held EXCEPT ![Reader] = row]
  BY <1>1
<1>6. item \in Item /\ item.revision = events + 1
  BY <1>3 DEF Item
<1> HIDE DEF row, item
<1>7. /\ held' \in [Accounts -> Profile \cup {None}] /\ held'[Reader] = row
      /\ \A p \in Accounts \ {Reader} : held'[p] = held[p]
  BY <1>3, <1>4, <1>5
<1>8. row # None /\ typed' # None /\ typed'.revision = events + 1
  BY <1>1, <1>4, <1>6, Nothing
<1>9. events' \in 0..MaxEvents
  BY <1>1, <1>3, BoundsAssumption
<1>10. TypeOK'
  BY <1>1, <1>2, <1>6, <1>7, <1>9 DEF TypeOK, server, group, run
<1>11. /\ counter' = counter /\ profile' = profile /\ index' = index /\ seq' = seq /\ places' = places
       /\ owed' = owed /\ joins' = joins /\ feed' = feed /\ read' = read /\ hidden' = hidden
       /\ call' = call /\ step' = step
  BY <1>1 DEF server, group, run
<1>12. ServerFits'
  BY <1>11 DEF Inv, PInv, ServerFits
<1>13. CopyFits'
  BY <1>1, <1>3, <1>4, <1>7, <1>8, <1>11 DEF Inv, PInv, CopyFits, Snapshot
<1>14. CallFits'
  <2> SUFFICES ASSUME call # None PROVE CallFits'
    BY <1>11 DEF CallFits
  <2>1. call.kind \in {"sent", "stored", "refused", "recorded"} => call.revision \in Nat
    BY <1>2, CallHolds
  <2>2. CallFits
    BY DEF Inv, PInv
  <2>3. call.kind \in {"sent", "stored", "refused", "recorded"} =>
            step = "push" /\ call.revision <= events' /\ ~IsCurrent(call.revision)'
    BY <1>1, <1>3, <1>8, <1>11, <2>1, <2>2 DEF CallFits, IsCurrent
  <2> QED
    BY <1>11, <2>2, <2>3 DEF CallFits, Snapshot
<1>15. ReaderShown'
  BY <1>8, <1>11 DEF Inv, PInv, ReaderShown, On
<1>16. OthersShown'
  <2>1. \A p \in Accounts : \A upto : Shows(p, upto)' <=> Shows(p, upto)
    BY <1>11 DEF Shows
  <2>2. \A p \in Accounts : p # Reader => \A upto : Shown(p, upto)' <=> Shown(p, upto)
    BY <1>7, <1>11 DEF Shown, Settled, VisibleToReader
  <2>3. \A p \in Accounts : Shows(p, read) => p # Reader
    BY DEF Shows
  <2> QED
    BY <1>7, <1>11 DEF Inv, PInv, OthersShown, New, On, Shown, Settled, VisibleToReader, Shows
<1> QED
  BY <1>10, <1>12, <1>13, <1>14, <1>15, <1>16 DEF Inv, PInv

\* Nothing is asked for while no run is in progress.
LEMMA IdleAsksNothing ==
    ASSUME Inv, step = "idle"
    PROVE  call = None
<1> SUFFICES ASSUME call # None PROVE FALSE
  OBVIOUS
<1>1. call.kind \in {"sent", "stored", "refused", "recorded", "feed", "changes", "group"}
  BY CallHolds DEF Inv
<1> QED
  BY <1>1 DEF Inv, PInv, CallFits

\* StartRun: nothing is in flight.
LEMMA StartRunKeeps ==
    ASSUME Inv, NEW everything \in BOOLEAN, StartRun(everything)
    PROVE  Inv'
<1>1. TypeOK'
  BY DEF Inv, TypeOK, StartRun, server, group, device
<1>2. call' = None /\ UNCHANGED <<server, held, feed, read, hidden>> /\ typed' = typed
  BY IdleAsksNothing DEF StartRun, device
<1>3. events <= events'
  BY Fields DEF Inv, StartRun
<1> QED
  BY <1>1, <1>2, <1>3, QuietKeeps

\* Pushed: the run goes on to read.
LEMMA PushedKeeps ==
    ASSUME Inv, Pushed
    PROVE  Inv'
<1>1. TypeOK'
  BY DEF Inv, TypeOK, Pushed, server, group, device
<1>2. call' = None /\ UNCHANGED <<server, held, feed, read, hidden>> /\ typed' = typed
  BY DEF Pushed, device
<1>3. events <= events'
  BY Fields DEF Inv, Pushed
<1> QED
  BY <1>1, <1>2, <1>3, QuietKeeps

\* SetAside: the name stays, refused.
LEMMA SetAsideKeeps ==
    ASSUME Inv, SetAside
    PROVE  Inv'
<1>1. /\ typed' = IF IsCurrent(call.revision) THEN [typed EXCEPT !.refused = TRUE] ELSE typed
      /\ call' = None /\ UNCHANGED <<server, held, feed, read, step, full, stray, hidden, events>>
  BY DEF SetAside
<1>2. typed # None => /\ typed \in Item
                      /\ [typed EXCEPT !.refused = TRUE] \in Item
                      /\ [typed EXCEPT !.refused = TRUE].revision = typed.revision
  BY DEF Inv, TypeOK, Item
<1>3. \/ typed' = typed
      \/ typed # None /\ typed' # None /\ typed'.revision = typed.revision /\ typed' \in Item
  BY <1>1, <1>2, Nothing DEF IsCurrent
<1>4. TypeOK'
  BY <1>1, <1>3 DEF Inv, TypeOK, server, group
<1>5. events <= events'
  BY <1>1, Fields DEF Inv
<1> QED
  BY <1>1, <1>3, <1>4, <1>5, QuietKeeps

\* BackOffEnds: the name is due again.
LEMMA BackOffEndsKeeps ==
    ASSUME Inv, BackOffEnds
    PROVE  Inv'
<1>1. /\ typed # None /\ typed' = [typed EXCEPT !.due = TRUE]
      /\ UNCHANGED <<server, held, feed, read, run, stray, hidden, events>>
  BY DEF BackOffEnds
<1>2. typed' \in Item /\ typed'.revision = typed.revision
  BY <1>1 DEF Inv, TypeOK, Item
<1>3. typed' # None
  BY <1>2, Nothing
<1>4. TypeOK'
  BY <1>1, <1>2 DEF Inv, TypeOK, server, group, run
<1>5. events <= events' /\ call' = call /\ step' = step
  BY <1>1, Fields DEF Inv, run
<1> QED
  BY <1>1, <1>2, <1>3, <1>4, <1>5, QuietKeeps

\* Lost: the request is given up.
LEMMA LostKeeps ==
    ASSUME Inv, Lost
    PROVE  Inv'
<1>1. /\ call # None /\ stray' \in (IF call.kind = "sent" THEN {stray, call.name} ELSE {stray})
      /\ call' = None /\ UNCHANGED <<server, held, feed, read, full, hidden>>
      /\ events < MaxEvents /\ events' = events + 1
      /\ \/ typed' = typed
         \/ typed # None /\ typed' = [typed EXCEPT !.due = FALSE]
      /\ step' \in {"feed", "group", "idle"}
  BY DEF Lost, Happens, IsCurrent
<1>2. typed # None => /\ typed \in Item
                      /\ [typed EXCEPT !.due = FALSE] \in Item
                      /\ [typed EXCEPT !.due = FALSE].revision = typed.revision
  BY DEF Inv, TypeOK, Item
<1>3. \/ typed' = typed
      \/ typed # None /\ typed' # None /\ typed'.revision = typed.revision /\ typed' \in Item
  BY <1>1, <1>2, Nothing
<1>4. stray' \in Names \cup {None}
  BY <1>1, CallHolds DEF Inv, TypeOK
<1>5. events' \in 0..MaxEvents /\ events <= events'
  BY <1>1, BoundsAssumption DEF Inv, TypeOK
<1>6. TypeOK'
  BY <1>1, <1>3, <1>4, <1>5 DEF Inv, TypeOK, server, group
<1> QED
  BY <1>1, <1>3, <1>5, <1>6, QuietKeeps

\* Crash: the run is gone, the tables stay.
LEMMA CrashKeeps ==
    ASSUME Inv, Crash
    PROVE  Inv'
<1>1. /\ stray' \in (IF call # None /\ call.kind = "sent" THEN {stray, call.name} ELSE {stray})
      /\ step' = "idle" /\ call' = None /\ UNCHANGED <<server, device, full, hidden>>
      /\ events < MaxEvents /\ events' = events + 1
  BY DEF Crash, Happens
<1>2. stray' \in Names \cup {None}
  BY <1>1, CallHolds DEF Inv, TypeOK
<1>3. events' \in 0..MaxEvents /\ events <= events'
  BY <1>1, BoundsAssumption DEF Inv, TypeOK
<1>4. TypeOK'
  BY <1>1, <1>2, <1>3 DEF Inv, TypeOK, server, group, device
<1>5. UNCHANGED <<server, held, feed, read, hidden>> /\ typed' = typed
  BY <1>1 DEF device
<1> QED
  BY <1>1, <1>3, <1>4, <1>5, QuietKeeps

-----------------------------------------------------------------------------
(* The push, at the server and back. *)

\* SendName: the name as it stands.
LEMMA SendNameKeeps ==
    ASSUME Inv, SendName
    PROVE  Inv'
<1>1. /\ step = "push" /\ call = None /\ typed # None
      /\ call' = [kind |-> "sent", revision |-> typed.revision, name |-> held[Reader].name]
      /\ UNCHANGED <<server, device, step, full, stray, hidden, events>>
  BY DEF SendName, Due
<1>2. TypeOK
  BY DEF Inv
<1>3. typed.revision \in Nat /\ typed.revision <= events /\ held[Reader].name \in Names
  BY <1>1, <1>2, Fields DEF Inv, PInv, CopyFits
<1>4. call' \in Call /\ call'.kind = "sent" /\ call'.revision <= events /\ call'.name = held[Reader].name
  BY <1>1, <1>3 DEF Call
<1>5. TypeOK'
  BY <1>1, <1>2, <1>4 DEF TypeOK, server, group, device
<1>6. /\ counter' = counter /\ profile' = profile /\ index' = index /\ seq' = seq /\ places' = places
      /\ owed' = owed /\ joins' = joins /\ held' = held /\ typed' = typed /\ feed' = feed /\ read' = read
      /\ hidden' = hidden /\ step' = step /\ events' = events
  BY <1>1 DEF server, group, device
<1>7. ServerFits' /\ CopyFits'
  BY <1>6 DEF Inv, PInv, ServerFits, CopyFits, Snapshot
<1>8. CallFits'
  BY <1>1, <1>4, <1>6 DEF CallFits
<1>9. ReaderShown' /\ OthersShown'
  BY <1>4, <1>6 DEF Inv, PInv, ReaderShown, OthersShown, ShowsAsTheyAre, Shows, Shown, Settled, VisibleToReader
<1> QED
  BY <1>5, <1>7, <1>8, <1>9 DEF Inv, PInv

\* ServerTakes: a rename past the cursor, or a refusal.
LEMMA ServerTakesKeeps ==
    ASSUME Inv, ServerTakes
    PROVE  Inv'
<1>1. /\ call # None /\ call.kind = "sent"
      /\ UNCHANGED <<index, group, joins, device, step, full, stray, events>>
      /\ \/ /\ call' = [kind |-> "refused", revision |-> call.revision]
            /\ UNCHANGED <<counter, profile, hidden>>
         \/ /\ Versioned(Reader, call.name)
            /\ call' = [kind |-> "stored", revision |-> call.revision, version |-> counter + 1]
  BY DEF ServerTakes
<1>2. TypeOK
  BY DEF Inv
<1>3. /\ call.revision \in Nat /\ call.name \in Names /\ step = "push" /\ call.revision <= events
      /\ IsCurrent(call.revision) => call.name = held[Reader].name
      /\ Reader \in Accounts /\ counter \in Nat /\ feed \in Nat /\ feed <= counter
  BY <1>1, <1>2, CallHolds, Fields DEF Inv, PInv, CallFits
<1>4. /\ index' = index /\ seq' = seq /\ places' = places /\ owed' = owed /\ joins' = joins
      /\ held' = held /\ typed' = typed /\ feed' = feed /\ read' = read
      /\ step' = step /\ full' = full /\ stray' = stray /\ events' = events
  BY <1>1 DEF group, device
<1>5. CASE /\ call' = [kind |-> "refused", revision |-> call.revision]
           /\ UNCHANGED <<counter, profile, hidden>>
  <2>1. call' \in Call /\ call'.kind = "refused" /\ call'.revision = call.revision
    BY <1>3, <1>5 DEF Call
  <2>2. TypeOK'
    BY <1>2, <1>4, <1>5, <2>1 DEF TypeOK
  <2>3. ServerFits' /\ CopyFits'
    BY <1>4, <1>5 DEF Inv, PInv, ServerFits, CopyFits, Snapshot
  <2>4. CallFits'
    BY <1>3, <1>4, <2>1 DEF CallFits
  <2>5. ReaderShown' /\ OthersShown'
    BY <1>4, <1>5, <2>1 DEF Inv, PInv, ReaderShown, OthersShown, ShowsAsTheyAre, Shows, Shown, Settled, VisibleToReader
  <2> QED
    BY <2>2, <2>3, <2>4, <2>5 DEF Inv, PInv
<1>6. CASE /\ Versioned(Reader, call.name)
           /\ call' = [kind |-> "stored", revision |-> call.revision, version |-> counter + 1]
  <2>1. call' \in Call /\ call'.kind = "stored" /\ call'.revision = call.revision /\ call'.version = counter + 1
    BY <1>3, <1>6 DEF Call
  <2>2. /\ counter' = counter + 1
        /\ profile' \in [Accounts -> Profile]
        /\ \A q \in Accounts : profile'[q].version <= counter' /\ 1 <= profile'[q].version
        /\ \A q, r \in Accounts : q # r => profile'[q].version # profile'[r].version
        /\ hidden' \subseteq Accounts
        /\ profile'[Reader] = [name |-> call.name, version |-> counter + 1]
        /\ \A q \in Accounts : \A row \in Profile : Snapshot(q, row) => Snapshot(q, row)'
    BY <1>1, <1>3, <1>6, Renamed
  <2>3. TypeOK'
    BY <1>2, <1>3, <1>4, <2>1, <2>2 DEF TypeOK
  <2>4. ServerFits'
    BY <1>4, <2>2 DEF Inv, PInv, ServerFits
  <2>5. CopyFits'
    <3>1. \A q \in Accounts : held[q] # None => held[q] \in Profile
      BY <1>2, Fields
    <3> QED
      BY <1>4, <2>2, <3>1 DEF Inv, PInv, CopyFits
  <2>6. IsCurrent(call.revision) =>
            Snapshot(Reader, [name |-> held[Reader].name, version |-> call.version])'
    BY <1>3, <1>4, <2>1, <2>2 DEF Snapshot
  <2>7. CallFits'
    <3>1. feed' < counter + 1
      BY <1>3, <1>4
    <3>2. IsCurrent(call.revision)' => IsCurrent(call.revision)
      BY <1>4, <2>1 DEF IsCurrent
    <3> QED
      BY <1>3, <1>4, <2>1, <2>6, <3>1, <3>2 DEF CallFits, Snapshot
  <2>8. (\A q \in Accounts : Shows(q, read)' => Shown(q, feed)') /\ (typed' = None => ShowsAsTheyAre(Reader)')
    BY <1>1, <1>3, <1>6, RenameShows
  <2>9. ReaderShown' /\ OthersShown'
    BY <2>1, <2>8 DEF ReaderShown, OthersShown
  <2> QED
    BY <2>3, <2>4, <2>5, <2>7, <2>9 DEF Inv, PInv
<1> QED
  BY <1>1, <1>5, <1>6

\* Record: the version of a name that was not typed over.
LEMMA RecordKeeps ==
    ASSUME Inv, Record
    PROVE  Inv'
<1> DEFINE row == [held[Reader] EXCEPT !.version = call.version]
<1>1. /\ call # None /\ call.kind = "stored"
      /\ held' = IF IsCurrent(call.revision) THEN [held EXCEPT ![Reader].version = call.version] ELSE held
      /\ call' = [kind |-> "recorded", revision |-> call.revision]
      /\ UNCHANGED <<server, typed, feed, read, step, full, stray, hidden, events>>
  BY DEF Record
<1>2. TypeOK
  BY DEF Inv
<1>3. /\ call.revision \in Nat /\ call.version \in Nat /\ step = "push" /\ call.revision <= events
      /\ feed < call.version
      /\ IsCurrent(call.revision) => Snapshot(Reader, [name |-> held[Reader].name, version |-> call.version])
      /\ IsCurrent(call.revision) => held[Reader] # None /\ held[Reader].name \in Names
      /\ Reader \in Accounts /\ held \in [Accounts -> Profile \cup {None}]
  BY <1>1, <1>2, CallHolds, Fields DEF Inv, PInv, CallFits, CopyFits, IsCurrent, TypeOK
<1>4. IsCurrent(call.revision) =>
          /\ row \in Profile /\ row.version = call.version /\ row.name = held[Reader].name
          /\ row = [name |-> held[Reader].name, version |-> call.version]
  BY <1>3 DEF Profile
<1>5. held' = IF IsCurrent(call.revision) THEN [held EXCEPT ![Reader] = row] ELSE held
  BY <1>1
<1> HIDE DEF row
<1>6. call' \in Call /\ call'.kind = "recorded" /\ call'.revision = call.revision
  BY <1>1, <1>3 DEF Call
<1>7. /\ held' \in [Accounts -> Profile \cup {None}]
      /\ \A q \in Accounts \ {Reader} : held'[q] = held[q]
      /\ IsCurrent(call.revision) => held'[Reader] = row /\ row # None
      /\ ~IsCurrent(call.revision) => held' = held
  BY <1>3, <1>4, <1>5, Nothing
<1>8. TypeOK'
  BY <1>1, <1>2, <1>6, <1>7 DEF TypeOK, server, group
<1>9. /\ counter' = counter /\ profile' = profile /\ index' = index /\ seq' = seq /\ places' = places
      /\ owed' = owed /\ joins' = joins /\ typed' = typed /\ feed' = feed /\ read' = read
      /\ hidden' = hidden /\ step' = step /\ events' = events
  BY <1>1 DEF server, group
<1>10. IsCurrent(call.revision)' <=> IsCurrent(call.revision)
  BY <1>6, <1>9 DEF IsCurrent
<1>11. ServerFits'
  BY <1>9 DEF Inv, PInv, ServerFits
<1>12. CopyFits'
  <2>1. IsCurrent(call.revision) => typed # None
    BY DEF IsCurrent
  <2> QED
    BY <1>3, <1>4, <1>7, <1>9, <2>1 DEF Inv, PInv, CopyFits, Snapshot
<1>13. CallFits'
  BY <1>3, <1>4, <1>6, <1>7, <1>9, <1>10 DEF CallFits, Snapshot
<1>14. ReaderShown'
  <2>1. IsCurrent(call.revision) => typed # None
    BY DEF IsCurrent
  <2> QED
    BY <1>6, <1>7, <1>9, <2>1 DEF Inv, PInv, ReaderShown, ShowsAsTheyAre
<1>15. OthersShown'
  <2>1. \A q \in Accounts : Shows(q, read)' => Shows(q, read) /\ q # Reader
    BY <1>9 DEF Shows
  <2> QED
    BY <1>6, <1>7, <1>9, <2>1 DEF Inv, PInv, OthersShown, Shown, Settled, VisibleToReader
<1> QED
  BY <1>8, <1>11, <1>12, <1>13, <1>14, <1>15 DEF Inv, PInv

\* Complete: a name just recorded is ahead of the feed.
LEMMA CompleteKeeps ==
    ASSUME Inv, Complete
    PROVE  Inv'
<1>1. /\ call # None /\ call.kind = "recorded" /\ call' = None
      /\ typed' = IF IsCurrent(call.revision) THEN None ELSE typed
      /\ UNCHANGED <<server, held, feed, read, step, full, stray, hidden, events>>
  BY DEF Complete
<1>2. TypeOK
  BY DEF Inv
<1>3. TypeOK'
  BY <1>1, <1>2 DEF TypeOK, server, group
<1>4. CASE ~IsCurrent(call.revision)
  <2>1. events <= events'
    BY <1>1, <1>2, Fields
  <2> QED
    BY <1>1, <1>3, <1>4, <2>1, QuietKeeps
<1>5. CASE IsCurrent(call.revision)
  <2>1. /\ feed < held[Reader].version /\ Snapshot(Reader, held[Reader])
        /\ held[Reader] # None /\ typed' = None
    BY <1>1, <1>5 DEF Inv, PInv, CallFits, CopyFits, IsCurrent
  <2>2. /\ counter' = counter /\ profile' = profile /\ index' = index /\ seq' = seq /\ places' = places
        /\ owed' = owed /\ joins' = joins /\ held' = held /\ feed' = feed /\ read' = read
        /\ hidden' = hidden /\ step' = step /\ events' = events
    BY <1>1 DEF server, group
  <2>3. ServerFits' /\ CallFits'
    BY <1>1, <2>2 DEF Inv, PInv, ServerFits, CallFits
  <2>4. CopyFits'
    BY <2>1, <2>2 DEF Inv, PInv, CopyFits, Snapshot
  <2>5. ReaderShown'
    <3>1. feed < profile[Reader].version
      <4>1. feed \in Nat /\ held[Reader].version \in Nat /\ profile[Reader].version \in Nat
        BY <1>2, <2>1, Fields
      <4> QED
        BY <2>1, <4>1 DEF Snapshot
    <3>2. feed \in Nat /\ profile[Reader].version \in Nat
      BY <1>2, Fields
    <3> QED
      BY <1>1, <2>2, <3>1, <3>2 DEF ReaderShown, ShowsAsTheyAre
  <2>6. OthersShown'
    BY <1>1, <2>2 DEF Inv, PInv, OthersShown, Shows, Shown, Settled, VisibleToReader
  <2> QED
    BY <1>3, <2>3, <2>4, <2>5, <2>6 DEF Inv, PInv
<1> QED
  BY <1>4, <1>5

\* Discard: the feed starts over.
LEMMA DiscardKeeps ==
    ASSUME Inv, Discard
    PROVE  Inv'
<1> DEFINE row == [held[Reader] EXCEPT !.version = 0]
<1>1. /\ step = "idle" /\ typed # None
      /\ held' = [held EXCEPT ![Reader].version = 0] /\ typed' = None /\ feed' = 0
      /\ UNCHANGED <<server, read, run, stray, hidden, events>>
  BY DEF Discard
<1>2. TypeOK
  BY DEF Inv
<1>3. held[Reader] \in Profile /\ Reader \in Accounts /\ held \in [Accounts -> Profile \cup {None}]
      /\ counter \in Nat
  BY <1>1, <1>2, Fields DEF Inv, PInv, CopyFits, TypeOK
<1>4. row \in Profile /\ row.version = 0
  BY <1>3 DEF Profile
<1>5. held' = [held EXCEPT ![Reader] = row]
  BY <1>1
<1> HIDE DEF row
<1>6. /\ held' \in [Accounts -> Profile \cup {None}] /\ held'[Reader] = row
      /\ \A q \in Accounts \ {Reader} : held'[q] = held[q]
  BY <1>3, <1>4, <1>5
<1>7. TypeOK'
  BY <1>1, <1>2, <1>3, <1>6 DEF TypeOK, server, group, run
<1>8. /\ counter' = counter /\ profile' = profile /\ index' = index /\ seq' = seq /\ places' = places
      /\ owed' = owed /\ joins' = joins /\ read' = read
      /\ hidden' = hidden /\ events' = events /\ call = None /\ call' = None
  BY <1>1, IdleAsksNothing DEF server, group, run
<1>9. \A q \in Accounts : profile[q].version \in Nat /\ 1 <= profile[q].version
  BY <1>2, Fields DEF Inv, PInv, ServerFits
<1>10. ServerFits' /\ CallFits'
  BY <1>8 DEF Inv, PInv, ServerFits, CallFits
<1>11. CopyFits'
  BY <1>1, <1>3, <1>4, <1>6, <1>8, <1>9 DEF Inv, PInv, CopyFits, Snapshot
<1>12. ReaderShown'
  BY <1>1, <1>3, <1>8, <1>9 DEF ReaderShown, ShowsAsTheyAre
<1>13. OthersShown'
  <2>1. \A q \in Accounts : Shows(q, read)' => Shown(q, feed) /\ q # Reader
    BY <1>8 DEF Shows, Inv, PInv, OthersShown
  <2>2. \A q \in Accounts : Settled(q)' <=> Settled(q)
    BY <1>8 DEF Settled, VisibleToReader
  <2> QED
    BY <1>1, <1>6, <1>8, <1>9, <2>1, <2>2 DEF OthersShown, Shown
<1> QED
  BY <1>7, <1>10, <1>11, <1>12, <1>13 DEF Inv, PInv

-----------------------------------------------------------------------------
(* The two feeds. *)

\* The greatest of some numbers below a bound is one of them.
LEMMA GreatestOf ==
    ASSUME NEW n \in Nat, NEW S \in SUBSET (1..n), S # {}
    PROVE  Max(S) \in S /\ \A x \in S : x <= Max(S)
<1> DEFINE T == {n - x : x \in S}
           R == {ss \in Nat \X Nat : ss[1] < ss[2]}
<1>1. T \in SUBSET Nat /\ T # {}
  <2>1. \A x \in S : n - x \in Nat
    OBVIOUS
  <2> QED
    BY <2>1
<1>2. IsWellFoundedOn(R, Nat)
  BY NatLessThanWellFounded DEF OpToRel
<1> HIDE DEF T, R
<1>3. PICK t \in T : \A y \in T : ~(<<y, t>> \in R)
  BY <1>1, <1>2, WFMin
<1>4. ASSUME NEW y \in T PROVE t <= y
  <2>1. ~(<<y, t>> \in R)
    BY <1>3
  <2>2. <<y, t>> \in Nat \X Nat => ~(y < t)
    BY <2>1, Zenon DEF R
  <2> QED
    BY <1>1, <2>2
<1>5. PICK x \in S : t = n - x
  BY DEF T
<1>6. ASSUME NEW y \in S PROVE x >= y
  <2>1. n - y \in T /\ x \in Nat /\ y \in Nat
    BY DEF T
  <2>2. n - x <= n - y
    BY <1>4, <1>5, <2>1
  <2> QED
    BY <2>1, <2>2
<1> QED
  BY <1>6 DEF Max

\* What a page of the feed holds: rows as they are, up to its sequence number,
\* and of the unread up to there every one.
LEMMA PageHolds ==
    ASSUME Inv
    PROVE  /\ PageSeq \in Nat /\ feed <= PageSeq /\ PageSeq <= counter
           /\ OnPage \subseteq Accounts
           /\ \A p \in Unread : profile[p].version <= PageSeq => p \in OnPage
<1> DEFINE V == {profile[p].version : p \in OnPage}
<1>1. TypeOK
  BY DEF Inv
<1>2. /\ counter \in Nat /\ feed \in Nat /\ feed <= counter
      /\ \A p \in Accounts : /\ profile[p].version \in Nat
                             /\ 1 <= profile[p].version /\ profile[p].version <= counter
  BY <1>1, Fields DEF Inv, PInv, ServerFits
<1>3. Unread \subseteq Accounts /\ OnPage \subseteq Unread
      /\ \A p \in Unread : feed < profile[p].version
  <2>1. VisibleToReader \subseteq Accounts
    BY AccountsAssumption DEF VisibleToReader
  <2> QED
    BY <2>1, <1>2 DEF Unread, OnPage
<1>4. CASE OnPage = {}
  <2>1. PageSeq = feed
    BY <1>4 DEF PageSeq
  <2> QED
    BY <1>2, <1>3, <2>1
<1>5. CASE OnPage # {}
  <2>1. V \in SUBSET (1..counter) /\ V # {}
    BY <1>2, <1>3, <1>5
  <2>2. Max(V) \in V
    <3> HIDE DEF V
    <3> QED
      BY <1>2, <2>1, GreatestOf
  <2>3. PageSeq = Max(V)
    BY <1>5 DEF PageSeq
  <2>4. PICK last \in OnPage : PageSeq = profile[last].version
    BY <2>2, <2>3
  <2>5. ASSUME NEW p \in Unread, profile[p].version <= PageSeq PROVE p \in OnPage
    <3> DEFINE Below(x) == {q \in Unread : profile[q].version <= profile[x].version}
    <3>1. Below(p) \in SUBSET Below(last)
      <4>1. ASSUME NEW q \in Unread, profile[q].version <= profile[p].version
            PROVE  profile[q].version <= profile[last].version
        BY <1>2, <1>3, <2>4, <2>5, <4>1
      <4> QED
        BY <4>1
    <3>2. IsFiniteSet(Below(last)) /\ Below(last) \in SUBSET Accounts
      BY <1>3, AccountsAssumption, FS_Subset
    <3>3. Cardinality(Below(p)) <= Cardinality(Below(last))
      <4> HIDE DEF Below
      <4> QED
        BY <3>1, <3>2, FS_Subset
    <3>4. Cardinality(Below(p)) \in Nat /\ Cardinality(Below(last)) \in Nat
      <4> HIDE DEF Below
      <4> QED
        BY <3>1, <3>2, FS_Subset, FS_CardinalityType
    <3>5. Rank(p) = Cardinality(Below(p)) /\ Rank(last) = Cardinality(Below(last))
      BY DEF Rank
    <3>6. Rank(last) <= PageSize
      BY <2>4 DEF OnPage
    <3> HIDE DEF Below
    <3>7. Rank(p) <= PageSize
      BY <3>3, <3>4, <3>5, <3>6, BoundsAssumption
    <3> QED
      BY <2>5, <3>7 DEF OnPage
  <2> QED
    BY <1>2, <1>3, <2>4, <2>5
<1> QED
  BY <1>4, <1>5

\* The profiles of some accounts, as they are.
LEMMA ProfilesAmongHold ==
    ASSUME TypeOK, NEW who \in SUBSET Accounts
    PROVE  /\ ProfilesAmong(who) \in Rows
           /\ \A p \in Accounts : ProfilesAmong(who)[p] # None => ProfilesAmong(who)[p] = profile[p]
           /\ \A p \in who : ProfilesAmong(who)[p] = profile[p] /\ profile[p] # None
<1>1. profile \in [Accounts -> Profile] /\ \A p \in Accounts : profile[p] # None
  BY Nothing DEF TypeOK
<1> QED
  BY <1>1 DEF ProfilesAmong, Rows

\* AskProfiles: whom the feed passes is on its page.
LEMMA AskProfilesKeeps ==
    ASSUME Inv, AskProfiles
    PROVE  Inv'
<1> DEFINE rows == ProfilesAmong(OnPage)
<1>1. /\ step = "feed"
      /\ call' = [kind |-> "feed", rows |-> rows, seq |-> PageSeq, hasMore |-> Cardinality(Unread) > PageSize]
      /\ UNCHANGED <<server, device, step, full, stray, hidden, events>>
  BY DEF AskProfiles
<1>2. TypeOK
  BY DEF Inv
<1>3. /\ PageSeq \in Nat /\ feed <= PageSeq /\ PageSeq <= counter
      /\ OnPage \subseteq Accounts
      /\ \A p \in Unread : profile[p].version <= PageSeq => p \in OnPage
  BY PageHolds
<1>4. /\ rows \in Rows
      /\ \A p \in Accounts : rows[p] # None => rows[p] = profile[p]
      /\ \A p \in OnPage : rows[p] = profile[p] /\ profile[p] # None
  BY <1>2, <1>3, ProfilesAmongHold
<1> HIDE DEF rows
<1>5. call' \in Call /\ call'.kind = "feed" /\ call'.rows = rows /\ call'.seq = PageSeq
  BY <1>1, <1>3, <1>4 DEF Call
<1>6. TypeOK'
  BY <1>1, <1>2, <1>5 DEF TypeOK, server, group, device
<1>7. /\ counter' = counter /\ profile' = profile /\ index' = index /\ seq' = seq /\ places' = places
      /\ owed' = owed /\ joins' = joins /\ held' = held /\ typed' = typed /\ feed' = feed /\ read' = read
      /\ hidden' = hidden /\ step' = step /\ events' = events
  BY <1>1 DEF server, group, device
<1>8. ServerFits' /\ CopyFits'
  BY <1>7 DEF Inv, PInv, ServerFits, CopyFits, Snapshot
<1>9. /\ feed \in Nat /\ Reader \in Accounts
      /\ \A p \in Accounts : profile[p].version \in Nat
  BY <1>2, Fields
<1>10. CallFits'
  <2>1. \A p \in Accounts : call'.rows[p] # None => Snapshot(p, call.rows[p])'
    BY <1>4, <1>5, <1>7, <1>9 DEF Snapshot
  <2> QED
    BY <1>1, <1>3, <1>5, <1>7, <2>1 DEF CallFits, Snapshot
<1>11. ASSUME NEW p \in Accounts, p \in VisibleToReader, feed < profile[p].version
       PROVE  PageSeq < profile[p].version \/ On(p)'
  <2>1. p \in Unread
    BY <1>9, <1>11 DEF Unread
  <2> QED
    BY <1>3, <1>4, <1>5, <1>7, <1>9, <2>1 DEF On
<1>12. ReaderShown'
  <2>1. profile[Reader].version <= PageSeq => On(Reader)' \/ profile[Reader].version <= feed
    BY <1>3, <1>9, <1>11 DEF VisibleToReader
  <2> QED
    BY <1>5, <1>7, <2>1 DEF Inv, PInv, ReaderShown, ShowsAsTheyAre
<1>13. OthersShown'
  <2>1. ASSUME NEW p \in Accounts, Shows(p, read) PROVE Shown(p, PageSeq) \/ On(p)'
    <3>1. Shown(p, feed)
      BY <2>1 DEF Inv, PInv, OthersShown
    <3> QED
      BY <1>11, <3>1 DEF Shown, Settled
  <2>3. \A p \in Accounts : Shows(p, read)' => Shown(p, feed)'
    BY <1>7 DEF Inv, PInv, OthersShown, Shows, Shown, Settled, VisibleToReader
  <2>4. \A p \in Accounts : Shows(p, read)' => Shown(p, call.seq)' \/ On(p)'
    BY <1>5, <1>7, <2>1 DEF Shows, Shown, Settled, VisibleToReader
  <2> QED
    BY <1>5, <2>3, <2>4 DEF OthersShown
<1> QED
  BY <1>6, <1>8, <1>10, <1>12, <1>13 DEF Inv, PInv

\* What the device holds after a page: a row that is the profile as it is
\* lands, unless it is the reader's own and unsent, and one it shows stays.
LEMMA AppliedHolds ==
    ASSUME Inv, NEW rows \in Rows,
           \A p \in Accounts : rows[p] # None => Snapshot(p, rows[p])
    PROVE  /\ Applied(rows) \in [Accounts -> Profile \cup {None}]
           /\ typed # None => Applied(rows)[Reader] = held[Reader]
           /\ \A p \in Accounts :
                 Applied(rows)[p] # None /\ (p = Reader => typed = None) => Snapshot(p, Applied(rows)[p])
           /\ \A p \in Accounts : held[p] = profile[p] => Applied(rows)[p] = profile[p]
           /\ \A p \in Accounts : rows[p] # None /\ rows[p] = profile[p] /\ (p = Reader => typed = None) =>
                 Applied(rows)[p] = profile[p]
<1>1. TypeOK
  BY DEF Inv
<1>2. /\ held \in [Accounts -> Profile \cup {None}] /\ Reader \in Accounts
      /\ \A p \in Accounts : /\ profile[p] \in Profile /\ profile[p].version \in Nat
                             /\ held[p] # None => held[p].version \in Nat
                             /\ rows[p] # None => rows[p] \in Profile /\ rows[p].version \in Nat
  BY <1>1, Fields DEF TypeOK, Rows, Profile
<1> DEFINE after == Applied(rows)
           Lands(p) == /\ rows[p] # None
                       /\ ~(p = Reader /\ typed # None)
                       /\ held[p] = None \/ held[p].version < rows[p].version
<1>3. \A p \in Accounts : after[p] = IF Lands(p) THEN rows[p] ELSE held[p]
  BY DEF Applied
<1>4. after \in [Accounts -> Profile \cup {None}]
  <2>1. after = [p \in Accounts |-> IF Lands(p) THEN rows[p] ELSE held[p]]
    BY DEF Applied
  <2>2. \A p \in Accounts : (IF Lands(p) THEN rows[p] ELSE held[p]) \in Profile \cup {None}
    BY <1>2
  <2> HIDE DEF after, Lands
  <2> QED
    BY <2>1, <2>2
<1> HIDE DEF after
<1>5. typed # None => after[Reader] = held[Reader]
  BY <1>2, <1>3
<1>6. \A p \in Accounts : held[p] # None /\ (p = Reader => typed = None) => Snapshot(p, held[p])
  BY DEF Inv, PInv, CopyFits
<1>7. \A p \in Accounts : after[p] # None /\ (p = Reader => typed = None) => Snapshot(p, after[p])
  BY <1>3, <1>6
<1>8. ASSUME NEW p \in Accounts, held[p] = profile[p] PROVE after[p] = profile[p]
  <2>1. held[p] # None
    BY <1>2, <1>8, Nothing
  <2>2. ~Lands(p)
    BY <1>2, <1>8, <2>1 DEF Snapshot
  <2> HIDE DEF Lands
  <2> QED
    BY <1>3, <1>8, <2>2
<1>9. ASSUME NEW p \in Accounts, rows[p] # None, rows[p] = profile[p], p = Reader => typed = None
      PROVE  after[p] = profile[p]
  <2>1. CASE Lands(p)
    BY <1>3, <1>9, <2>1
  <2>2. CASE ~Lands(p)
    <3>1. held[p] # None /\ ~(held[p].version < profile[p].version)
      BY <1>9, <2>2
    <3>2. Snapshot(p, held[p])
      BY <1>6, <1>9, <3>1
    <3>3. held[p] = profile[p]
      BY <1>2, <3>1, <3>2 DEF Snapshot
    <3> QED
      BY <1>3, <2>2, <3>3
  <2> QED
    BY <2>1, <2>2
<1> QED
  BY <1>4, <1>5, <1>7, <1>8, <1>9 DEF after

\* ApplyProfiles: the cursor moves to where the page ends.
LEMMA ApplyProfilesKeeps ==
    ASSUME Inv, ApplyProfiles
    PROVE  Inv'
<1>1. /\ call # None /\ call.kind = "feed" /\ held' = Applied(call.rows) /\ feed' = call.seq
      /\ step' = (IF call.hasMore THEN "feed" ELSE "group") /\ call' = None
      /\ UNCHANGED <<server, typed, read, full, stray, hidden, events>>
  BY DEF ApplyProfiles
<1>2. TypeOK
  BY DEF Inv
<1>3. /\ call.rows \in Rows /\ call.seq \in Nat /\ call.seq <= counter /\ counter \in Nat
      /\ \A p \in Accounts : call.rows[p] # None => Snapshot(p, call.rows[p])
  BY <1>1, <1>2, CallHolds, Fields DEF Inv, PInv, CallFits
<1>4. /\ held' \in [Accounts -> Profile \cup {None}]
      /\ typed # None => held'[Reader] = held[Reader]
      /\ \A p \in Accounts : held'[p] # None /\ (p = Reader => typed = None) => Snapshot(p, held'[p])
      /\ \A p \in Accounts : held[p] = profile[p] => held'[p] = profile[p]
      /\ \A p \in Accounts : On(p) /\ (p = Reader => typed = None) => held'[p] = profile[p]
  BY <1>1, <1>3, AppliedHolds DEF On
<1>5. TypeOK'
  BY <1>1, <1>2, <1>3, <1>4 DEF TypeOK, server, group
<1>6. /\ counter' = counter /\ profile' = profile /\ index' = index /\ seq' = seq /\ places' = places
      /\ owed' = owed /\ joins' = joins /\ typed' = typed /\ read' = read
      /\ hidden' = hidden /\ events' = events
  BY <1>1 DEF server, group
<1>7. ServerFits' /\ CallFits'
  BY <1>1, <1>6 DEF Inv, PInv, ServerFits, CallFits
<1>8. CopyFits'
  BY <1>4, <1>6 DEF Inv, PInv, CopyFits, Snapshot
<1>9. ReaderShown'
  <2>1. Reader \in Accounts
    BY AccountsAssumption
  <2>2. typed = None /\ profile[Reader].version <= call.seq => held'[Reader] = profile[Reader]
    BY <1>1, <1>4, <2>1 DEF Inv, PInv, ReaderShown, ShowsAsTheyAre
  <2> QED
    BY <1>1, <1>6, <2>2 DEF ReaderShown, ShowsAsTheyAre
<1>10. OthersShown'
  <2>1. ASSUME NEW p \in Accounts, Shows(p, read) PROVE Shown(p, feed)'
    <3>1. p # Reader /\ (Shown(p, call.seq) \/ On(p))
      BY <1>1, <2>1 DEF Inv, PInv, OthersShown, Shows
    <3>2. Settled(p)' <=> Settled(p)
      BY <1>6 DEF Settled, VisibleToReader
    <3> QED
      BY <1>1, <1>4, <1>6, <3>1, <3>2 DEF Shown
  <2>2. \A p \in Accounts : Shows(p, read)' => Shows(p, read)
    BY <1>6 DEF Shows
  <2> QED
    BY <1>1, <2>1, <2>2 DEF OthersShown
<1> QED
  BY <1>5, <1>7, <1>8, <1>9, <1>10 DEF Inv, PInv

\* AskGroup: the places past the cursor.
LEMMA AskGroupKeeps ==
    ASSUME Inv, AskGroup
    PROVE  Inv'
<1>1. /\ step = "group" /\ call' = [kind |-> "changes", seq |-> seq, who |-> CurrentProfiles]
      /\ UNCHANGED <<server, device, step, full, stray, hidden, events>>
  BY DEF AskGroup
<1>2. TypeOK
  BY DEF Inv
<1>3. seq \in Nat /\ CurrentProfiles \subseteq Accounts
  BY <1>2, Fields DEF CurrentProfiles
<1>4. call' \in Call /\ call'.kind = "changes" /\ call'.seq = seq /\ call'.who = CurrentProfiles
  BY <1>1, <1>3 DEF Call
<1>5. TypeOK'
  BY <1>1, <1>2, <1>4 DEF TypeOK, server, group, device
<1>6. /\ counter' = counter /\ profile' = profile /\ index' = index /\ seq' = seq /\ places' = places
      /\ owed' = owed /\ joins' = joins /\ held' = held /\ typed' = typed /\ feed' = feed /\ read' = read
      /\ hidden' = hidden /\ step' = step /\ events' = events
  BY <1>1 DEF server, group, device
<1>7. ServerFits' /\ CopyFits'
  BY <1>6 DEF Inv, PInv, ServerFits, CopyFits, Snapshot
<1>8. CallFits'
  BY <1>1, <1>3, <1>4, <1>6 DEF CallFits
<1>9. ReaderShown'
  BY <1>4, <1>6 DEF Inv, PInv, ReaderShown, ShowsAsTheyAre
<1>10. OthersShown'
  <2>1. \A p \in Accounts : New(p, call.seq)' => p \in call'.who
    <3>1. \A p \in Accounts : places[p].seq \in Nat /\ read \in Nat
      BY <1>2, Fields
    <3> QED
      BY <1>4, <1>6, <3>1 DEF New, CurrentProfiles
  <2>2. \A p \in Accounts : Shows(p, read)' => Shown(p, feed)'
    BY <1>6 DEF Inv, PInv, OthersShown, Shows, Shown, Settled, VisibleToReader
  <2> QED
    BY <1>4, <2>1, <2>2 DEF OthersShown
<1> QED
  BY <1>5, <1>7, <1>8, <1>9, <1>10 DEF Inv, PInv

\* ProfilesOf: their profiles, read later than the places.
LEMMA ProfilesOfKeeps ==
    ASSUME Inv, ProfilesOf
    PROVE  Inv'
<1> DEFINE rows == ProfilesAmong(call.who)
<1>1. /\ call # None /\ call.kind = "changes"
      /\ call' = [kind |-> "group", seq |-> call.seq, rows |-> rows]
      /\ UNCHANGED <<server, device, step, full, stray, hidden, events>>
  BY DEF ProfilesOf, Carried
<1>2. TypeOK
  BY DEF Inv
<1>3. /\ call.seq \in Nat /\ call.who \subseteq Accounts /\ step = "group" /\ call.seq <= seq
  BY <1>1, <1>2, CallHolds DEF Inv, PInv, CallFits
<1>4. /\ rows \in Rows
      /\ \A p \in Accounts : rows[p] # None => rows[p] = profile[p]
      /\ \A p \in call.who : rows[p] = profile[p] /\ profile[p] # None
  BY <1>2, <1>3, ProfilesAmongHold
<1> HIDE DEF rows
<1>5. call' \in Call /\ call'.kind = "group" /\ call'.seq = call.seq /\ call'.rows = rows
  BY <1>1, <1>3, <1>4 DEF Call
<1>6. TypeOK'
  BY <1>1, <1>2, <1>5 DEF TypeOK, server, group, device
<1>7. /\ counter' = counter /\ profile' = profile /\ index' = index /\ seq' = seq /\ places' = places
      /\ owed' = owed /\ joins' = joins /\ held' = held /\ typed' = typed /\ feed' = feed /\ read' = read
      /\ hidden' = hidden /\ step' = step /\ events' = events
  BY <1>1 DEF server, group, device
<1>8. ServerFits' /\ CopyFits'
  BY <1>7 DEF Inv, PInv, ServerFits, CopyFits, Snapshot
<1>9. CallFits'
  <2>1. \A p \in Accounts : profile[p].version \in Nat
    BY <1>2, Fields
  <2>2. \A p \in Accounts : call'.rows[p] # None => Snapshot(p, call.rows[p])'
    BY <1>4, <1>5, <1>7, <2>1 DEF Snapshot
  <2> QED
    BY <1>3, <1>5, <1>7, <2>2 DEF CallFits, Snapshot
<1>10. ReaderShown'
  BY <1>5, <1>7 DEF Inv, PInv, ReaderShown, ShowsAsTheyAre
<1>11. OthersShown'
  <2>1. \A p \in Accounts : New(p, call.seq)' => On(p)'
    <3>1. \A p \in Accounts : New(p, call.seq) => p \in call.who
      BY <1>1 DEF Inv, PInv, OthersShown
    <3> QED
      BY <1>4, <1>5, <1>7, <3>1 DEF New, On
  <2>2. \A p \in Accounts : Shows(p, read)' => Shown(p, feed)'
    BY <1>7 DEF Inv, PInv, OthersShown, Shows, Shown, Settled, VisibleToReader
  <2> QED
    BY <1>5, <2>1, <2>2 DEF OthersShown
<1> QED
  BY <1>6, <1>8, <1>9, <1>10, <1>11 DEF Inv, PInv

\* ApplyGroup: the profiles land with the places.
LEMMA ApplyGroupKeeps ==
    ASSUME Inv, ApplyGroup
    PROVE  Inv'
<1>1. /\ call # None /\ call.kind = "group" /\ held' = Applied(call.rows) /\ read' = call.seq
      /\ step' = "idle" /\ call' = None
      /\ UNCHANGED <<server, typed, feed, full, stray, hidden, events>>
  BY DEF ApplyGroup
<1>2. TypeOK
  BY DEF Inv
<1>3. /\ call.rows \in Rows /\ call.seq \in Nat /\ call.seq <= seq /\ seq \in Nat
      /\ \A p \in Accounts : call.rows[p] # None => Snapshot(p, call.rows[p])
  BY <1>1, <1>2, CallHolds, Fields DEF Inv, PInv, CallFits
<1>4. /\ held' \in [Accounts -> Profile \cup {None}]
      /\ typed # None => held'[Reader] = held[Reader]
      /\ \A p \in Accounts : held'[p] # None /\ (p = Reader => typed = None) => Snapshot(p, held'[p])
      /\ \A p \in Accounts : held[p] = profile[p] => held'[p] = profile[p]
      /\ \A p \in Accounts : On(p) /\ (p = Reader => typed = None) => held'[p] = profile[p]
  BY <1>1, <1>3, AppliedHolds DEF On
<1>5. TypeOK'
  BY <1>1, <1>2, <1>3, <1>4 DEF TypeOK, server, group
<1>6. /\ counter' = counter /\ profile' = profile /\ index' = index /\ seq' = seq /\ places' = places
      /\ owed' = owed /\ joins' = joins /\ typed' = typed /\ feed' = feed
      /\ hidden' = hidden /\ events' = events
  BY <1>1 DEF server, group
<1>7. ServerFits' /\ CallFits'
  BY <1>1, <1>6 DEF Inv, PInv, ServerFits, CallFits
<1>8. CopyFits'
  BY <1>4, <1>6 DEF Inv, PInv, CopyFits, Snapshot
<1>9. ReaderShown'
  <2>1. Reader \in Accounts
    BY AccountsAssumption
  <2> QED
    BY <1>1, <1>4, <1>6, <2>1 DEF Inv, PInv, ReaderShown, ShowsAsTheyAre
<1>10. OthersShown'
  <2>1. ASSUME NEW p \in Accounts, Shows(p, call.seq) PROVE Shown(p, feed)'
    <3>1. p # Reader /\ read \in Nat /\ places[p].seq \in Nat
          /\ places[p].at = "active" /\ places[p].seq <= call.seq /\ p \notin hidden
      BY <1>2, <2>1, Fields DEF Shows
    <3>2. Settled(p)' <=> Settled(p)
      BY <1>6 DEF Settled, VisibleToReader
    <3>3. CASE places[p].seq <= read
      <4>1. Shown(p, feed)
        BY <3>1, <3>3 DEF Inv, PInv, OthersShown, Shows
      <4> QED
        BY <1>4, <1>6, <3>2, <4>1 DEF Shown
    <3>4. CASE read < places[p].seq
      <4>1. New(p, call.seq)
        BY <3>1, <3>4 DEF New
      <4>2. On(p) \/ (Settled(p) /\ feed < profile[p].version)
        BY <1>1, <2>1, <4>1 DEF Inv, PInv, OthersShown
      <4> QED
        BY <1>4, <1>6, <3>1, <3>2, <4>2 DEF Shown
    <3> QED
      BY <3>1, <3>3, <3>4
  <2>2. \A p \in Accounts : Shows(p, read)' => Shows(p, call.seq)
    BY <1>1, <1>6 DEF Shows
  <2> QED
    BY <1>1, <2>1, <2>2 DEF OthersShown
<1> QED
  BY <1>5, <1>7, <1>8, <1>9, <1>10 DEF Inv, PInv

-----------------------------------------------------------------------------
(* The theorems. *)

\* At first nothing is held and the feed has everything to bring.
LEMMA InitHolds == Init => Inv
<1> SUFFICES ASSUME Init PROVE Inv
  OBVIOUS
<1> DEFINE n == Cardinality(Accounts)
<1>1. n \in Nat /\ Reader \in Accounts
  BY AccountsAssumption, FS_CardinalityType
<1>2. PICK made \in [Accounts -> 1..n] :
        /\ \A p, q \in Accounts : p # q => made[p] # made[q]
        /\ counter = n
        /\ profile = [p \in Accounts |-> [name |-> None, version |-> made[p]]]
        /\ index = [p \in Accounts |-> "none"]
        /\ seq = 1
        /\ places = [p \in Accounts |-> [at |-> IF p = Reader THEN "active" ELSE "none",
                                         name |-> None, seq |-> IF p = Reader THEN 1 ELSE 0]]
        /\ owed = [p \in Accounts |-> IF p = Reader THEN <<"active">> ELSE <<>>]
        /\ joins = [p \in Accounts |-> None]
        /\ held = [p \in Accounts |-> None] /\ typed = None /\ feed = 0 /\ read = 0
        /\ step = "idle" /\ full = FALSE /\ call = None /\ stray = None
        /\ hidden = {} /\ events = 0
  BY DEF Init
<1> HIDE DEF n
<1>3. \A p \in Accounts : /\ profile[p] = [name |-> None, version |-> made[p]]
                          /\ profile[p] \in Profile /\ profile[p].version = made[p]
                          /\ made[p] \in Nat /\ 1 <= made[p] /\ made[p] <= counter
  <2>1. \A p \in Accounts : made[p] \in 1..n
    BY <1>2
  <2>2. \A p \in Accounts : profile[p] = [name |-> None, version |-> made[p]]
    BY <1>2
  <2>3. \A p \in Accounts : made[p] \in Nat /\ 1 <= made[p] /\ made[p] <= counter
    BY <1>1, <1>2, <2>1
  <2> QED
    BY <2>2, <2>3 DEF Profile
<1>4. \A p \in Accounts : /\ places[p] \in Place
                          /\ places[p].seq = IF p = Reader THEN 1 ELSE 0
                          /\ places[p].at = IF p = Reader THEN "active" ELSE "none"
  BY <1>2 DEF Place, Standing
<1>5. owed \in [Accounts -> Seq(Standing)]
  <2>1. "active" \in Standing
    BY DEF Standing
  <2>2. <<"active">> \in Seq(Standing) /\ <<>> \in Seq(Standing)
    BY <2>1
  <2> QED
    BY <1>2, <2>2
<1>6. TypeOK
  <2>1. profile \in [Accounts -> Profile] /\ places \in [Accounts -> Place]
        /\ index \in [Accounts -> Standing] /\ joins \in [Accounts -> Joining \cup {None}]
        /\ held \in [Accounts -> Profile \cup {None}]
    BY <1>2, <1>3, <1>4 DEF Standing
  <2>2. events \in 0..MaxEvents /\ feed \in 0..counter /\ read \in 0..seq
    BY <1>1, <1>2, BoundsAssumption
  <2> QED
    BY <1>1, <1>2, <1>3, <1>5, <2>1, <2>2 DEF TypeOK
<1>7. ServerFits
  BY <1>1, <1>2, <1>3, <1>4 DEF ServerFits
<1>8. CopyFits /\ CallFits
  BY <1>2 DEF CopyFits, CallFits
<1>9. ReaderShown
  BY <1>1, <1>2, <1>3 DEF ReaderShown, ShowsAsTheyAre
<1>10. OthersShown
  BY <1>2, <1>4 DEF OthersShown, Shows
<1> QED
  BY <1>6, <1>7, <1>8, <1>9, <1>10 DEF Inv, PInv

\* Nothing happens.
LEMMA StutterKeeps ==
    ASSUME Inv, UNCHANGED vars
    PROVE  Inv'
<1>1. TypeOK' /\ UNCHANGED <<server, held, feed, read, hidden>> /\ typed' = typed /\ call' = call /\ step' = step
  BY DEF Inv, TypeOK, vars, server, group, device, run
<1>2. events <= events'
  BY Fields DEF Inv, vars
<1> QED
  BY <1>1, <1>2, QuietKeeps

\* Every step keeps the invariant.
LEMMA Inductive == Inv /\ [Next]_vars => Inv'
<1> SUFFICES ASSUME Inv, [Next]_vars PROVE Inv'
  OBVIOUS
<1>1. ASSUME NEW p \in Accounts, Requests(p) PROVE Inv'
  BY <1>1, RequestsKeep
<1>2. ASSUME NEW everything \in BOOLEAN, StartRun(everything) PROVE Inv'
  BY <1>2, StartRunKeeps
<1>3. CASE RunStep
  BY <1>3, SendNameKeeps, PushedKeeps, ServerTakesKeeps, RecordKeeps, CompleteKeeps, SetAsideKeeps,
     AskProfilesKeeps, ApplyProfilesKeeps, AskGroupKeeps, ProfilesOfKeeps, ApplyGroupKeeps DEF RunStep
<1>4. CASE Discard \/ BackOffEnds \/ Lost \/ Crash \/ StrayLands
  BY <1>4, DiscardKeeps, BackOffEndsKeeps, LostKeeps, CrashKeeps, StrayLandsKeeps
<1>5. ASSUME NEW name \in Names, Type(name) PROVE Inv'
  BY <1>5, TypeKeeps
<1>6. CASE UNCHANGED vars
  BY <1>6, StutterKeeps
<1> QED
  BY <1>1, <1>2, <1>3, <1>4, <1>5, <1>6 DEF Next

\* So it always holds.
LEMMA InvHolds == Spec => []Inv
<1> QED
  BY InitHolds, Inductive, PTL DEF Spec

\* Every variable holds what its table or field may, and no two profiles share a
\* version (the unique index and the counter row of profile-version.ts).
THEOREM ProfilesTyped == Spec => []TypeOK
<1>1. Inv => TypeOK
  BY DEF Inv
<1> QED
  BY <1>1, InvHolds, PTL

\* What the device has read past, it shows as it is: every profile the feed is
\* past, of everybody whose place it has read, and its own with nothing unsent,
\* except those renamed while their membership was on its way to D1
\* (shared_feeds.dart, apply_changes.dart, api/ledger.ts).
THEOREM NamesHold == Spec => []NamesArrive
<1>1. Inv => NamesArrive
  <2> SUFFICES ASSUME Inv PROVE NamesArrive
    OBVIOUS
  <2>1. ASSUME NEW p \in Accounts \ (hidden \cup {Reader}),
               places[p].at = "active", places[p].seq <= read
        PROVE  ShowsAsTheyAre(p)
    <3>1. Shown(p, feed)
      BY <2>1 DEF Inv, PInv, OthersShown, Shows
    <3>2. feed \in Nat /\ profile[p].version \in Nat
      BY Fields DEF Inv
    <3> QED
      BY <3>1, <3>2 DEF Shown, ShowsAsTheyAre
  <2>2. typed = None => ShowsAsTheyAre(Reader)
    BY DEF Inv, PInv, ReaderShown
  <2> QED
    BY <2>1, <2>2 DEF NamesArrive
<1> QED
  BY <1>1, InvHolds, PTL

=============================================================================
