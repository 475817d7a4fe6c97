------------------------------ MODULE DeviceSync ------------------------------
(***************************************************************************)
(* One device's copy of one group: local edits, the queue of unsent rows    *)
(* (outbox_queue.dart), and the sync run that pushes the queue and then     *)
(* reads the group past its cursor (sync_engine.dart, apply_changes.dart),  *)
(* against a server other devices write to.                                 *)
(*                                                                          *)
(* Screens write at any moment, between any two steps of a run.  A request  *)
(* can be lost, take effect and lose its answer, or arrive after the device *)
(* gave up on it; the app can be killed at any step.                        *)
(*                                                                          *)
(* A row is what people write (text, and for an expense whom it names) and, *)
(* for a member, whether an account holds the place, which only the server  *)
(* decides.  A deleted expense keeps its row, marked.  The server is Group, *)
(* reduced to what its answers depend on.                                   *)
(***************************************************************************)
EXTENDS Integers, Sequences, FiniteSets, FiniteSetsExt

CONSTANTS
    Entries, Members,  \* row ids
    EntryTexts,        \* what people write of an expense
    MemberTexts,       \* what people write of a member
    Deleted,           \* what a deleted expense says
    None,              \* null, or no row
    PageSize,          \* changes per page
    MaxSeq,            \* bound: other people write only below it
    MaxEdits,          \* bound: edits on this device
    MaxFaults,         \* bound: lost calls and kills
    MaxDiscards        \* bound: times refused writes are discarded or retried

Rows == Entries \cup Members
Texts == EntryTexts \cup MemberTexts

ASSUME RowsAssumption ==
    /\ Entries \cap Members = {} /\ None \notin Rows
    /\ IsFiniteSet(Rows)
    /\ Deleted \in EntryTexts \ MemberTexts
ASSUME BoundsAssumption ==
    /\ PageSize \in Nat \ {0}
    /\ {MaxSeq, MaxEdits, MaxFaults, MaxDiscards} \subseteq Nat

VARIABLES
    seq,        \* server: the group's last sequence number
    server,     \* server: its rows
    stored,     \* history: every content the server ever stored, by row
    local,      \* device: its rows, each with the version it is based on
    queue,      \* device: the outbox, by row
    parked,     \* device: conflicts waiting to be read
    cursor,     \* device: how far the group has been read
    step,       \* the run in progress: "idle", "push" or "pull"
    reads,      \* it reads the group after pushing
    batch,      \* the round of items it is working through
    sending,    \* the request it waits for
    page,       \* the page it has been answered
    stray,      \* a request given up on that may still arrive
    origin,     \* history: where each row was created, None before
    forgotten,  \* history: rows taken, as no version was recorded, for ones the
                \* server never had, and expenses left out for naming such a
                \* row; until a page brings them or an answer is recorded
    edits, faults, discards   \* how many so far

remote == <<seq, server, stored>>
device == <<local, queue, parked, cursor>>
run == <<step, reads, batch, sending, page>>
history == <<origin, forgotten>>
bounds == <<edits, faults, discards>>
vars == <<remote, device, run, stray, history, bounds>>

Content == [text : Texts, names : SUBSET Members]
ServerRow == [text : Texts, names : SUBSET Members, held : BOOLEAN, seq : Nat]
LocalRow == [text : Texts, names : SUBSET Members, held : BOOLEAN, base : Nat \cup {None}]
\* due: not backing off.  refused: set aside, with the server's reason.
Reasons == {"stale", "unknown", "forbidden"}
Item == [revision : Nat, position : Nat, due : BOOLEAN, refused : Reasons \cup {None}]
Call == [row : Rows, revision : Nat, body : Content, base : Nat \cup {None},
         answer : {"none", "stored", "recorded"} \cup Reasons, seq : Nat]
\* An item of a round, as it was when the round began.
Taken == [row : Rows, revision : Nat, position : Nat]
Page == [since : Nat, seq : Nat, hasMore : BOOLEAN, rows : [Rows -> ServerRow \cup {None}]]

ASSUME NullAssumption ==
    None \notin Nat \cup Reasons \cup Content \cup ServerRow \cup LocalRow \cup Item \cup Call \cup Page

TablesTyped ==
    /\ seq \in Nat /\ cursor \in Nat
    /\ server \in [Rows -> ServerRow \cup {None}]
    /\ stored \in [Rows -> SUBSET Content]
    /\ local \in [Rows -> LocalRow \cup {None}]
    /\ queue \in [Rows -> Item \cup {None}]
    /\ parked \in [Rows -> Content \cup {None}] /\ \A m \in Members : parked[m] = None
    /\ step \in {"idle", "push", "pull"} /\ reads \in BOOLEAN
    /\ batch \in Seq(Taken)
    /\ sending \in Call \cup {None} /\ stray \in Call \cup {None}
    /\ page \in Page \cup {None}
    /\ edits \in Nat /\ faults \in Nat /\ discards \in Nat

\* Every variable holds what its table or field may.
TypeOK ==
    /\ TablesTyped
    /\ origin \in [Rows -> {None, "here", "elsewhere"}] /\ forgotten \subseteq Rows

ContentOf(row) == [text |-> row.text, names |-> row.names]

\* What can be written over a row: a member is not deleted by its text, an
\* expense is deleted as it stands, and an edit is not an undelete.
Writes(r, row) ==
    IF r \in Members THEN [text : MemberTexts, names : {{}}]
    ELSE {content \in [text : EntryTexts, names : SUBSET Members] :
            IF row = None THEN content.text # Deleted
            ELSE Deleted \in {content.text, row.text} =>
                     content = [text |-> Deleted, names |-> row.names]}

\* A row's id is made where the row is created, once.
Created(r, table, where) ==
    IF table[r] = None
    THEN origin[r] = None /\ origin' = [origin EXCEPT ![r] = where]
    ELSE UNCHANGED origin

-----------------------------------------------------------------------------
(* The server. *)

Known(table) == {m \in Members : table[m] # None}

Store(r, row) ==
    /\ seq' = seq + 1
    /\ server' = [server EXCEPT ![r] = [row EXCEPT !.seq = seq + 1]]
    /\ stored' = [stored EXCEPT ![r] = @ \cup {ContentOf(row)}]

NewRow(content) ==
    [text |-> content.text, names |-> content.names, held |-> FALSE, seq |-> 0]

\* What putEntry and putMember say to a body written against a version: who it
\* names is checked first, then whether anything changed, then the version.
Refusal(r, body, base) ==
    IF ~(body.names \subseteq Known(server)) THEN "unknown"
    ELSE IF server[r] = None THEN None
    ELSE IF ContentOf(server[r]) = body THEN None
    ELSE IF server[r].held THEN "forbidden"
    ELSE IF server[r].seq # base THEN "stale"
    ELSE None

Unchanged(r, body) == server[r] # None /\ ContentOf(server[r]) = body

Written(r, body) ==
    IF server[r] = None THEN NewRow(body)
    ELSE [server[r] EXCEPT !.text = body.text, !.names = body.names]

\* The whole handler: the answer is a refusal or the row with its sequence number.
Handled(r, body, base) ==
    IF Refusal(r, body, base) # None \/ Unchanged(r, body)
    THEN UNCHANGED remote
    ELSE Store(r, Written(r, body))

Answered(call) ==
    LET refusal == Refusal(call.row, call.body, call.base)
    IN  IF refusal # None THEN [call EXCEPT !.answer = refusal]
        ELSE [call EXCEPT !.answer = "stored",
                          !.seq = IF Unchanged(call.row, call.body)
                                  THEN server[call.row].seq ELSE seq + 1]

\* Somebody else's device creates or edits a row, having read the latest.
OthersWrite(r, content) ==
    /\ seq < MaxSeq
    /\ Created(r, server, "elsewhere")
    /\ content.names \subseteq Known(server)
    /\ ~Unchanged(r, content)
    /\ Refusal(r, content, IF server[r] = None THEN None ELSE server[r].seq) = None
    /\ Store(r, Written(r, content))
    /\ UNCHANGED <<device, run, stray, forgotten, bounds>>

\* Somebody joins as a placeholder: its row changes in what no device writes.
Claim(m) ==
    /\ seq < MaxSeq
    /\ server[m] # None /\ ~server[m].held
    /\ Store(m, [server[m] EXCEPT !.held = TRUE])
    /\ UNCHANGED <<device, run, stray, history, bounds>>

\* changesSince: a page is cut between sequence numbers, and the members
\* changed since the cursor all ride on it, even ahead of it.
Moved(since) == {server[r].seq : r \in {q \in Rows : server[q] # None /\ server[q].seq > since}}

\* The page's last sequence number: the PageSize-th, or the last there is.
UpTo(since) ==
    LET full == {n \in Moved(since) : Cardinality({k \in Moved(since) : k <= n}) >= PageSize}
    IN  IF full # {} THEN Min(full) ELSE Max(Moved(since) \cup {since})

\* Mutant: members ride only with their own page.
OnPage_Windowed(r, since) ==
    /\ server[r] # None
    /\ server[r].seq > since
    /\ server[r].seq <= UpTo(since)

OnPage(r, since) ==
    /\ server[r] # None
    /\ server[r].seq > since
    /\ r \in Members \/ server[r].seq <= UpTo(since)

ChangesSince(since) ==
    [since |-> since, seq |-> UpTo(since), hasMore |-> Cardinality(Moved(since)) > PageSize,
     rows |-> [r \in Rows |-> IF OnPage(r, since) THEN server[r] ELSE None]]

Brought(pg) == {r \in Rows : pg.rows[r] # None}

-----------------------------------------------------------------------------
(* Screens. *)

LocalMembers(table) == {m \in Members : table[m] # None}
Unsent == {r \in Rows : queue[r] # None}

\* A later edit of a row the server acknowledged goes to the back; one it
\* never acknowledged keeps the place its creation took.
Queued(r) ==
    [revision |-> edits + 1,
     position |-> IF queue[r] = None \/ local[r].base # None
                  THEN edits + 1 ELSE queue[r].position,
     due      |-> TRUE,
     refused  |-> None]

\* Writing a row, queueing it and dismissing its conflict are one transaction.
Edit(r, content) ==
    /\ edits < MaxEdits
    /\ Created(r, local, "here")
    /\ content.names \subseteq LocalMembers(local)
    /\ local' = [local EXCEPT ![r] =
           IF local[r] = None
           THEN [text |-> content.text, names |-> content.names, held |-> FALSE, base |-> None]
           ELSE [local[r] EXCEPT !.text = content.text, !.names = content.names]]
    /\ queue' = [queue EXCEPT ![r] = Queued(r)]
    /\ parked' = [parked EXCEPT ![r] = None]
    /\ edits' = edits + 1
    /\ UNCHANGED <<remote, cursor, run, stray, forgotten, faults, discards>>

-----------------------------------------------------------------------------
(* A run: the push. *)

\* A full sync or one for this group reads it; one for another group only
\* when the push wrote to it.
StartRun(everything) ==
    /\ step = "idle"
    /\ step' = "push"
    /\ reads' = everything
    /\ UNCHANGED <<remote, device, batch, sending, page, stray, history, bounds>>

\* What has not been set aside, in queue order.
Waiting == {r \in Unsent : queue[r].refused = None}
Place(r) == Cardinality({q \in Waiting : queue[q].position <= queue[r].position})
Pending == [i \in 1..Cardinality(Waiting) |-> CHOOSE r \in Waiting : Place(r) = i]
AsTaken(r) == [row |-> r, revision |-> queue[r].revision, position |-> queue[r].position]

\* Mutant: every due item, past those that wait.
Due_NoBarrier ==
    LET ready == SelectSeq(Pending, LAMBDA r : queue[r].due)
    IN  [i \in DOMAIN ready |-> AsTaken(ready[i])]

\* What is ready, up to the first item that is backing off: it may be what the
\* ones behind it depend on.
Due ==
    LET held  == {i \in DOMAIN Pending : ~queue[Pending[i]].due}
        ready == IF held = {} THEN Len(Pending) ELSE Min(held) - 1
    IN  [i \in 1..ready |-> AsTaken(Pending[i])]

AfterPush == IF reads THEN "pull" ELSE "idle"

NextRound ==
    /\ step = "push" /\ batch = <<>> /\ sending = None
    /\ batch' = Due
    /\ step' = IF Due = <<>> THEN AfterPush ELSE step
    /\ UNCHANGED <<remote, device, reads, sending, page, stray, history, bounds>>

IsCurrent(item) == queue[item.row] # None /\ queue[item.row].revision = item.revision

\* Deleted before a version of it was recorded.
NeverSent(r) == r \in Entries /\ local[r].text = Deleted /\ local[r].base = None

\* The row is read when it is sent.
SendNext ==
    /\ step = "push" /\ batch # <<>> /\ sending = None
    /\ LET item == Head(batch) IN
       /\ IsCurrent(item) /\ ~NeverSent(item.row)
       /\ sending' = [row |-> item.row, revision |-> item.revision,
                      body |-> ContentOf(local[item.row]),
                      base |-> local[item.row].base, answer |-> "none", seq |-> 0]
    /\ UNCHANGED <<remote, device, step, reads, batch, page, stray, history, bounds>>

Dequeued(r) == [queue EXCEPT ![r] = None]

\* Nothing is sent for an item a newer edit replaced, which stays queued, nor
\* for an expense deleted before a version came back, which is taken for one
\* the server never had and is done with.
PassOver ==
    /\ step = "push" /\ batch # <<>> /\ sending = None
    /\ LET item == Head(batch)
           r == item.row
       IN \/ /\ ~IsCurrent(item)
             /\ UNCHANGED <<queue, forgotten>>
          \/ /\ IsCurrent(item) /\ NeverSent(r)
             /\ queue' = Dequeued(r)
             /\ forgotten' = forgotten \cup {r}
    /\ batch' = Tail(batch)
    /\ UNCHANGED <<remote, local, parked, cursor, step, reads, sending, page, stray, origin, bounds>>

ServerTakes ==
    /\ sending # None /\ sending.answer = "none"
    /\ Handled(sending.row, sending.body, sending.base)
    /\ sending' = Answered(sending)
    /\ UNCHANGED <<device, step, reads, batch, page, stray, history, bounds>>

\* The answered sequence number becomes the row's version, whatever has been
\* edited since.
Acknowledge ==
    /\ sending # None /\ sending.answer = "stored"
    /\ local' = [local EXCEPT ![sending.row].base = sending.seq]
    /\ sending' = [sending EXCEPT !.answer = "recorded"]
    /\ forgotten' = forgotten \ {sending.row}
    /\ UNCHANGED <<remote, queue, parked, cursor, step, reads, batch, page, stray, origin, bounds>>

NextItem == batch' = Tail(batch) /\ sending' = None

\* Mutant: the item is dropped whichever edit it now stands for.
Complete_AnyRevision ==
    /\ sending # None /\ sending.answer = "recorded"
    /\ queue' = Dequeued(sending.row)
    /\ NextItem /\ reads' = TRUE
    /\ UNCHANGED <<remote, local, parked, cursor, step, page, stray, history, bounds>>

Complete ==
    /\ sending # None /\ sending.answer = "recorded"
    /\ queue' = IF IsCurrent(sending) THEN Dequeued(sending.row) ELSE queue
    /\ NextItem /\ reads' = TRUE
    /\ UNCHANGED <<remote, local, parked, cursor, step, page, stray, history, bounds>>

Rewound(to) == IF cursor > to THEN to ELSE cursor

\* Mutant: a member's edit is parked too.
Park_AnyRow ==
    /\ sending # None /\ sending.answer = "stale"
    /\ LET r == sending.row IN
       IF IsCurrent(sending)
       THEN /\ parked' = [parked EXCEPT ![r] = ContentOf(local[r])]
            /\ cursor' = Rewound(IF local[r].base = None THEN 0 ELSE local[r].base)
            /\ queue' = Dequeued(r)
            /\ reads' = TRUE
       ELSE UNCHANGED <<parked, cursor, queue, reads>>
    /\ NextItem
    /\ UNCHANGED <<remote, local, step, page, stray, history, bounds>>

\* An expense somebody else changed first: the edit is kept to be read, and
\* the server's version, passed over while the row was dirty, is read again.
Park ==
    /\ sending # None /\ sending.answer = "stale" /\ sending.row \in Entries
    /\ LET r == sending.row IN
       IF IsCurrent(sending)
       THEN /\ parked' = [parked EXCEPT ![r] = ContentOf(local[r])]
            /\ cursor' = Rewound(IF local[r].base = None THEN 0 ELSE local[r].base)
            /\ queue' = Dequeued(r)
            /\ reads' = TRUE
       ELSE UNCHANGED <<parked, cursor, queue, reads>>
    /\ NextItem
    /\ UNCHANGED <<remote, local, step, page, stray, history, bounds>>

\* Mutant: it is retried like a lost call.
SetAside_Retries ==
    /\ sending # None /\ sending.answer \in Reasons
    /\ sending.answer = "stale" => sending.row \in Members
    /\ queue' = IF IsCurrent(sending)
                THEN [queue EXCEPT ![sending.row].due = FALSE] ELSE queue
    /\ NextItem /\ reads' = TRUE
    /\ UNCHANGED <<remote, local, parked, cursor, step, page, stray, history, bounds>>

\* Any other refusal is final: the item is set aside with its reason.
SetAside ==
    /\ sending # None /\ sending.answer \in Reasons
    /\ sending.answer = "stale" => sending.row \in Members
    /\ queue' = IF IsCurrent(sending)
                THEN [queue EXCEPT ![sending.row].refused = sending.answer] ELSE queue
    /\ NextItem /\ reads' = TRUE
    /\ UNCHANGED <<remote, local, parked, cursor, step, page, stray, history, bounds>>

\* A request given up on before the server took it may still arrive.
GivenUp == IF sending # None /\ sending.answer = "none" THEN {stray, sending} ELSE {stray}

\* No answer: the item backs off and the push stops; what earlier items of it
\* wrote is still read.
Lost ==
    /\ faults < MaxFaults
    /\ sending # None /\ sending.answer # "recorded"
    /\ queue' = IF IsCurrent(sending) THEN [queue EXCEPT ![sending.row].due = FALSE] ELSE queue
    /\ stray' \in GivenUp
    /\ sending' = None /\ batch' = <<>>
    /\ step' = AfterPush
    /\ faults' = faults + 1
    /\ UNCHANGED <<remote, local, parked, cursor, reads, page, history, edits, discards>>

StrayArrives ==
    /\ stray # None
    /\ Handled(stray.row, stray.body, stray.base)
    /\ stray' = None
    /\ UNCHANGED <<device, run, history, bounds>>

\* A back-off runs out.
BackOffEnds(r) ==
    /\ queue[r] # None /\ ~queue[r].due
    /\ queue' = [queue EXCEPT ![r].due = TRUE]
    /\ UNCHANGED <<remote, local, parked, cursor, run, stray, history, bounds>>

-----------------------------------------------------------------------------
(* A run: the pull. *)

AskPage ==
    /\ step = "pull" /\ page = None
    /\ page' = ChangesSince(cursor)
    /\ UNCHANGED <<remote, device, step, reads, batch, sending, stray, history, bounds>>

FromServer(row) == [text |-> row.text, names |-> row.names, held |-> row.held, base |-> row.seq]

\* Rows with unsent writes are passed over, members are written first, and an
\* expense naming somebody this device does not have is left out.
Accepted(pg, dirty) ==
    LET fresh == Brought(pg) \ dirty
        known == LocalMembers(local) \cup (fresh \cap Members)
    IN  {r \in fresh : r \in Members \/ pg.rows[r].names \subseteq known}

\* Left out because this device has given up a member it names.
Missed(pg, dirty) ==
    {r \in Brought(pg) \ (dirty \cup Accepted(pg, dirty)) : pg.rows[r].names \cap forgotten # {}}

Merged(pg, dirty) ==
    [r \in Rows |-> IF r \in Accepted(pg, dirty) THEN FromServer(pg.rows[r]) ELSE local[r]]

\* The page and the cursor are one transaction.
Apply ==
    /\ page # None
    /\ local' = Merged(page, Unsent)
    /\ forgotten' = (forgotten \ Accepted(page, Unsent)) \cup Missed(page, Unsent)
    /\ cursor' = page.seq
    /\ page' = None
    /\ step' = IF page.hasMore /\ page.seq > page.since THEN "pull" ELSE "idle"
    /\ UNCHANGED <<remote, queue, parked, reads, batch, sending, stray, origin, bounds>>

PageLost ==
    /\ faults < MaxFaults
    /\ page # None
    /\ page' = None /\ step' = "idle"
    /\ faults' = faults + 1
    /\ UNCHANGED <<remote, device, reads, batch, sending, stray, history, edits, discards>>

\* The app is killed: the tables stay, the run and its request are gone.
Crash ==
    /\ faults < MaxFaults
    /\ step # "idle"
    /\ stray' \in GivenUp
    /\ step' = "idle" /\ reads' = FALSE /\ batch' = <<>> /\ sending' = None /\ page' = None
    /\ faults' = faults + 1
    /\ UNCHANGED <<remote, device, history, edits, discards>>

-----------------------------------------------------------------------------
(* What a person does about refused writes. *)

Refused == {r \in Unsent : queue[r].refused # None}

\* Everything refused at once: a row with a version is read again from before
\* it; one without is deleted, a member only if no expense left names it.
DiscardRefused ==
    LET unknown  == {r \in Refused : local[r].base = None}
        expenses == unknown \cap Entries
        left     == {e \in Entries \ expenses : local[e] # None}
        named    == UNION {local[e].names : e \in left}
        deleted  == expenses \cup ((unknown \cap Members) \ named)
        befores  == {local[r].base - 1 : r \in Refused \ unknown}
    IN  /\ step = "idle"
        /\ discards < MaxDiscards
        /\ Refused # {}
        /\ local' = [r \in Rows |-> IF r \in deleted THEN None ELSE local[r]]
        /\ queue' = [r \in Rows |-> IF r \in Refused THEN None ELSE queue[r]]
        /\ cursor' = Min({cursor} \cup befores)
        /\ forgotten' = forgotten \cup unknown
        /\ discards' = discards + 1
        /\ UNCHANGED <<remote, parked, run, stray, origin, edits, faults>>

RetryRefused ==
    LET again == {r \in Refused : queue[r].refused # "stale"}
    IN  /\ discards < MaxDiscards
        /\ again # {}
        /\ queue' = [r \in Rows |-> IF r \in again
                       THEN [queue[r] EXCEPT !.refused = None, !.due = TRUE] ELSE queue[r]]
        /\ discards' = discards + 1
        /\ UNCHANGED <<remote, local, parked, cursor, run, stray, history, edits, faults>>

-----------------------------------------------------------------------------

Init ==
    /\ seq = 0 /\ cursor = 0
    /\ server = [r \in Rows |-> None] /\ stored = [r \in Rows |-> {}]
    /\ local = [r \in Rows |-> None] /\ queue = [r \in Rows |-> None]
    /\ parked = [r \in Rows |-> None]
    /\ step = "idle" /\ reads = FALSE /\ batch = <<>>
    /\ sending = None /\ page = None /\ stray = None
    /\ origin = [r \in Rows |-> None] /\ forgotten = {}
    /\ edits = 0 /\ faults = 0 /\ discards = 0

RunStep ==
    \/ \E everything \in BOOLEAN : StartRun(everything)
    \/ NextRound \/ SendNext \/ PassOver \/ ServerTakes
    \/ Acknowledge \/ Complete \/ Park \/ SetAside
    \/ AskPage \/ Apply

Elsewhere ==
    \/ \E r \in Rows : \E content \in Writes(r, server[r]) : OthersWrite(r, content)
    \/ \E m \in Members : Claim(m)

Next ==
    \/ RunStep \/ Elsewhere
    \/ \E r \in Rows : \E content \in Writes(r, local[r]) : Edit(r, content)
    \/ \E r \in Rows : BackOffEnds(r)
    \/ Lost \/ PageLost \/ Crash \/ StrayArrives
    \/ DiscardRefused \/ RetryRefused

Spec == Init /\ [][Next]_vars

\* Runs follow runs (the coordinator asks for one when a back-off ends), each
\* step of a run is answered or times out, and a back-off ends.
Fairness ==
    /\ WF_vars(RunStep)
    /\ \A r \in Rows : WF_vars(BackOffEnds(r))

FairSpec == Spec /\ Fairness

-----------------------------------------------------------------------------
(* Properties. *)

\* A row with nothing unsent, whose server version this device has read past,
\* says what the server says: no page, park, lost answer or crash leaves an old
\* copy that no later pull would replace.  Left out are the rows the device took
\* for ones the server never had, and those it could not take on that account.
CaughtUp ==
    \A r \in Rows \ forgotten :
        (queue[r] = None /\ server[r] # None /\ server[r].seq <= cursor) =>
            /\ local[r] # None
            /\ ContentOf(local[r]) = ContentOf(server[r])
            /\ local[r].base = server[r].seq

\* What somebody wrote here is never silently dropped: a write leaves the queue
\* only when the server stored just that, or it is parked, or its author
\* discards it, or it deletes an expense no version of which was recorded; and
\* until then only its author changes it.
NoEditLost ==
    [][\A r \in Rows : queue[r] # None /\ discards' = discards =>
          \/ edits' # edits
          \/ /\ local'[r] # None /\ ContentOf(local'[r]) = ContentOf(local[r])
             /\ queue'[r] = None => \/ ContentOf(local[r]) \in stored[r]
                                    \/ parked'[r] = ContentOf(local[r])
                                    \/ NeverSent(r)]_vars

\* "Created and deleted before its first push: nothing remote to delete": a
\* deletion that is not sent is of an expense the server does not have.
NothingRemote ==
    [][\A r \in Entries : (queue[r] # None /\ queue'[r] = None /\ NeverSent(r)) =>
          server[r] = None]_vars

\* An expense is refused for naming a member the server does not have only if
\* the expense, or such a member, was edited again before the server first took it.
SentInOrder ==
    (sending # None /\ sending.answer = "unknown") =>
        \/ Head(batch).position # Head(batch).revision
        \/ \E m \in sending.body.names :
               queue[m] # None /\ queue[m].position # queue[m].revision

\* Every write is in the end taken, parked, refused or passed over, whatever is
\* lost.
EveryWriteAnswered == <>[](\A r \in Rows : queue[r] = None \/ queue[r].refused # None)

=============================================================================
