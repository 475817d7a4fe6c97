-------------------------- MODULE DeviceSyncProofs --------------------------
(***************************************************************************)
(* DeviceSync for any finite set of rows and any bounds: the variables keep *)
(* their types, no write is lost, the copy is current behind its cursor,    *)
(* and a member reaches the server before the expenses that name it.        *)
(***************************************************************************)
EXTENDS DeviceSync, TLAPS, WellFoundedInduction, FiniteSetTheorems

-----------------------------------------------------------------------------
(* The inductive invariant. *)

\* The server: a row has a number of its own, its content is in the history,
\* and it names only members the server has.
ServerFits ==
    \A r \in Rows : server[r] # None =>
        /\ 1 <= server[r].seq /\ server[r].seq <= seq
        /\ server[r].names \subseteq Known(server)
        /\ ContentOf(server[r]) \in stored[r]
        /\ r \in Members => server[r].names = {}

\* The queue: a queued row exists, its place is no later than its edit, and no
\* two rows have the same place.
QueueFits ==
    /\ \A r \in Rows : queue[r] # None =>
           /\ local[r] # None
           /\ queue[r].position <= queue[r].revision /\ queue[r].revision <= edits
    /\ \A r, q \in Rows :
           (queue[r] # None /\ queue[q] # None /\ queue[r].position = queue[q].position) => r = q

\* The copy: a row's version is one the server had.
CopyFits ==
    /\ cursor <= seq
    /\ \A r \in Rows : local[r] # None =>
           /\ r \in Members => local[r].names = {}
           /\ local[r].base # None => /\ server[r] # None
                                      /\ 1 <= local[r].base /\ local[r].base <= server[r].seq

\* The run: it waits for the first item of its round, or for a page.
RunFits ==
    /\ step # "push" => sending = None /\ batch = <<>>
    /\ step # "pull" => page = None
    /\ \A i \in 1..Len(batch) : batch[i].revision <= edits
    /\ sending # None =>
           /\ batch # <<>> /\ Head(batch).row = sending.row
           /\ Head(batch).revision = sending.revision
           /\ sending.revision <= edits
           /\ queue[sending.row] # None

\* The request: its body is the row as it stands unless that was edited since,
\* and an answer says what the server did.
CallFits ==
    /\ stray # None => (stray.row \in Members => stray.body.names = {})
    /\ sending # None =>
        LET r == sending.row IN
        /\ r \in Members => sending.body.names = {}
        /\ IsCurrent(sending) => ContentOf(local[r]) = sending.body
        /\ local[r].base = IF sending.answer = "recorded" THEN sending.seq ELSE sending.base
        /\ sending.answer = "unknown" => sending.body.names # {}
        /\ sending.answer \in {"stale", "forbidden"} => server[r] # None
        /\ (sending.answer = "stale" /\ sending.base # None) => sending.base < server[r].seq
        /\ sending.answer \in {"stored", "recorded"} =>
             /\ sending.body \in stored[r]
             /\ server[r] # None /\ 1 <= sending.seq /\ sending.seq <= server[r].seq
             /\ server[r].seq <= cursor => /\ server[r].seq = sending.seq
                                           /\ ContentOf(server[r]) = sending.body

\* The page: what the server had between the cursor and its last number, and
\* nothing this device has read before.
PageFits ==
    page # None =>
        /\ page.since = cursor /\ cursor <= page.seq /\ page.seq <= seq
        /\ \A r \in Rows : page.rows[r] # None =>
               /\ r \in Members => page.rows[r].names = {}
               /\ server[r] # None
               /\ cursor < page.rows[r].seq /\ page.rows[r].seq <= server[r].seq
        /\ \A r \in Rows :
               (server[r] # None /\ cursor < server[r].seq /\ server[r].seq <= page.seq) =>
                   page.rows[r] = server[r]

\* The inductive invariant.
Inv == TablesTyped /\ ServerFits /\ QueueFits /\ CopyFits /\ RunFits /\ CallFits /\ PageFits

-----------------------------------------------------------------------------
(* Facts about the operators. *)

\* What a row may be made to say is a content, and no member names anybody.
LEMMA WritesFit ==
    ASSUME NEW r \in Rows, NEW row, NEW content \in Writes(r, row)
    PROVE  content \in Content /\ (r \in Members => content.names = {})
<1>1. CASE r \in Members
  BY <1>1 DEF Writes, Content, Texts
<1>2. CASE r \notin Members
  BY <1>2 DEF Writes, Content, Texts
<1> QED
  BY <1>1, <1>2

\* What people write in a row, on either side.
LEMMA Rowly ==
    ASSUME NEW row, row \in ServerRow \/ row \in LocalRow
    PROVE  ContentOf(row) \in Content
BY DEF ServerRow, LocalRow, ContentOf, Content

\* No row, item, call or page is the null one.
LEMMA Nothing ==
    /\ None \notin Nat /\ None \notin Reasons /\ None \notin Content /\ None \notin ServerRow
    /\ None \notin LocalRow /\ None \notin Item /\ None \notin Call /\ None \notin Page
BY NullAssumption

\* A row a body makes: a new one, or the old one with the body in it.
LEMMA BodyFits ==
    ASSUME TablesTyped, NEW r \in Rows, NEW body \in Content
    PROVE  Written(r, body) \in ServerRow /\ ContentOf(Written(r, body)) = body
<1>1. body.text \in Texts /\ body.names \in SUBSET Members
      /\ body = [text |-> body.text, names |-> body.names]
  BY DEF Content
<1>2. CASE server[r] = None
  BY <1>1, <1>2 DEF Written, NewRow, ServerRow, ContentOf
<1>3. CASE server[r] # None
  <2>1. server[r] \in ServerRow
    BY <1>3 DEF TablesTyped
  <2> QED
    BY <1>1, <1>3, <2>1 DEF Written, ServerRow, ContentOf
<1> QED
  BY <1>2, <1>3

\* What the server does in any step: nothing, or one row gets the next number.
ServerMoves ==
    \/ UNCHANGED remote
    \/ \E r \in Rows : \E row \in ServerRow :
           /\ row.names \subseteq Known(server)
           /\ r \in Members => row.names = {}
           /\ Store(r, row)

\* A request handled moves the server so.
LEMMA HandledMoves ==
    ASSUME TablesTyped, NEW r \in Rows, NEW body \in Content, NEW base,
           r \in Members => body.names = {}, Handled(r, body, base)
    PROVE  ServerMoves
<1> DEFINE row == Written(r, body)
<1>1. CASE Refusal(r, body, base) # None \/ Unchanged(r, body)
  BY <1>1 DEF Handled, ServerMoves
<1>2. CASE ~(Refusal(r, body, base) # None \/ Unchanged(r, body))
  <2>1. body.names \subseteq Known(server)
    BY <1>2, Nothing DEF Refusal, Reasons
  <2>2. row \in ServerRow /\ ContentOf(row) = body
    BY BodyFits
  <2>3. row.names = body.names
    BY <2>2 DEF ContentOf
  <2>4. Store(r, row)
    BY <1>2 DEF Handled
  <2> QED
    BY <2>1, <2>2, <2>3, <2>4 DEF ServerMoves
<1> QED
  BY <1>1, <1>2

\* What such a step leaves the rest of the invariant with.
LEMMA MovesKeep ==
    ASSUME TablesTyped, ServerFits, ServerMoves
    PROVE  /\ seq' \in Nat /\ seq <= seq'
           /\ server' \in [Rows -> ServerRow \cup {None}]
           /\ stored' \in [Rows -> SUBSET Content]
           /\ \A r \in Rows : /\ stored[r] \subseteq stored'[r]
                              /\ server[r] # None => /\ server'[r] # None
                                                     /\ server[r].seq <= server'[r].seq
                              /\ server'[r] # server[r] => server'[r] # None /\ server'[r].seq = seq + 1
           /\ ServerFits'
<1>0. /\ seq \in Nat /\ server \in [Rows -> ServerRow \cup {None}]
      /\ stored \in [Rows -> SUBSET Content]
  BY DEF TablesTyped
<1>s. \A x \in ServerRow : x.seq \in Nat
  BY DEF ServerRow
<1>1. CASE UNCHANGED remote
  <2>1. seq' = seq /\ server' = server /\ stored' = stored
    BY <1>1 DEF remote
  <2>2. ServerFits'
    BY <2>1 DEF ServerFits, Known
  <2> QED
    BY <1>0, <1>s, <2>1, <2>2
<1>2. ASSUME NEW r \in Rows, NEW row \in ServerRow,
             row.names \subseteq Known(server), r \in Members => row.names = {}, Store(r, row)
      PROVE  /\ seq' \in Nat /\ seq <= seq'
             /\ server' \in [Rows -> ServerRow \cup {None}]
             /\ stored' \in [Rows -> SUBSET Content]
             /\ \A q \in Rows : /\ stored[q] \subseteq stored'[q]
                                /\ server[q] # None => /\ server'[q] # None
                                                       /\ server[q].seq <= server'[q].seq
                                /\ server'[q] # server[q] => server'[q] # None /\ server'[q].seq = seq + 1
             /\ ServerFits'
  <2> DEFINE new == [row EXCEPT !.seq = seq + 1]
  <2>1. /\ new \in ServerRow /\ new.seq = seq + 1 /\ new.names = row.names
        /\ ContentOf(new) = ContentOf(row)
    BY <1>0 DEF ServerRow, ContentOf
  <2>2. seq' = seq + 1 /\ server' = [server EXCEPT ![r] = new]
        /\ stored' = [stored EXCEPT ![r] = @ \cup {ContentOf(row)}]
    BY <1>2 DEF Store
  <2> HIDE DEF new
  <2>3. new # None
    BY <2>1, Nothing
  <2>4. server' \in [Rows -> ServerRow \cup {None}]
    BY <1>0, <2>1, <2>2
  <2>5. ContentOf(row) \in Content
    BY Rowly
  <2>6. stored' \in [Rows -> SUBSET Content]
    BY <1>0, <2>2, <2>5
  <2>7. \A q \in Rows : /\ server'[q] = IF q = r THEN new ELSE server[q]
                        /\ stored'[q] = IF q = r THEN stored[r] \cup {ContentOf(new)} ELSE stored[q]
    BY <1>0, <2>1, <2>2
  <2>8. \A q \in Rows : server[q] # None => server[q].seq \in Nat /\ server[q].seq <= seq
    BY <1>0, <1>s DEF ServerFits
  <2>9. Known(server) \subseteq Known(server')
    BY <2>3, <2>7 DEF Known, Rows
  <2>10. ServerFits'
    <3> SUFFICES ASSUME NEW q \in Rows, server'[q] # None
                 PROVE  /\ 1 <= server'[q].seq /\ server'[q].seq <= seq'
                        /\ server'[q].names \subseteq Known(server')
                        /\ ContentOf(server'[q]) \in stored'[q]
                        /\ q \in Members => server'[q].names = {}
      BY DEF ServerFits
    <3>1. CASE q = r
      <4>1. server'[q] = new /\ ContentOf(new) \in stored'[q]
        BY <2>7, <3>1
      <4>2. seq + 1 >= 1
        BY <1>0
      <4>3. 1 <= server'[q].seq /\ server'[q].seq <= seq'
        BY <1>0, <2>1, <2>2, <4>1, <4>2
      <4>4. server'[q].names \subseteq Known(server') /\ (q \in Members => server'[q].names = {})
        BY <1>2, <2>1, <2>9, <3>1, <4>1
      <4> QED
        BY <4>1, <4>3, <4>4
    <3>2. CASE q # r
      <4>1. server'[q] = server[q] /\ stored'[q] = stored[q]
        BY <2>7, <3>2
      <4>2. 1 <= server[q].seq /\ server[q].names \subseteq Known(server)
            /\ ContentOf(server[q]) \in stored[q] /\ (q \in Members => server[q].names = {})
        BY <4>1 DEF ServerFits
      <4>3. server'[q].seq <= seq'
        BY <1>0, <2>2, <2>8, <4>1
      <4>4. server'[q].names \subseteq Known(server')
        BY <2>9, <4>1, <4>2
      <4> QED
        BY <4>1, <4>2, <4>3, <4>4
    <3> QED
      BY <3>1, <3>2
  <2>11. \A q \in Rows : /\ stored[q] \subseteq stored'[q]
                         /\ server[q] # None => /\ server'[q] # None
                                                /\ server[q].seq <= server'[q].seq
                         /\ server'[q] # server[q] => server'[q] # None /\ server'[q].seq = seq + 1
    BY <1>0, <2>1, <2>3, <2>7, <2>8
  <2> QED
    BY <1>0, <2>2, <2>4, <2>6, <2>10, <2>11
<1> QED
  BY <1>1, <1>2 DEF ServerMoves

-----------------------------------------------------------------------------
(* The server's steps. *)

\* The device's tables and the page it holds fit the server as it moves on.
LEMMA DeviceKeeps ==
    ASSUME Inv, ServerMoves, UNCHANGED <<device, edits, page>>
    PROVE  ServerFits' /\ QueueFits' /\ CopyFits' /\ PageFits'
<1>1. /\ seq' \in Nat /\ seq <= seq'
      /\ \A r \in Rows : /\ server[r] # None => /\ server'[r] # None
                                                /\ server[r].seq <= server'[r].seq
                         /\ server'[r] # server[r] => server'[r] # None /\ server'[r].seq = seq + 1
      /\ ServerFits'
  BY MovesKeep DEF Inv
<1>2. local' = local /\ queue' = queue /\ parked' = parked /\ cursor' = cursor /\ edits' = edits /\ page' = page
  BY DEF device
<1>3. QueueFits'
  BY <1>2 DEF Inv, QueueFits
<1>t. /\ seq \in Nat /\ cursor \in Nat
      /\ \A r \in Rows : /\ server[r] # None => server[r].seq \in Nat
                         /\ server'[r] # None => server'[r].seq \in Nat
                         /\ local[r] # None => local[r].base \in Nat \cup {None}
      /\ page # None => /\ page.seq \in Nat
                        /\ \A r \in Rows : page.rows[r] # None => page.rows[r].seq \in Nat
  <2>1. server' \in [Rows -> ServerRow \cup {None}]
    BY MovesKeep DEF Inv
  <2> QED
    BY <2>1 DEF Inv, TablesTyped, ServerRow, LocalRow, Page
<1>4. CopyFits'
  <2>1. cursor <= seq /\ cursor' <= seq'
    BY <1>1, <1>2, <1>t DEF Inv, CopyFits
  <2>2. ASSUME NEW r \in Rows, local[r] # None
        PROVE  /\ r \in Members => local[r].names = {}
               /\ local[r].base # None => /\ server'[r] # None
                                          /\ 1 <= local[r].base /\ local[r].base <= server'[r].seq
    <3>1. /\ r \in Members => local[r].names = {}
          /\ local[r].base # None => /\ server[r] # None
                                     /\ 1 <= local[r].base /\ local[r].base <= server[r].seq
      BY <2>2 DEF Inv, CopyFits
    <3> QED
      BY <1>1, <1>t, <2>2, <3>1
  <2> QED
    BY <1>2, <2>1, <2>2 DEF CopyFits
<1>5. PageFits'
  <2> SUFFICES ASSUME page # None PROVE PageFits'
    BY <1>2 DEF PageFits
  <2>1. /\ page.since = cursor /\ cursor <= page.seq /\ page.seq <= seq
        /\ \A r \in Rows : page.rows[r] # None =>
               /\ r \in Members => page.rows[r].names = {}
               /\ server[r] # None
               /\ cursor < page.rows[r].seq /\ page.rows[r].seq <= server[r].seq
        /\ \A r \in Rows :
               (server[r] # None /\ cursor < server[r].seq /\ server[r].seq <= page.seq) =>
                   page.rows[r] = server[r]
    BY DEF Inv, PageFits
  <2>2. ASSUME NEW r \in Rows, page.rows[r] # None
        PROVE  server'[r] # None /\ page.rows[r].seq <= server'[r].seq
    BY <1>1, <1>t, <2>1, <2>2
  <2>3. ASSUME NEW r \in Rows, server'[r] # None, cursor < server'[r].seq, server'[r].seq <= page.seq
        PROVE  page.rows[r] = server'[r]
    BY <1>1, <1>t, <2>1, <2>3
  <2>4. page.seq <= seq'
    BY <1>1, <1>t, <2>1
  <2> QED
    BY <1>2, <2>1, <2>2, <2>3, <2>4 DEF PageFits
<1> QED
  BY <1>1, <1>3, <1>4, <1>5

\* The request in flight, as the server moves on for somebody else.
LEMMA CallKeeps ==
    ASSUME Inv, ServerMoves, UNCHANGED <<device, sending>>, stray' \in {stray, None}
    PROVE  CallFits'
<1>1. /\ seq' \in Nat /\ seq <= seq'
      /\ \A r \in Rows : /\ stored[r] \subseteq stored'[r]
                         /\ server[r] # None => /\ server'[r] # None
                                                /\ server[r].seq <= server'[r].seq
                         /\ server'[r] # server[r] => server'[r] # None /\ server'[r].seq = seq + 1
      /\ server' \in [Rows -> ServerRow \cup {None}]
  BY MovesKeep DEF Inv
<1>2. local' = local /\ queue' = queue /\ cursor' = cursor /\ sending' = sending
  BY DEF device
<1>3. stray' # None => (stray'.row \in Members => stray'.body.names = {})
  BY DEF Inv, CallFits
<1> SUFFICES ASSUME sending # None PROVE CallFits'
  BY <1>2, <1>3 DEF CallFits
<1> DEFINE r == sending.row
<1>t. /\ r \in Rows /\ seq \in Nat /\ cursor \in Nat /\ cursor <= seq /\ sending.seq \in Nat
      /\ server[r] # None => server[r].seq \in Nat
      /\ server'[r] # None => server'[r].seq \in Nat
      /\ sending.base # None => sending.base \in Nat
  <2>1. sending \in Call
    BY DEF Inv, TablesTyped
  <2>2. r \in Rows /\ sending.seq \in Nat /\ (sending.base # None => sending.base \in Nat)
    BY <2>1 DEF Call
  <2>3. seq \in Nat /\ cursor \in Nat /\ cursor <= seq
    BY DEF Inv, TablesTyped, CopyFits
  <2>4. server[r] # None => server[r].seq \in Nat
    BY <2>2 DEF Inv, TablesTyped, ServerRow
  <2>5. server'[r] # None => server'[r].seq \in Nat
    BY <1>1, <2>2 DEF ServerRow
  <2> QED
    BY <2>2, <2>3, <2>4, <2>5
<1>4. /\ r \in Members => sending.body.names = {}
      /\ IsCurrent(sending) => ContentOf(local[r]) = sending.body
      /\ local[r].base = IF sending.answer = "recorded" THEN sending.seq ELSE sending.base
      /\ sending.answer = "unknown" => sending.body.names # {}
      /\ sending.answer \in {"stale", "forbidden"} => server[r] # None
      /\ (sending.answer = "stale" /\ sending.base # None) => sending.base < server[r].seq
      /\ sending.answer \in {"stored", "recorded"} =>
           /\ sending.body \in stored[r]
           /\ server[r] # None /\ 1 <= sending.seq /\ sending.seq <= server[r].seq
           /\ server[r].seq <= cursor => /\ server[r].seq = sending.seq
                                         /\ ContentOf(server[r]) = sending.body
  BY DEF Inv, CallFits
<1>5. sending.answer \in {"stale", "forbidden"} => server'[r] # None
  BY <1>1, <1>4, <1>t
<1>6. ASSUME sending.answer = "stale", sending.base # None PROVE sending.base < server'[r].seq
  BY <1>1, <1>4, <1>6, <1>t
<1>7. ASSUME sending.answer \in {"stored", "recorded"}
      PROVE  /\ sending.body \in stored'[r]
             /\ server'[r] # None /\ 1 <= sending.seq /\ sending.seq <= server'[r].seq
             /\ server'[r].seq <= cursor => server'[r] = server[r] /\ server[r].seq <= cursor
  <2>1. sending.body \in stored'[r] /\ server[r] # None
    BY <1>1, <1>4, <1>7, <1>t
  <2>2. server'[r] # None /\ 1 <= sending.seq /\ sending.seq <= server'[r].seq
    BY <1>1, <1>4, <1>7, <1>t
  <2>3. server'[r].seq <= cursor => server'[r] = server[r] /\ server[r].seq <= cursor
    BY <1>1, <1>t
  <2> QED
    BY <2>1, <2>2, <2>3
<1>8. IsCurrent(sending)' = IsCurrent(sending)
  BY <1>2 DEF IsCurrent
<1> HIDE DEF r
<1> QED
  BY <1>2, <1>3, <1>4, <1>5, <1>6, <1>7, <1>8 DEF CallFits, r

\* Steps only the server takes: other people, and a request given up on.
LEMMA ServerOnly ==
    ASSUME Inv, ServerMoves, UNCHANGED <<device, run, bounds>>, stray' \in {stray, None}
    PROVE  Inv'
<1>1. UNCHANGED <<step, reads, batch, sending, page, edits, faults, discards>>
  BY DEF run, bounds
<1>2. ServerFits' /\ QueueFits' /\ CopyFits' /\ PageFits' /\ CallFits'
  BY <1>1, DeviceKeeps, CallKeeps
<1>3. RunFits'
  BY <1>1 DEF Inv, RunFits, device
<1>4. TablesTyped'
  <2>1. seq' \in Nat /\ server' \in [Rows -> ServerRow \cup {None}]
        /\ stored' \in [Rows -> SUBSET Content]
    BY MovesKeep DEF Inv
  <2> QED
    BY <1>1, <2>1 DEF Inv, TablesTyped, device
<1> QED
  BY <1>2, <1>3, <1>4 DEF Inv

\* So do other people's writes and claims.
LEMMA OthersMove ==
    ASSUME Inv, Elsewhere
    PROVE  ServerMoves
<1>1. ASSUME NEW r \in Rows, NEW content \in Writes(r, server[r]), OthersWrite(r, content)
      PROVE  ServerMoves
  <2> DEFINE row == Written(r, content)
  <2>1. content \in Content /\ (r \in Members => content.names = {})
    BY WritesFit
  <2>2. row \in ServerRow /\ ContentOf(row) = content
    BY <2>1, BodyFits DEF Inv
  <2>3. content.names \subseteq Known(server) /\ Store(r, row)
    BY <1>1 DEF OthersWrite
  <2>4. row.names = content.names
    BY <2>2 DEF ContentOf
  <2> HIDE DEF row
  <2> QED
    BY <2>1, <2>2, <2>3, <2>4 DEF ServerMoves
<1>2. ASSUME NEW m \in Members, Claim(m) PROVE ServerMoves
  <2> DEFINE row == [server[m] EXCEPT !.held = TRUE]
  <2>0. m \in Rows
    BY DEF Rows
  <2>1. server[m] # None /\ Store(m, row)
    BY <1>2 DEF Claim
  <2>2. server[m] \in ServerRow
    BY <2>0, <2>1 DEF Inv, TablesTyped
  <2>3. row \in ServerRow /\ row.names = server[m].names
    BY <2>2 DEF ServerRow
  <2>4. server[m].names = {}
    BY <2>0, <2>1 DEF Inv, ServerFits
  <2> HIDE DEF row
  <2> QED
    BY <2>0, <2>1, <2>3, <2>4 DEF ServerMoves
<1> QED
  BY <1>1, <1>2 DEF Elsewhere

\* So does a request that arrives late.
LEMMA StrayMoves ==
    ASSUME Inv, StrayArrives
    PROVE  ServerMoves
<1>1. stray # None /\ Handled(stray.row, stray.body, stray.base)
  BY DEF StrayArrives
<1>2. stray \in Call
  BY <1>1 DEF Inv, TablesTyped
<1>3. stray.row \in Rows /\ stray.body \in Content
  BY <1>2 DEF Call
<1>4. stray.row \in Members => stray.body.names = {}
  BY <1>1 DEF Inv, CallFits
<1> QED
  BY <1>1, <1>3, <1>4, HandledMoves DEF Inv

\* The server moving on for somebody else keeps the invariant.
LEMMA ServerOnlyKeeps ==
    ASSUME Inv, Elsewhere \/ StrayArrives
    PROVE  Inv'
<1>1. ServerMoves
  BY OthersMove, StrayMoves
<1>2. UNCHANGED <<device, run, bounds>> /\ stray' \in {stray, None}
  BY DEF Elsewhere, OthersWrite, Claim, StrayArrives
<1> QED
  BY <1>1, <1>2, ServerOnly

-----------------------------------------------------------------------------
(* The push. *)

\* The answer to a request: what it says is so once the server has handled it.
LEMMA ServerTakesKeeps ==
    ASSUME Inv, ServerTakes
    PROVE  Inv'
<1> DEFINE r == sending.row
           refusal == Refusal(r, sending.body, sending.base)
<1>1. /\ sending # None /\ sending.answer = "none"
      /\ Handled(r, sending.body, sending.base)
      /\ sending' = Answered(sending)
      /\ UNCHANGED <<device, step, reads, batch, page, stray, bounds>>
  BY DEF ServerTakes
<1>2. UNCHANGED <<local, queue, parked, cursor, edits, faults, discards>>
  BY <1>1 DEF device, bounds
<1>3. sending \in Call
  BY <1>1 DEF Inv, TablesTyped
<1>4. /\ r \in Rows /\ sending.body \in Content /\ sending.seq \in Nat
      /\ sending.base \in Nat \cup {None}
  BY <1>3 DEF Call
<1>5. /\ r \in Members => sending.body.names = {}
      /\ IsCurrent(sending) => ContentOf(local[r]) = sending.body
      /\ local[r].base = sending.base
  BY <1>1 DEF Inv, CallFits
<1>6. ServerMoves
  BY <1>1, <1>4, <1>5, HandledMoves DEF Inv
<1>7. /\ seq' \in Nat
      /\ server' \in [Rows -> ServerRow \cup {None}]
      /\ stored' \in [Rows -> SUBSET Content]
  BY <1>6, MovesKeep DEF Inv
<1>8. ServerFits' /\ QueueFits' /\ CopyFits' /\ PageFits'
  BY <1>1, <1>6, DeviceKeeps DEF bounds
<1>t. /\ seq \in Nat /\ cursor \in Nat /\ cursor <= seq
      /\ server[r] # None => server[r] \in ServerRow /\ server[r].seq \in Nat /\ 1 <= server[r].seq
                             /\ ContentOf(server[r]) \in stored[r]
  BY <1>4 DEF Inv, TablesTyped, CopyFits, ServerFits, ServerRow
<1>n. None \notin Reasons /\ None \notin Nat
  BY Nothing
<1> HIDE DEF r, refusal
<1>9. CASE refusal # None
  <2>1. UNCHANGED remote
    BY <1>1, <1>9 DEF Handled, refusal
  <2>2. server' = server /\ stored' = stored /\ seq' = seq
    BY <2>1 DEF remote
  <2>3. refusal \in Reasons
    BY <1>9 DEF refusal, Refusal, Reasons
  <2>4. sending' = [sending EXCEPT !.answer = refusal]
    BY <1>1, <1>9 DEF Answered, refusal, r
  <2>5. /\ sending' \in Call /\ sending' # None /\ sending'.answer = refusal
        /\ sending'.row = r /\ sending'.body = sending.body /\ sending'.base = sending.base
        /\ sending'.revision = sending.revision
    BY <1>3, <2>3, <2>4, Nothing DEF Call, r
  <2>6. refusal = "unknown" => sending.body.names # {}
    BY <1>n DEF refusal, Refusal, Reasons
  <2>7. refusal \in {"stale", "forbidden"} => server[r] # None
    BY <1>n DEF refusal, Refusal, Reasons
  <2>8. refusal = "stale" => server[r].seq # sending.base
    BY <1>n DEF refusal, Refusal, Reasons
  <2>9. (refusal = "stale" /\ sending.base # None) => sending.base < server[r].seq
    <3>1. local[r] # None /\ sending.base # None => sending.base <= server[r].seq
      BY <1>4, <1>5 DEF Inv, CopyFits
    <3>2. local[r] # None
      BY <1>1, <1>4 DEF Inv, RunFits, QueueFits, r
    <3> QED
      BY <1>4, <1>t, <2>7, <2>8, <3>1, <3>2
  <2>10. CallFits'
    <3>1. IsCurrent(sending)' = IsCurrent(sending)
      BY <1>2, <2>5 DEF IsCurrent, r
    <3>2. stray' # None => (stray'.row \in Members => stray'.body.names = {})
      BY <1>1 DEF Inv, CallFits
    <3> QED
      BY <1>2, <1>5, <2>2, <2>3, <2>5, <2>6, <2>7, <2>9, <3>1, <3>2 DEF CallFits, Reasons
  <2>11. RunFits'
    BY <1>1, <1>2, <2>5 DEF Inv, RunFits, r
  <2>12. TablesTyped'
    BY <1>1, <1>2, <1>7, <2>5 DEF Inv, TablesTyped
  <2> QED
    BY <1>8, <2>10, <2>11, <2>12 DEF Inv
<1>10. CASE refusal = None
  <2> DEFINE n == IF Unchanged(r, sending.body) THEN server[r].seq ELSE seq + 1
  <2>1. sending' = [sending EXCEPT !.answer = "stored", !.seq = n]
    BY <1>1, <1>10 DEF Answered, refusal, r
  <2>2. /\ n \in Nat
        /\ sending.body \in stored'[r]
        /\ server'[r] # None /\ 1 <= n /\ n <= server'[r].seq
        /\ server'[r].seq <= cursor => server'[r].seq = n /\ ContentOf(server'[r]) = sending.body
    <3>1. CASE Unchanged(r, sending.body)
      <4>1. UNCHANGED remote
        BY <1>1, <3>1 DEF Handled
      <4>2. server' = server /\ stored' = stored /\ seq' = seq
        BY <4>1 DEF remote
      <4>3. server[r] # None /\ ContentOf(server[r]) = sending.body
        BY <3>1 DEF Unchanged
      <4> QED
        BY <1>t, <3>1, <4>2, <4>3
    <3>2. CASE ~Unchanged(r, sending.body)
      <4> DEFINE row == Written(r, sending.body)
      <4>1. Store(r, row)
        BY <1>1, <1>10, <3>2 DEF Handled, refusal
      <4>2. row \in ServerRow /\ ContentOf(row) = sending.body
        BY <1>4, BodyFits DEF Inv
      <4> HIDE DEF row
      <4>3. [row EXCEPT !.seq = seq + 1] \in ServerRow /\ [row EXCEPT !.seq = seq + 1].seq = seq + 1
        BY <1>t, <4>2 DEF ServerRow
      <4>4. /\ server'[r] = [row EXCEPT !.seq = seq + 1]
            /\ stored'[r] = stored[r] \cup {sending.body}
        BY <1>4, <4>1, <4>2 DEF Store, Inv, TablesTyped
      <4> QED
        BY <1>t, <3>2, <4>3, <4>4, Nothing
    <3> QED
      BY <3>1, <3>2
  <2> HIDE DEF n
  <2>3. /\ sending' \in Call /\ sending' # None /\ sending'.answer = "stored" /\ sending'.seq = n
        /\ sending'.row = r /\ sending'.body = sending.body /\ sending'.base = sending.base
        /\ sending'.revision = sending.revision
    BY <1>3, <2>1, <2>2, Nothing DEF Call, r
  <2>4. CallFits'
    <3>1. IsCurrent(sending)' = IsCurrent(sending)
      BY <1>2, <2>3 DEF IsCurrent, r
    <3>2. stray' # None => (stray'.row \in Members => stray'.body.names = {})
      BY <1>1 DEF Inv, CallFits
    <3> QED
      BY <1>2, <1>5, <2>2, <2>3, <3>1, <3>2 DEF CallFits
  <2>5. RunFits'
    BY <1>1, <1>2, <2>3 DEF Inv, RunFits, r
  <2>6. TablesTyped'
    BY <1>1, <1>2, <1>7, <2>3 DEF Inv, TablesTyped
  <2> QED
    BY <1>8, <2>4, <2>5, <2>6 DEF Inv
<1> QED
  BY <1>9, <1>10

\* The least of some natural numbers is one of them, and below the others.
LEMMA LeastOf ==
    ASSUME NEW S \in SUBSET Nat, S # {}
    PROVE  Min(S) \in S /\ \A x \in S : Min(S) <= x
<1>1. IsWellFoundedOn({ss \in Nat \X Nat : ss[1] < ss[2]}, Nat)
  BY NatLessThanWellFounded DEF OpToRel
<1>2. PICK x \in S : \A y \in S : ~(<<y, x>> \in {ss \in Nat \X Nat : ss[1] < ss[2]})
  BY <1>1, WFMin
<1>3. ASSUME NEW y \in S PROVE x <= y
  <2>1. ~(<<y, x>> \in {ss \in Nat \X Nat : ss[1] < ss[2]})
    BY <1>2
  <2>2. <<y, x>> \in Nat \X Nat => ~(y < x)
    BY <2>1, Zenon
  <2> QED
    BY <2>2
<1> QED
  BY <1>3 DEF Min

\* The rows that wait, one behind the other as they are placed.
LEMMA PendingInOrder ==
    ASSUME TablesTyped, QueueFits
    PROVE  /\ Cardinality(Waiting) \in Nat
           /\ Pending \in Seq(Waiting) /\ Len(Pending) = Cardinality(Waiting)
           /\ \A i \in 1..Cardinality(Waiting) : Pending[i] \in Waiting /\ Place(Pending[i]) = i
           /\ \A r \in Waiting : Place(r) \in 1..Cardinality(Waiting) /\ Pending[Place(r)] = r
           /\ \A r, q \in Waiting : queue[q].position < queue[r].position => Place(q) < Place(r)
<1> DEFINE n == Cardinality(Waiting)
           Upto(r) == {q \in Waiting : queue[q].position <= queue[r].position}
           f == [r \in Waiting |-> Place(r)]
<1>1. Waiting \subseteq Rows /\ IsFiniteSet(Waiting)
  BY RowsAssumption, FS_Subset DEF Waiting, Unsent
<1>2. n \in Nat
  BY <1>1, FS_CardinalityType
<1>3. \A r \in Waiting : queue[r] # None /\ queue[r].position \in Nat
  BY <1>1 DEF Waiting, Unsent, TablesTyped, Item
<1>4. ASSUME NEW r \in Waiting
      PROVE  /\ IsFiniteSet(Upto(r)) /\ Upto(r) \subseteq Waiting /\ r \in Upto(r)
             /\ Place(r) = Cardinality(Upto(r)) /\ Place(r) \in 1..n
  <2>1. Upto(r) \subseteq Waiting /\ r \in Upto(r)
    BY <1>3
  <2>2. IsFiniteSet(Upto(r)) /\ Cardinality(Upto(r)) <= n
    BY <1>1, <2>1, FS_Subset
  <2>3. Cardinality(Upto(r)) \in Nat /\ Cardinality(Upto(r)) # 0
    BY <2>1, <2>2, FS_CardinalityType, FS_EmptySet
  <2> QED
    BY <1>2, <2>1, <2>2, <2>3 DEF Place
<1>5. ASSUME NEW r \in Waiting, NEW q \in Waiting, queue[q].position < queue[r].position
      PROVE  Place(q) < Place(r)
  <2>1. Upto(q) \subseteq Upto(r) /\ r \notin Upto(q)
    BY <1>3, <1>5
  <2>2. Cardinality(Upto(q)) <= Cardinality(Upto(r)) /\ Cardinality(Upto(q)) # Cardinality(Upto(r))
    BY <1>4, <2>1, FS_Subset
  <2>3. /\ Place(q) \in 1..n /\ Place(q) = Cardinality(Upto(q))
        /\ Place(r) \in 1..n /\ Place(r) = Cardinality(Upto(r))
    BY <1>4
  <2> HIDE DEF Upto
  <2> QED
    BY <1>2, <2>2, <2>3
<1>6. ASSUME NEW r \in Waiting, NEW q \in Waiting, Place(r) = Place(q) PROVE r = q
  <2>1. ~(queue[q].position < queue[r].position) /\ ~(queue[r].position < queue[q].position)
    <3>0. Place(r) \in 1..n
      BY <1>4
    <3>1. Place(r) \in Nat
      BY <1>2, <3>0
    <3>2. ~(Place(r) < Place(q)) /\ ~(Place(q) < Place(r))
      BY <1>6, <3>1
    <3> QED
      BY <1>5, <3>2
  <2> QED
    BY <1>1, <1>3, <2>1 DEF QueueFits
<1>7. f \in Injection(Waiting, 1..n)
  <2>1. f \in [Waiting -> 1..n]
    BY <1>4
  <2> QED
    BY <1>6, <2>1 DEF Injection, IsInjective
<1>8. f \in Surjection(Waiting, 1..n)
  <2>1. IsFiniteSet(1..n) /\ Cardinality(1..n) = n
    BY <1>2, FS_Interval
  <2> QED
    BY <1>7, <2>1, FS_Injection
<1>9. \A i \in 1..n : \E r \in Waiting : Place(r) = i
  BY <1>8 DEF Surjection
<1>10. \A i \in 1..n : Pending[i] \in Waiting /\ Place(Pending[i]) = i
  BY <1>9 DEF Pending
<1>11. Pending = [i \in 1..n |-> Pending[i]]
  BY DEF Pending
<1>12. Pending \in Seq(Waiting) /\ Len(Pending) = n
  BY <1>2, <1>10, <1>11
<1>13. \A r \in Waiting : Pending[Place(r)] = r
  BY <1>4, <1>6, <1>10
<1> QED
  BY <1>2, <1>4, <1>5, <1>10, <1>12, <1>13

\* A round takes a prefix of them.
LEMMA DueIsPrefix ==
    ASSUME TablesTyped, QueueFits
    PROVE  \E n \in 0..Cardinality(Waiting) : Due = [i \in 1..n |-> AsTaken(Pending[i])]
<1> DEFINE held == {i \in DOMAIN Pending : ~queue[Pending[i]].due}
<1>1. Cardinality(Waiting) \in Nat /\ Len(Pending) = Cardinality(Waiting)
      /\ DOMAIN Pending = 1..Cardinality(Waiting)
  BY PendingInOrder
<1>2. CASE held = {}
  BY <1>1, <1>2 DEF Due
<1>3. CASE held # {}
  <2>1. Min(held) \in held
    BY <1>1, <1>3, LeastOf
  <2>2. Min(held) - 1 \in 0..Cardinality(Waiting)
    BY <1>1, <2>1
  <2>3. Due = [i \in 1..(Min(held) - 1) |-> AsTaken(Pending[i])]
    BY <1>3 DEF Due
  <2> QED
    BY <2>2, <2>3
<1> QED
  BY <1>2, <1>3

\* An item of a round is a waiting row, as the queue has it.
LEMMA DueTyped ==
    ASSUME TablesTyped, QueueFits
    PROVE  /\ Due \in Seq(Taken)
           /\ \A i \in 1..Len(Due) : /\ Due[i].row \in Waiting
                                     /\ Due[i].revision = queue[Due[i].row].revision
                                     /\ Due[i].position = queue[Due[i].row].position
<1>1. PICK n \in 0..Cardinality(Waiting) : Due = [i \in 1..n |-> AsTaken(Pending[i])]
  BY DueIsPrefix
<1>2. Pending \in Seq(Waiting) /\ Len(Pending) = Cardinality(Waiting) /\ Cardinality(Waiting) \in Nat
  BY PendingInOrder
<1>3. \A r \in Waiting : r \in Rows /\ queue[r] \in Item
  BY DEF Waiting, Unsent, TablesTyped
<1>4. \A i \in 1..n : Pending[i] \in Waiting
  BY <1>2
<1>5. \A r \in Waiting : AsTaken(r) \in Taken
  BY <1>3 DEF AsTaken, Taken, Item
<1>6. n \in Nat /\ Len(Due) = n /\ \A i \in 1..n : Due[i] = AsTaken(Pending[i])
  BY <1>1, <1>2
<1>7. Due \in Seq(Taken)
  BY <1>1, <1>4, <1>5, <1>6
<1> QED
  BY <1>4, <1>6, <1>7 DEF AsTaken

\* Nothing joins the queue, and what stays in it stays the edit it was, in its place.
Trimmed ==
    /\ queue' \in [Rows -> Item \cup {None}]
    /\ \A r \in Rows : queue'[r] # None =>
           /\ queue[r] # None
           /\ queue'[r].revision = queue[r].revision
           /\ queue'[r].position = queue[r].position

\* A trimmed queue fits if its rows stay.
LEMMA TrimKeeps ==
    ASSUME Inv, Trimmed, edits' = edits,
           \A r \in Rows : queue'[r] # None => local'[r] # None
    PROVE  QueueFits'
BY DEF Inv, QueueFits, Trimmed

\* An item taken out or marked trims the queue.
LEMMA MarkTrims ==
    ASSUME TablesTyped, NEW r \in Rows, queue[r] # None,
           \/ queue' = queue
           \/ queue' = Dequeued(r)
           \/ \E due \in BOOLEAN : queue' = [queue EXCEPT ![r].due = due]
           \/ \E reason \in Reasons : queue' = [queue EXCEPT ![r].refused = reason]
    PROVE  Trimmed
<1>1. queue \in [Rows -> Item \cup {None}] /\ queue[r] \in Item
  BY DEF TablesTyped
<1>2. CASE queue' = queue
  BY <1>1, <1>2 DEF Trimmed
<1>3. CASE queue' = Dequeued(r)
  BY <1>1, <1>3 DEF Trimmed, Dequeued
<1>4. ASSUME NEW due \in BOOLEAN, queue' = [queue EXCEPT ![r].due = due] PROVE Trimmed
  <2> DEFINE new == [queue[r] EXCEPT !.due = due]
  <2>1. new \in Item /\ new.revision = queue[r].revision /\ new.position = queue[r].position
    BY <1>1 DEF Item
  <2>2. queue' = [queue EXCEPT ![r] = new]
    BY <1>4
  <2> HIDE DEF new
  <2> QED
    BY <1>1, <2>1, <2>2 DEF Trimmed
<1>5. ASSUME NEW reason \in Reasons, queue' = [queue EXCEPT ![r].refused = reason] PROVE Trimmed
  <2> DEFINE new == [queue[r] EXCEPT !.refused = reason]
  <2>1. new \in Item /\ new.revision = queue[r].revision /\ new.position = queue[r].position
    BY <1>1 DEF Item
  <2>2. queue' = [queue EXCEPT ![r] = new]
    BY <1>5
  <2> HIDE DEF new
  <2> QED
    BY <1>1, <2>1, <2>2 DEF Trimmed
<1> QED
  BY <1>2, <1>3, <1>4, <1>5

\* A sequence without its head.
LEMMA TailOf ==
    ASSUME NEW T, NEW s \in Seq(T), s # <<>>
    PROVE  /\ Head(s) \in T /\ Head(s) = s[1] /\ Len(s) \in Nat /\ Len(s) >= 1
           /\ Tail(s) \in Seq(T) /\ Len(Tail(s)) = Len(s) - 1
           /\ \A i \in 1..Len(Tail(s)) : i + 1 \in 1..Len(s) /\ Tail(s)[i] = s[i + 1]
OBVIOUS

\* The end of a request, or of an item none was made for: the item leaves the
\* round, or the round ends.
LEMMA RequestEnds ==
    ASSUME Inv, sending # None \/ (step = "push" /\ batch # <<>>), Trimmed, sending' = None, page' = page,
           stray' \in {None, stray, sending},
           UNCHANGED <<remote, local, edits>>,
           cursor' \in Nat, cursor' <= cursor,
           parked' \in [Rows -> Content \cup {None}], \A m \in Members : parked'[m] = None,
           reads' \in BOOLEAN, faults' \in Nat, discards' \in Nat,
           \/ batch' = Tail(batch) /\ step' = step
           \/ batch' = <<>> /\ step' \in {"idle", "push", "pull"}
    PROVE  Inv'
<1>1. step = "push" /\ page = None /\ batch # <<>>
  BY DEF Inv, RunFits
<1>2. server' = server /\ seq' = seq /\ stored' = stored /\ local' = local /\ edits' = edits
  BY DEF remote
<1>3. batch \in Seq(Taken)
  BY DEF Inv, TablesTyped
<1>4. /\ batch' \in Seq(Taken)
      /\ \A i \in 1..Len(batch') : \E j \in 1..Len(batch) : batch'[i] = batch[j]
  <2>1. CASE batch' = Tail(batch)
    BY <1>1, <1>3, <2>1, TailOf
  <2>2. CASE batch' = <<>>
    BY <2>2
  <2> QED
    BY <2>1, <2>2
<1>5. TablesTyped'
  BY <1>1, <1>2, <1>4 DEF Inv, TablesTyped, Trimmed
<1>6. ServerFits'
  BY <1>2 DEF Inv, ServerFits, Known
<1>7. QueueFits'
  <2>1. \A r \in Rows : queue'[r] # None => local'[r] # None
    BY <1>2 DEF Inv, QueueFits, Trimmed
  <2> QED
    BY <1>2, <2>1, TrimKeeps
<1>8. CopyFits'
  <2>1. seq \in Nat /\ cursor \in Nat /\ cursor <= seq
    BY DEF Inv, TablesTyped, CopyFits
  <2>2. cursor' <= seq'
    BY <1>2, <2>1
  <2> QED
    BY <1>2, <2>2 DEF Inv, CopyFits
<1>9. RunFits'
  <2>1. step' # "push" => batch' = <<>>
    BY <1>1
  <2>2. \A i \in 1..Len(batch') : batch'[i].revision <= edits
    BY <1>4 DEF Inv, RunFits
  <2> QED
    BY <1>1, <1>2, <2>1, <2>2 DEF RunFits
<1>10. CallFits'
  BY DEF Inv, CallFits
<1>11. PageFits'
  BY <1>1 DEF PageFits
<1> QED
  BY <1>5, <1>6, <1>7, <1>8, <1>9, <1>10, <1>11 DEF Inv

\* A request in flight is one of a queued row's.
LEMMA SendingTyped ==
    ASSUME Inv, sending # None
    PROVE  /\ sending \in Call /\ sending.row \in Rows /\ sending.revision \in Nat
           /\ sending.body \in Content /\ sending.base \in Nat \cup {None} /\ sending.seq \in Nat
           /\ queue[sending.row] # None /\ local[sending.row] # None /\ local[sending.row] \in LocalRow
           /\ step = "push" /\ page = None
<1>1. sending \in Call
  BY DEF Inv, TablesTyped
<1>2. queue[sending.row] # None /\ step = "push" /\ page = None
  BY DEF Inv, RunFits
<1> QED
  BY <1>1, <1>2 DEF Call, Inv, QueueFits, TablesTyped

\* Complete: the acknowledged edit leaves the queue.
LEMMA CompleteKeeps == ASSUME Inv, Complete PROVE Inv'
<1>1. /\ sending # None
      /\ queue' = IF IsCurrent(sending) THEN Dequeued(sending.row) ELSE queue
      /\ NextItem /\ reads' = TRUE
      /\ UNCHANGED <<remote, local, parked, cursor, step, page, stray, bounds>>
  BY DEF Complete
<1>2. sending.row \in Rows /\ queue[sending.row] # None
  BY <1>1, SendingTyped
<1>3. Trimmed
  BY <1>1, <1>2, MarkTrims DEF Inv
<1>4. cursor \in Nat
  BY DEF Inv, TablesTyped
<1> QED
  BY <1>1, <1>3, <1>4, RequestEnds DEF NextItem, bounds, Inv, TablesTyped

\* Park: the conflict is kept to be read, and the cursor goes back.
LEMMA ParkKeeps == ASSUME Inv, Park PROVE Inv'
<1> DEFINE r == sending.row
           to == IF local[r].base = None THEN 0 ELSE local[r].base
<1>1. /\ sending # None /\ r \in Entries /\ NextItem
      /\ IF IsCurrent(sending)
         THEN /\ parked' = [parked EXCEPT ![r] = ContentOf(local[r])]
              /\ cursor' = Rewound(to)
              /\ queue' = Dequeued(r)
              /\ reads' = TRUE
         ELSE UNCHANGED <<parked, cursor, queue, reads>>
      /\ UNCHANGED <<remote, local, step, page, stray, bounds>>
  BY DEF Park
<1>2. r \in Rows /\ queue[r] # None /\ local[r] \in LocalRow
  BY <1>1, SendingTyped
<1>3. Trimmed
  BY <1>1, <1>2, MarkTrims DEF Inv
<1>4. cursor \in Nat /\ to \in Nat /\ parked \in [Rows -> Content \cup {None}]
      /\ \A m \in Members : parked[m] = None /\ m # r
  BY <1>1, <1>2, RowsAssumption DEF Inv, TablesTyped, LocalRow
<1> HIDE DEF r, to
<1>5. cursor' \in Nat /\ cursor' <= cursor
  BY <1>1, <1>4 DEF Rewound
<1>6. parked' \in [Rows -> Content \cup {None}] /\ \A m \in Members : parked'[m] = None
  <2>1. ContentOf(local[r]) \in Content
    BY <1>2, Rowly
  <2>2. \A m \in Members : m \in Rows
    BY DEF Rows
  <2> QED
    BY <1>1, <1>2, <1>4, <2>1, <2>2
<1>7. reads' \in BOOLEAN
  BY <1>1 DEF Inv, TablesTyped
<1> QED
  BY <1>1, <1>3, <1>5, <1>6, <1>7, RequestEnds DEF NextItem, bounds, Inv, TablesTyped

\* SetAside: the refused item stays, with its reason.
LEMMA SetAsideKeeps == ASSUME Inv, SetAside PROVE Inv'
<1>1. /\ sending # None /\ sending.answer \in Reasons
      /\ queue' = IF IsCurrent(sending)
                  THEN [queue EXCEPT ![sending.row].refused = sending.answer] ELSE queue
      /\ NextItem /\ reads' = TRUE
      /\ UNCHANGED <<remote, local, parked, cursor, step, page, stray, bounds>>
  BY DEF SetAside
<1>2. sending.row \in Rows /\ queue[sending.row] # None
  BY <1>1, SendingTyped
<1>3. Trimmed
  BY <1>1, <1>2, MarkTrims DEF Inv
<1>4. cursor \in Nat
  BY DEF Inv, TablesTyped
<1> QED
  BY <1>1, <1>3, <1>4, RequestEnds DEF NextItem, bounds, Inv, TablesTyped

\* Lost: the item backs off and the request is given up.
LEMMA LostKeeps == ASSUME Inv, Lost PROVE Inv'
<1>1. /\ sending # None
      /\ queue' = IF IsCurrent(sending) THEN [queue EXCEPT ![sending.row].due = FALSE] ELSE queue
      /\ stray' \in GivenUp /\ sending' = None /\ batch' = <<>> /\ step' = AfterPush
      /\ faults' = faults + 1
      /\ UNCHANGED <<remote, local, parked, cursor, reads, page, edits, discards>>
  BY DEF Lost
<1>2. sending.row \in Rows /\ queue[sending.row] # None
  BY <1>1, SendingTyped
<1>3. Trimmed
  BY <1>1, <1>2, MarkTrims DEF Inv
<1>4. cursor \in Nat /\ faults' \in Nat
  BY <1>1 DEF Inv, TablesTyped
<1>5. stray' \in {None, stray, sending} /\ step' \in {"idle", "push", "pull"}
  BY <1>1 DEF GivenUp, AfterPush
<1> QED
  BY <1>1, <1>3, <1>4, <1>5, RequestEnds DEF Inv, TablesTyped

\* StartRun: a run starts with nothing in flight.
LEMMA StartRunKeeps ==
    ASSUME Inv, NEW everything \in BOOLEAN, StartRun(everything)
    PROVE  Inv'
<1>1. /\ step = "idle" /\ step' = "push" /\ reads' = everything
      /\ UNCHANGED <<remote, device, batch, sending, page, stray, bounds>>
  BY DEF StartRun
<1>2. UNCHANGED <<seq, server, stored, local, queue, parked, cursor, edits, faults, discards>>
  BY <1>1 DEF remote, device, bounds
<1>3. TablesTyped'
  BY <1>1, <1>2 DEF Inv, TablesTyped
<1>4. ServerFits' /\ QueueFits' /\ CopyFits'
  BY <1>2 DEF Inv, ServerFits, QueueFits, CopyFits, Known
<1>5. RunFits'
  BY <1>1, <1>2 DEF Inv, RunFits
<1>6. CallFits'
  BY <1>1, <1>2 DEF Inv, CallFits, RunFits
<1>7. PageFits'
  BY <1>1, <1>2 DEF Inv, PageFits
<1> QED
  BY <1>3, <1>4, <1>5, <1>6, <1>7 DEF Inv

\* NextRound: a round's items are edits of the queue.
LEMMA NextRoundKeeps == ASSUME Inv, NextRound PROVE Inv'
<1>1. /\ step = "push" /\ batch = <<>> /\ sending = None
      /\ batch' = Due
      /\ step' = IF Due = <<>> THEN AfterPush ELSE step
      /\ UNCHANGED <<remote, device, reads, sending, page, stray, bounds>>
  BY DEF NextRound
<1>2. UNCHANGED <<seq, server, stored, local, queue, parked, cursor, edits, faults, discards>>
  BY <1>1 DEF remote, device, bounds
<1>3. /\ Due \in Seq(Taken)
      /\ \A i \in 1..Len(Due) : Due[i].row \in Waiting /\ Due[i].revision = queue[Due[i].row].revision
  BY DueTyped DEF Inv
<1>4. page = None
  BY <1>1 DEF Inv, RunFits
<1>5. step' \in {"idle", "push", "pull"} /\ (step' # "push" => batch' = <<>>)
  BY <1>1 DEF AfterPush
<1>6. TablesTyped'
  BY <1>1, <1>2, <1>3, <1>5 DEF Inv, TablesTyped
<1>7. ServerFits' /\ QueueFits' /\ CopyFits'
  BY <1>2 DEF Inv, ServerFits, QueueFits, CopyFits, Known
<1>8. RunFits'
  <2>1. \A i \in 1..Len(Due) : Due[i].revision <= edits
    BY <1>3 DEF Waiting, Unsent, Inv, QueueFits
  <2> QED
    BY <1>1, <1>2, <1>4, <1>5, <2>1 DEF RunFits
<1>9. CallFits' /\ PageFits'
  BY <1>1, <1>4 DEF Inv, CallFits, PageFits
<1> QED
  BY <1>6, <1>7, <1>8, <1>9 DEF Inv

\* SendNext: the body is the row as it stands.
LEMMA SendNextKeeps == ASSUME Inv, SendNext PROVE Inv'
<1> DEFINE item == Head(batch)
           r == item.row
<1>1. /\ step = "push" /\ batch # <<>> /\ sending = None /\ IsCurrent(item)
      /\ sending' = [row |-> r, revision |-> item.revision, body |-> ContentOf(local[r]),
                     base |-> local[r].base, answer |-> "none", seq |-> 0]
      /\ UNCHANGED <<remote, device, step, reads, batch, page, stray, bounds>>
  BY DEF SendNext
<1>2. UNCHANGED <<seq, server, stored, local, queue, parked, cursor, edits, faults, discards>>
  BY <1>1 DEF remote, device, bounds
<1>3. batch \in Seq(Taken) /\ item \in Taken /\ item = batch[1] /\ 1 \in 1..Len(batch)
  BY <1>1, TailOf DEF Inv, TablesTyped
<1>4. r \in Rows /\ item.revision \in Nat
  BY <1>3 DEF Taken
<1>5. page = None
  BY <1>1 DEF Inv, RunFits
<1>6. ServerFits' /\ QueueFits' /\ CopyFits' /\ PageFits'
  BY <1>1, <1>2, <1>5 DEF Inv, ServerFits, QueueFits, CopyFits, PageFits, Known
<1>7. queue[r] # None /\ local[r] # None /\ queue[r].revision = item.revision
  BY <1>1, <1>4 DEF IsCurrent, Inv, QueueFits
<1>8. local[r] \in LocalRow /\ (r \in Members => local[r].names = {})
  BY <1>4, <1>7 DEF Inv, TablesTyped, CopyFits
<1>9. ContentOf(local[r]) \in Content /\ ContentOf(local[r]).names = local[r].names
      /\ local[r].base \in Nat \cup {None}
  BY <1>8, Rowly DEF ContentOf, LocalRow
<1> HIDE DEF item
<1>10. /\ sending' \in Call /\ sending' # None
       /\ sending'.row = r /\ sending'.revision = item.revision /\ sending'.body = ContentOf(local[r])
       /\ sending'.base = local[r].base /\ sending'.answer = "none"
  BY <1>1, <1>4, <1>9, Nothing DEF Call
<1> HIDE DEF r
<1>11. TablesTyped'
  BY <1>1, <1>2, <1>10 DEF Inv, TablesTyped
<1>12. RunFits'
  <2>1. item.revision <= edits
    BY <1>3 DEF Inv, RunFits
  <2> QED
    BY <1>1, <1>2, <1>5, <1>7, <1>10, <2>1 DEF Inv, RunFits, item, r
<1>13. CallFits'
  <2>1. stray' # None => (stray'.row \in Members => stray'.body.names = {})
    BY <1>1 DEF Inv, CallFits
  <2> QED
    BY <1>2, <1>8, <1>9, <1>10, <2>1 DEF CallFits, Reasons
<1> QED
  BY <1>6, <1>11, <1>12, <1>13 DEF Inv

\* PassOver: the item is left out of the round, in the queue or with its row.
LEMMA PassesOver ==
    ASSUME Inv, PassOver
    PROVE  /\ Head(batch) = batch[1] /\ batch[1].row \in Rows /\ queue \in [Rows -> Item \cup {None}]
           /\ \/ queue' = queue /\ forgotten' = forgotten /\ ~IsCurrent(batch[1])
              \/ /\ queue' = Dequeued(batch[1].row) /\ forgotten' = forgotten \cup {batch[1].row}
                 /\ queue[batch[1].row] # None /\ NeverSent(batch[1].row)
           /\ Trimmed
<1>1. /\ batch # <<>>
      /\ \/ ~IsCurrent(Head(batch)) /\ queue' = queue /\ forgotten' = forgotten
         \/ /\ IsCurrent(Head(batch)) /\ NeverSent(Head(batch).row)
            /\ queue' = Dequeued(Head(batch).row) /\ forgotten' = forgotten \cup {Head(batch).row}
  BY DEF PassOver
<1>2. Head(batch) = batch[1] /\ batch[1] \in Taken
  BY <1>1, TailOf DEF Inv, TablesTyped
<1>3. batch[1].row \in Rows /\ queue \in [Rows -> Item \cup {None}]
  BY <1>2 DEF Taken, Inv, TablesTyped
<1>4. Trimmed
  <2>1. CASE queue' = queue
    BY <1>3, <2>1 DEF Trimmed
  <2>2. CASE queue' # queue
    BY <1>1, <1>2, <1>3, <2>2, MarkTrims DEF IsCurrent, Inv
  <2> QED
    BY <2>1, <2>2
<1> QED
  BY <1>1, <1>2, <1>3, <1>4 DEF IsCurrent

LEMMA PassOverKeeps == ASSUME Inv, PassOver PROVE Inv'
<1>1. /\ step = "push" /\ batch # <<>> /\ sending = None /\ batch' = Tail(batch)
      /\ UNCHANGED <<remote, local, parked, cursor, step, reads, sending, page, stray, bounds>>
  BY DEF PassOver
<1>2. Trimmed
  BY PassesOver
<1>3. cursor \in Nat
  BY DEF Inv, TablesTyped
<1> QED
  BY <1>1, <1>2, <1>3, RequestEnds DEF bounds, Inv, TablesTyped

\* Acknowledge: the server's number becomes the row's version.
LEMMA AcknowledgeKeeps == ASSUME Inv, Acknowledge PROVE Inv'
<1> DEFINE r == sending.row
           new == [local[r] EXCEPT !.base = sending.seq]
<1>1. /\ sending # None /\ sending.answer = "stored"
      /\ local' = [local EXCEPT ![r] = new]
      /\ sending' = [sending EXCEPT !.answer = "recorded"]
      /\ UNCHANGED <<remote, queue, parked, cursor, step, reads, batch, page, stray, bounds>>
  BY DEF Acknowledge
<1>2. UNCHANGED <<seq, server, stored, edits, faults, discards>>
  BY <1>1 DEF remote, bounds
<1>3. /\ sending \in Call /\ r \in Rows /\ sending.seq \in Nat
      /\ queue[r] # None /\ local[r] # None /\ local[r] \in LocalRow /\ page = None /\ step = "push"
  BY <1>1, SendingTyped
<1>4. /\ new \in LocalRow /\ new # None /\ new.names = local[r].names /\ new.base = sending.seq
      /\ ContentOf(new) = ContentOf(local[r])
  BY <1>3, Nothing DEF LocalRow, ContentOf
<1>5. /\ sending' \in Call /\ sending' # None /\ sending'.answer = "recorded"
      /\ sending'.row = r /\ sending'.body = sending.body /\ sending'.seq = sending.seq
      /\ sending'.revision = sending.revision
  BY <1>1, <1>3, Nothing DEF Call
<1>6. /\ r \in Members => sending.body.names = {}
      /\ IsCurrent(sending) => ContentOf(local[r]) = sending.body
      /\ sending.body \in stored[r]
      /\ server[r] # None /\ 1 <= sending.seq /\ sending.seq <= server[r].seq
      /\ server[r].seq <= cursor => /\ server[r].seq = sending.seq
                                    /\ ContentOf(server[r]) = sending.body
      /\ stray # None => (stray.row \in Members => stray.body.names = {})
  BY <1>1 DEF Inv, CallFits
<1> HIDE DEF new, r
<1>7. local \in [Rows -> LocalRow \cup {None}]
  BY DEF Inv, TablesTyped
<1>8. local' \in [Rows -> LocalRow \cup {None}] /\ local'[r] = new
      /\ \A q \in Rows : q # r => local'[q] = local[q]
  BY <1>1, <1>3, <1>4, <1>7
<1>9. TablesTyped'
  BY <1>1, <1>2, <1>5, <1>8 DEF Inv, TablesTyped
<1>10. ServerFits'
  BY <1>2 DEF Inv, ServerFits, Known
<1>11. QueueFits'
  BY <1>1, <1>2, <1>4, <1>8 DEF Inv, QueueFits
<1>12. CopyFits'
  <2> SUFFICES ASSUME NEW q \in Rows, local'[q] # None
               PROVE  /\ q \in Members => local'[q].names = {}
                      /\ local'[q].base # None => /\ server[q] # None
                                                  /\ 1 <= local'[q].base /\ local'[q].base <= server[q].seq
    BY <1>1, <1>2 DEF Inv, CopyFits
  <2>1. CASE q = r
    BY <1>3, <1>4, <1>6, <1>8, <2>1 DEF Inv, CopyFits
  <2>2. CASE q # r
    BY <1>8, <2>2 DEF Inv, CopyFits
  <2> QED
    BY <2>1, <2>2
<1>13. RunFits'
  BY <1>1, <1>2, <1>3, <1>5 DEF Inv, RunFits, r
<1>14. CallFits'
  <2>1. IsCurrent(sending)' = IsCurrent(sending)
    BY <1>1, <1>5 DEF IsCurrent, r
  <2> QED
    BY <1>1, <1>2, <1>4, <1>5, <1>6, <1>8, <2>1 DEF CallFits
<1>15. PageFits'
  BY <1>1, <1>3 DEF PageFits
<1> QED
  BY <1>9, <1>10, <1>11, <1>12, <1>13, <1>14, <1>15 DEF Inv

\* Marking rows of the queue disturbs nothing else.
LEMMA MarksKeep ==
    ASSUME Inv, Trimmed, \A r \in Rows : queue[r] # None => queue'[r] # None,
           UNCHANGED <<remote, local, parked, cursor, run, stray, edits>>,
           faults' \in Nat, discards' \in Nat
    PROVE  Inv'
<1>1. UNCHANGED <<seq, server, stored, step, reads, batch, sending, page>>
  BY DEF remote, run
<1>2. TablesTyped'
  BY <1>1 DEF Inv, TablesTyped, Trimmed
<1>3. ServerFits' /\ CopyFits'
  BY <1>1 DEF Inv, ServerFits, CopyFits, Known
<1>4. QueueFits'
  BY TrimKeeps DEF Inv, QueueFits, Trimmed
<1>5. sending # None => sending.row \in Rows /\ queue[sending.row] # None
  BY SendingTyped
<1>6. RunFits'
  BY <1>1, <1>5 DEF Inv, RunFits
<1>7. CallFits'
  <2>1. sending # None => IsCurrent(sending)' = IsCurrent(sending)
    BY <1>1, <1>5 DEF IsCurrent, Trimmed
  <2> QED
    BY <1>1, <2>1 DEF Inv, CallFits
<1>8. PageFits'
  BY <1>1 DEF Inv, PageFits
<1> QED
  BY <1>2, <1>3, <1>4, <1>6, <1>7, <1>8 DEF Inv

\* BackOffEnds: an item is due again.
LEMMA BackOffEndsKeeps == ASSUME Inv, NEW r \in Rows, BackOffEnds(r) PROVE Inv'
<1>1. /\ queue[r] # None /\ queue' = [queue EXCEPT ![r].due = TRUE]
      /\ UNCHANGED <<remote, local, parked, cursor, run, stray, bounds>>
  BY DEF BackOffEnds
<1>2. Trimmed
  BY <1>1, MarkTrims DEF Inv
<1>3. \A q \in Rows : queue[q] # None => queue'[q] # None
  <2>1. queue \in [Rows -> Item \cup {None}]
    BY DEF Inv, TablesTyped
  <2>2. [queue[r] EXCEPT !.due = TRUE] \in Item
    BY <1>1, <2>1 DEF Item
  <2> QED
    BY <1>1, <2>1, <2>2, Nothing
<1> QED
  BY <1>1, <1>2, <1>3, MarksKeep DEF bounds, Inv, TablesTyped

\* RetryRefused: refused items wait again.
LEMMA RetryRefusedKeeps == ASSUME Inv, RetryRefused PROVE Inv'
<1> DEFINE again == {r \in Refused : queue[r].refused # "stale"}
           ready(r) == [queue[r] EXCEPT !.refused = None, !.due = TRUE]
<1>1. /\ queue' = [r \in Rows |-> IF r \in again THEN ready(r) ELSE queue[r]]
      /\ discards' = discards + 1
      /\ UNCHANGED <<remote, local, parked, cursor, run, stray, edits, faults>>
  BY DEF RetryRefused
<1>2. ASSUME NEW r \in Rows, queue[r] # None
      PROVE  /\ ready(r) \in Item /\ ready(r) # None
             /\ ready(r).revision = queue[r].revision /\ ready(r).position = queue[r].position
  <2>1. queue[r] \in Item
    BY <1>2 DEF Inv, TablesTyped
  <2> QED
    BY <2>1, Nothing DEF Item
<1>3. \A r \in again : r \in Rows /\ queue[r] # None
  BY DEF Refused, Unsent
<1>4. \A r \in Rows : queue[r] \in Item \cup {None}
  BY DEF Inv, TablesTyped
<1> HIDE DEF again, ready
<1>5. Trimmed /\ \A r \in Rows : queue[r] # None => queue'[r] # None
  BY <1>1, <1>2, <1>3, <1>4 DEF Trimmed
<1>6. discards' \in Nat /\ faults' \in Nat
  BY <1>1 DEF Inv, TablesTyped
<1> QED
  BY <1>1, <1>5, <1>6, MarksKeep

\* A run that stops leaves the tables as they are.
LEMMA StopKeeps ==
    ASSUME Inv, step' = "idle", sending' = None, page' = None, batch' = <<>>,
           stray' \in {None, stray, sending}, reads' \in BOOLEAN, faults' \in Nat,
           UNCHANGED <<remote, device, edits, discards>>
    PROVE  Inv'
<1>1. UNCHANGED <<seq, server, stored, local, queue, parked, cursor>>
  BY DEF remote, device
<1>2. TablesTyped'
  BY <1>1 DEF Inv, TablesTyped
<1>3. ServerFits' /\ QueueFits' /\ CopyFits' /\ RunFits' /\ PageFits'
  BY <1>1 DEF Inv, ServerFits, QueueFits, CopyFits, RunFits, PageFits, Known
<1>4. CallFits'
  BY DEF Inv, CallFits
<1> QED
  BY <1>2, <1>3, <1>4 DEF Inv

\* Crash: the run is gone, the tables stay.
LEMMA CrashKeeps == ASSUME Inv, Crash PROVE Inv'
<1>1. /\ stray' \in GivenUp
      /\ step' = "idle" /\ reads' = FALSE /\ batch' = <<>> /\ sending' = None /\ page' = None
      /\ faults' = faults + 1
      /\ UNCHANGED <<remote, device, edits, discards>>
  BY DEF Crash
<1>2. stray' \in {None, stray, sending} /\ faults' \in Nat
  BY <1>1 DEF GivenUp, Inv, TablesTyped
<1> QED
  BY <1>1, <1>2, StopKeeps

\* PageLost: the run ends without its page.
LEMMA PageLostKeeps == ASSUME Inv, PageLost PROVE Inv'
<1>1. /\ page # None /\ page' = None /\ step' = "idle" /\ faults' = faults + 1
      /\ UNCHANGED <<remote, device, reads, batch, sending, stray, edits, discards>>
  BY DEF PageLost
<1>2. sending' = None /\ batch' = <<>> /\ faults' \in Nat /\ reads' \in BOOLEAN
  BY <1>1 DEF Inv, TablesTyped, RunFits
<1> QED
  BY <1>1, <1>2, StopKeeps

\* A page ends where the server has a change, or where it began.
LEMMA UpToFits ==
    ASSUME TablesTyped, ServerFits, CopyFits
    PROVE  UpTo(cursor) \in Nat /\ cursor <= UpTo(cursor) /\ UpTo(cursor) <= seq
<1> DEFINE M == Moved(cursor)
           full == {n \in M : Cardinality({k \in M : k <= n}) >= PageSize}
<1>1. seq \in Nat /\ cursor \in Nat /\ cursor <= seq
  BY DEF TablesTyped, CopyFits
<1>2. \A n \in M : n \in Nat /\ cursor < n /\ n <= seq
  <2>1. \A r \in Rows : server[r] # None => server[r].seq \in Nat
    BY DEF TablesTyped, ServerRow
  <2> QED
    BY <2>1 DEF Moved, ServerFits
<1>3. CASE full # {}
  <2>1. Min(full) \in full
    BY <1>2, <1>3, LeastOf
  <2> HIDE DEF M
  <2>2. UpTo(cursor) = Min(full)
    BY <1>3 DEF UpTo, M
  <2> QED
    BY <1>1, <1>2, <2>1, <2>2
<1>4. CASE full = {}
  <2> DEFINE T == M \cup {cursor}
             top == {n \in Nat : \A k \in T : k <= n}
  <2> HIDE DEF M
  <2>1. T \subseteq 0..seq /\ T # {} /\ T \subseteq Nat
    BY <1>1, <1>2
  <2>2. seq \in top
    BY <1>1, <2>1
  <2>3. Min(top) \in top /\ \A x \in top : Min(top) <= x
    BY <2>2, LeastOf
  <2> DEFINE t == Min(top)
  <2>4. t \in Nat /\ \A k \in T : k <= t
    BY <2>3
  <2> HIDE DEF t
  <2>5. t \in T
    <3> SUFFICES ASSUME t \notin T PROVE FALSE
      OBVIOUS
    <3>1. \A k \in T : k <= t - 1 /\ k \in Nat
      BY <2>1, <2>4
    <3>2. t - 1 \in Nat
      BY <1>1, <2>4, <3>1
    <3>3. t - 1 \in top
      BY <3>1, <3>2
    <3> QED
      BY <2>3, <2>4, <3>3 DEF t
  <2>6. Max(T) \in T
    BY <2>1, <2>4, <2>5 DEF Max
  <2>7. UpTo(cursor) = Max(T)
    BY <1>4 DEF UpTo, M
  <2> QED
    BY <1>1, <1>2, <2>6, <2>7
<1> QED
  BY <1>3, <1>4

\* AskPage: the page is the server's, past the cursor.
LEMMA AskPageKeeps == ASSUME Inv, AskPage PROVE Inv'
<1>1. /\ step = "pull" /\ page = None /\ page' = ChangesSince(cursor)
      /\ UNCHANGED <<remote, device, step, reads, batch, sending, stray, bounds>>
  BY DEF AskPage
<1>2. UNCHANGED <<seq, server, stored, local, queue, parked, cursor, edits, faults, discards>>
  BY <1>1 DEF remote, device, bounds
<1>3. sending = None /\ batch = <<>>
  BY <1>1 DEF Inv, RunFits
<1>4. UpTo(cursor) \in Nat /\ cursor <= UpTo(cursor) /\ UpTo(cursor) <= seq
  BY UpToFits DEF Inv
<1>5. /\ page'.since = cursor /\ page'.seq = UpTo(cursor)
      /\ \A r \in Rows : page'.rows[r] = IF OnPage(r, cursor) THEN server[r] ELSE None
      /\ page' \in Page
  <2>1. \A r \in Rows : (IF OnPage(r, cursor) THEN server[r] ELSE None) \in ServerRow \cup {None}
    BY DEF Inv, TablesTyped
  <2>2. [r \in Rows |-> IF OnPage(r, cursor) THEN server[r] ELSE None] \in [Rows -> ServerRow \cup {None}]
    BY <2>1
  <2>3. (Cardinality(Moved(cursor)) > PageSize) \in BOOLEAN
    OBVIOUS
  <2>4. cursor \in Nat
    BY DEF Inv, TablesTyped
  <2> QED
    BY <1>1, <1>4, <2>2, <2>3, <2>4 DEF ChangesSince, Page
<1>6. TablesTyped'
  BY <1>1, <1>2, <1>5 DEF Inv, TablesTyped
<1>7. ServerFits' /\ QueueFits' /\ CopyFits'
  BY <1>2 DEF Inv, ServerFits, QueueFits, CopyFits, Known
<1>8. RunFits' /\ CallFits'
  BY <1>1, <1>2, <1>3 DEF Inv, RunFits, CallFits
<1>9. PageFits'
  <2>1. \A r \in Rows : server[r] # None => server[r].seq \in Nat
    BY DEF Inv, TablesTyped, ServerRow
  <2>2. cursor \in Nat
    BY DEF Inv, TablesTyped
  <2>3. ASSUME NEW r \in Rows, page'.rows[r] # None
        PROVE  /\ r \in Members => page'.rows[r].names = {}
               /\ server[r] # None
               /\ cursor < page'.rows[r].seq /\ page'.rows[r].seq <= server[r].seq
    <3>1. OnPage(r, cursor) /\ page'.rows[r] = server[r]
      BY <1>5, <2>3
    <3>2. server[r] # None /\ server[r].seq > cursor
      BY <3>1 DEF OnPage
    <3>3. r \in Members => server[r].names = {}
      BY <3>2 DEF Inv, ServerFits
    <3> QED
      BY <2>1, <2>2, <3>1, <3>2, <3>3
  <2>4. ASSUME NEW r \in Rows, server[r] # None, cursor < server[r].seq, server[r].seq <= page'.seq
        PROVE  page'.rows[r] = server[r]
    BY <1>5, <2>1, <2>2, <2>4 DEF OnPage
  <2> QED
    BY <1>2, <1>4, <1>5, <2>3, <2>4 DEF PageFits
<1> QED
  BY <1>6, <1>7, <1>8, <1>9 DEF Inv

\* The server's row is a local one with the server's version.
LEMMA FromServerFits ==
    ASSUME NEW row \in ServerRow
    PROVE  /\ FromServer(row) \in LocalRow /\ FromServer(row).base = row.seq
           /\ FromServer(row).names = row.names /\ ContentOf(FromServer(row)) = ContentOf(row)
BY DEF FromServer, LocalRow, ServerRow, ContentOf

\* Every row is left as it is or becomes the page's.
LEMMA MergedFits ==
    ASSUME Inv, page # None, NEW r \in Rows
    PROVE  \/ Merged(page, Unsent)[r] = local[r]
           \/ /\ queue[r] = None /\ page.rows[r] # None /\ page.rows[r] \in ServerRow
              /\ Merged(page, Unsent)[r] = FromServer(page.rows[r])
              /\ Merged(page, Unsent)[r] \in LocalRow
              /\ Merged(page, Unsent)[r] # None
<1>1. page \in Page
  BY DEF Inv, TablesTyped
<1>2. page.rows[r] # None => page.rows[r] \in ServerRow
  BY <1>1 DEF Page
<1>3. CASE Merged(page, Unsent)[r] = local[r]
  BY <1>3
<1>4. CASE Merged(page, Unsent)[r] # local[r]
  <2>1. /\ Merged(page, Unsent)[r] = FromServer(page.rows[r])
        /\ r \in Brought(page) /\ r \notin Unsent
    BY <1>4 DEF Merged, Accepted
  <2> QED
    BY <1>2, <2>1, FromServerFits, Nothing DEF Brought, Unsent
<1> QED
  BY <1>3, <1>4

\* Apply: the page is written and the cursor follows it.
LEMMA ApplyKeeps == ASSUME Inv, Apply PROVE Inv'
<1>1. /\ page # None /\ local' = Merged(page, Unsent) /\ cursor' = page.seq /\ page' = None
      /\ step' = IF page.hasMore /\ page.seq > page.since THEN "pull" ELSE "idle"
      /\ UNCHANGED <<remote, queue, parked, reads, batch, sending, stray, bounds>>
  BY DEF Apply
<1>2. UNCHANGED <<seq, server, stored, edits, faults, discards>>
  BY <1>1 DEF remote, bounds
<1>3. sending = None /\ batch = <<>> /\ step = "pull"
  BY <1>1 DEF Inv, RunFits
<1>4. page \in Page /\ page.seq \in Nat
  BY <1>1 DEF Inv, TablesTyped, Page
<1>5. /\ cursor <= page.seq /\ page.seq <= seq /\ cursor \in Nat /\ seq \in Nat
      /\ \A r \in Rows : page.rows[r] # None =>
             /\ r \in Members => page.rows[r].names = {}
             /\ server[r] # None
             /\ cursor < page.rows[r].seq /\ page.rows[r].seq <= server[r].seq
  BY <1>1 DEF Inv, PageFits, TablesTyped
<1>6. local' \in [Rows -> LocalRow \cup {None}]
  <2>1. \A r \in Rows : Merged(page, Unsent)[r] \in LocalRow \cup {None}
    BY <1>1, MergedFits DEF Inv, TablesTyped
  <2>2. Merged(page, Unsent) = [r \in Rows |-> Merged(page, Unsent)[r]]
    BY DEF Merged
  <2> HIDE DEF Merged
  <2> QED
    BY <1>1, <2>1, <2>2
<1>7. TablesTyped'
  BY <1>1, <1>2, <1>3, <1>4, <1>6 DEF Inv, TablesTyped
<1>8. ServerFits'
  BY <1>2 DEF Inv, ServerFits, Known
<1>9. QueueFits'
  <2>1. \A r \in Rows : queue[r] # None => local'[r] = local[r]
    BY <1>1, MergedFits
  <2> QED
    BY <1>1, <1>2, <2>1 DEF Inv, QueueFits
<1>10. CopyFits'
  <2> SUFFICES ASSUME NEW r \in Rows, local'[r] # None
               PROVE  /\ r \in Members => local'[r].names = {}
                      /\ local'[r].base # None => /\ server[r] # None
                                                  /\ 1 <= local'[r].base /\ local'[r].base <= server[r].seq
    BY <1>1, <1>2, <1>5 DEF CopyFits
  <2>1. CASE local'[r] = local[r]
    BY <2>1 DEF Inv, CopyFits
  <2>2. CASE local'[r] # local[r]
    <3>1. /\ page.rows[r] # None /\ page.rows[r] \in ServerRow
          /\ local'[r] = FromServer(page.rows[r])
      BY <1>1, <2>2, MergedFits
    <3>2. local'[r].names = page.rows[r].names /\ local'[r].base = page.rows[r].seq
          /\ page.rows[r].seq \in Nat
      BY <3>1, FromServerFits DEF ServerRow
    <3> QED
      BY <1>5, <3>1, <3>2
  <2> QED
    BY <2>1, <2>2
<1>11. RunFits' /\ CallFits' /\ PageFits'
  BY <1>1, <1>2, <1>3 DEF Inv, RunFits, CallFits, PageFits
<1> QED
  BY <1>7, <1>8, <1>9, <1>10, <1>11 DEF Inv

-----------------------------------------------------------------------------
(* What people do on this device. *)

\* What an edit leaves of a row and of its place in the queue.
LEMMA EditWrites ==
    ASSUME Inv, NEW r \in Rows, NEW content \in Writes(r, local[r]), Edit(r, content)
    PROVE  /\ edits' = edits + 1
           /\ UNCHANGED <<remote, cursor, run, stray, faults, discards>>
           /\ local' \in [Rows -> LocalRow \cup {None}] /\ queue' \in [Rows -> Item \cup {None}]
           /\ parked' \in [Rows -> Content \cup {None}] /\ \A m \in Members : parked'[m] = None
           /\ \A q \in Rows : q # r => local'[q] = local[q] /\ queue'[q] = queue[q]
           /\ local'[r] # None /\ local'[r].names = content.names
           /\ content.names \subseteq LocalMembers(local) /\ (r \in Members => content.names = {})
           /\ local'[r].base = IF local[r] = None THEN None ELSE local[r].base
           /\ queue'[r] = Queued(r) /\ queue'[r] # None /\ Queued(r) \in Item
           /\ Queued(r).revision = edits + 1 /\ Queued(r).refused = None
           /\ Queued(r).position = IF queue[r] = None \/ local[r].base # None
                                   THEN edits + 1 ELSE queue[r].position
<1> DEFINE row == IF local[r] = None
                  THEN [text |-> content.text, names |-> content.names, held |-> FALSE, base |-> None]
                  ELSE [local[r] EXCEPT !.text = content.text, !.names = content.names]
<1>1. /\ content.names \subseteq LocalMembers(local)
      /\ local' = [local EXCEPT ![r] = row]
      /\ queue' = [queue EXCEPT ![r] = Queued(r)]
      /\ parked' = [parked EXCEPT ![r] = None]
      /\ edits' = edits + 1
      /\ UNCHANGED <<remote, cursor, run, stray, faults, discards>>
  BY DEF Edit
<1>2. content \in Content /\ (r \in Members => content.names = {})
  BY WritesFit
<1>3. content.text \in Texts /\ content.names \in SUBSET Members
  BY <1>2 DEF Content
<1>4. /\ local \in [Rows -> LocalRow \cup {None}] /\ queue \in [Rows -> Item \cup {None}]
      /\ parked \in [Rows -> Content \cup {None}] /\ \A m \in Members : parked[m] = None
      /\ edits \in Nat
  BY DEF Inv, TablesTyped
<1>5. /\ row \in LocalRow /\ row.names = content.names
      /\ row.base = IF local[r] = None THEN None ELSE local[r].base
  <2>1. CASE local[r] = None
    BY <1>3, <2>1 DEF LocalRow
  <2>2. CASE local[r] # None
    <3>1. local[r] \in LocalRow
      BY <1>4, <2>2
    <3> QED
      BY <1>3, <2>2, <3>1 DEF LocalRow
  <2> QED
    BY <2>1, <2>2
<1> HIDE DEF row
<1>6. /\ Queued(r) \in Item /\ Queued(r).revision = edits + 1 /\ Queued(r).refused = None
      /\ Queued(r).position = IF queue[r] = None \/ local[r].base # None
                              THEN edits + 1 ELSE queue[r].position
  <2>1. queue[r] # None => queue[r].position \in Nat
    BY <1>4 DEF Item
  <2>2. (IF queue[r] = None \/ local[r].base # None THEN edits + 1 ELSE queue[r].position) \in Nat
    BY <1>4, <2>1
  <2> QED
    BY <1>4, <2>2 DEF Queued, Item
<1>7. \A m \in Members : m \in Rows
  BY DEF Rows
<1>8. parked' \in [Rows -> Content \cup {None}] /\ \A m \in Members : parked'[m] = None
  BY <1>1, <1>4, <1>7
<1>9. local' \in [Rows -> LocalRow \cup {None}] /\ local'[r] = row
      /\ \A q \in Rows : q # r => local'[q] = local[q]
  BY <1>1, <1>4, <1>5
<1>10. queue' \in [Rows -> Item \cup {None}] /\ queue'[r] = Queued(r)
       /\ \A q \in Rows : q # r => queue'[q] = queue[q]
  BY <1>1, <1>4, <1>6
<1> QED
  BY <1>1, <1>2, <1>5, <1>6, <1>8, <1>9, <1>10, Nothing

\* Edit: the row, its place in the queue and its conflict.
LEMMA EditKeeps ==
    ASSUME Inv, NEW r \in Rows, NEW content \in Writes(r, local[r]), Edit(r, content)
    PROVE  Inv'
<1>1. /\ edits' = edits + 1
      /\ UNCHANGED <<remote, cursor, run, stray, faults, discards>>
      /\ local' \in [Rows -> LocalRow \cup {None}] /\ queue' \in [Rows -> Item \cup {None}]
      /\ parked' \in [Rows -> Content \cup {None}] /\ \A m \in Members : parked'[m] = None
      /\ \A q \in Rows : q # r => local'[q] = local[q] /\ queue'[q] = queue[q]
      /\ local'[r] # None /\ local'[r].names = content.names
      /\ (r \in Members => content.names = {})
      /\ local'[r].base = IF local[r] = None THEN None ELSE local[r].base
      /\ queue'[r] # None /\ queue'[r].revision = edits + 1
      /\ queue'[r].position = IF queue[r] = None \/ local[r].base # None
                              THEN edits + 1 ELSE queue[r].position
  BY EditWrites
<1>2. UNCHANGED <<seq, server, stored, step, reads, batch, sending, page>>
  BY <1>1 DEF remote, run
<1>t. edits \in Nat /\ \A q \in Rows : queue[q] # None => /\ queue[q].position \in Nat
                                                          /\ queue[q].revision \in Nat
  BY DEF Inv, TablesTyped, Item
<1>3. TablesTyped'
  BY <1>1, <1>2, <1>t DEF Inv, TablesTyped
<1>4. ServerFits'
  BY <1>2 DEF Inv, ServerFits, Known
<1>5. QueueFits'
  <2>1. \A q \in Rows : queue[q] # None => /\ local[q] # None
                                           /\ queue[q].position <= queue[q].revision
                                           /\ queue[q].revision <= edits
    BY DEF Inv, QueueFits
  <2>2. ASSUME NEW q \in Rows, queue'[q] # None
        PROVE  /\ local'[q] # None
               /\ queue'[q].position <= queue'[q].revision /\ queue'[q].revision <= edits'
    <3>1. CASE q = r
      BY <1>1, <1>t, <2>1, <3>1
    <3>2. CASE q # r
      BY <1>1, <1>t, <2>1, <2>2, <3>2
    <3> QED
      BY <3>1, <3>2
  <2>3. ASSUME NEW q \in Rows, q # r, queue[q] # None PROVE queue'[r].position # queue[q].position
    <3>1. CASE queue[r] = None \/ local[r].base # None
      BY <1>1, <1>t, <2>1, <2>3, <3>1
    <3>2. CASE ~(queue[r] = None \/ local[r].base # None)
      BY <1>1, <2>3, <3>2 DEF Inv, QueueFits
    <3> QED
      BY <3>1, <3>2
  <2>4. ASSUME NEW p \in Rows, NEW q \in Rows, queue'[p] # None, queue'[q] # None,
               queue'[p].position = queue'[q].position
        PROVE  p = q
    BY <1>1, <2>3, <2>4 DEF Inv, QueueFits
  <2> QED
    BY <2>2, <2>4 DEF QueueFits
<1>6. CopyFits'
  <2>1. \A q \in Rows : local[q] # None =>
           /\ q \in Members => local[q].names = {}
           /\ local[q].base # None => /\ server[q] # None
                                      /\ 1 <= local[q].base /\ local[q].base <= server[q].seq
    BY DEF Inv, CopyFits
  <2>2. ASSUME NEW q \in Rows, local'[q] # None
        PROVE  /\ q \in Members => local'[q].names = {}
               /\ local'[q].base # None => /\ server[q] # None
                                           /\ 1 <= local'[q].base /\ local'[q].base <= server[q].seq
    BY <1>1, <2>1, <2>2
  <2>3. cursor' <= seq'
    BY <1>1, <1>2 DEF Inv, CopyFits
  <2> QED
    BY <1>2, <2>2, <2>3 DEF CopyFits
<1>7. sending # None => /\ sending.row \in Rows /\ queue[sending.row] # None /\ local[sending.row] # None
                        /\ sending.revision \in Nat /\ sending.revision <= edits
  BY SendingTyped DEF Inv, RunFits
<1>8. RunFits'
  <2>1. \A i \in 1..Len(batch) : batch[i].revision \in Nat /\ batch[i].revision <= edits
    <3>1. batch \in Seq(Taken)
      BY DEF Inv, TablesTyped
    <3>2. \A i \in 1..Len(batch) : batch[i] \in Taken
      BY <3>1
    <3> QED
      BY <3>2 DEF Inv, RunFits, Taken
  <2>2. \A i \in 1..Len(batch) : batch[i].revision <= edits + 1
    BY <1>t, <2>1
  <2>3. sending # None => queue'[sending.row] # None /\ sending.revision <= edits + 1
    BY <1>1, <1>7, <1>t
  <2> QED
    BY <1>1, <1>2, <2>2, <2>3 DEF Inv, RunFits
<1>9. CallFits'
  <2>1. sending # None => (IsCurrent(sending)' => sending.row # r /\ IsCurrent(sending))
    BY <1>1, <1>2, <1>7, <1>t DEF IsCurrent
  <2>2. sending # None => local'[sending.row].base = local[sending.row].base
    BY <1>1, <1>7
  <2> QED
    BY <1>1, <1>2, <1>7, <2>1, <2>2 DEF Inv, CallFits
<1>10. PageFits'
  BY <1>1, <1>2 DEF Inv, PageFits
<1> QED
  BY <1>3, <1>4, <1>5, <1>6, <1>8, <1>9, <1>10 DEF Inv

\* What discarding refused writes leaves: rows are deleted only with their
\* place in the queue, and the group is read again from no later than before.
LEMMA DiscardDrops ==
    ASSUME Inv, DiscardRefused
    PROVE  /\ step = "idle" /\ Trimmed
           /\ \A r \in Rows : queue'[r] # queue[r] => queue[r].refused # None
           /\ local' \in [Rows -> LocalRow \cup {None}]
           /\ \A r \in Rows : local'[r] = local[r] \/ (local'[r] = None /\ queue[r] # None
                                                       /\ queue[r].refused # None /\ queue'[r] = None)
           /\ cursor' \in Nat /\ cursor' <= cursor /\ discards' = discards + 1
           /\ UNCHANGED <<remote, parked, run, stray, edits, faults>>
<1> DEFINE unknown  == {r \in Refused : local[r].base = None}
           expenses == unknown \cap Entries
           left     == {e \in Entries \ expenses : local[e] # None}
           named    == UNION {local[e].names : e \in left}
           deleted  == expenses \cup ((unknown \cap Members) \ named)
           befores  == {local[r].base - 1 : r \in Refused \ unknown}
<1>1. /\ step = "idle"
      /\ local' = [r \in Rows |-> IF r \in deleted THEN None ELSE local[r]]
      /\ queue' = [r \in Rows |-> IF r \in Refused THEN None ELSE queue[r]]
      /\ cursor' = Min({cursor} \cup befores)
      /\ discards' = discards + 1
      /\ UNCHANGED <<remote, parked, run, stray, edits, faults>>
  BY DEF DiscardRefused
<1>2. deleted \subseteq Refused
  OBVIOUS
<1>3. \A r \in Refused : r \in Rows /\ queue[r] # None /\ queue[r].refused # None
  BY DEF Refused, Unsent
<1>4. \A n \in befores : n \in Nat
  <2> SUFFICES ASSUME NEW r \in Refused, local[r].base # None PROVE local[r].base - 1 \in Nat
    OBVIOUS
  <2>1. r \in Rows /\ local[r] # None
    BY <1>3 DEF Inv, QueueFits
  <2>2. local[r].base \in Nat /\ 1 <= local[r].base
    BY <2>1 DEF Inv, CopyFits, TablesTyped, LocalRow
  <2> QED
    BY <2>2
<1> HIDE DEF deleted, befores
<1>5. cursor \in Nat /\ local \in [Rows -> LocalRow \cup {None}] /\ queue \in [Rows -> Item \cup {None}]
  BY DEF Inv, TablesTyped
<1>6. cursor' \in Nat /\ cursor' <= cursor
  <2> DEFINE S == {cursor} \cup befores
  <2>1. S \in SUBSET Nat /\ S # {} /\ cursor \in S
    BY <1>4, <1>5
  <2> HIDE DEF S
  <2>2. Min(S) \in S /\ Min(S) <= cursor
    BY <2>1, LeastOf
  <2>3. cursor' = Min(S)
    BY <1>1 DEF S
  <2> QED
    BY <2>1, <2>2, <2>3
<1>7. local' \in [Rows -> LocalRow \cup {None}]
      /\ \A r \in Rows : local'[r] = local[r] \/ (local'[r] = None /\ r \in Refused)
  BY <1>1, <1>2, <1>5
<1>8. queue' \in [Rows -> Item \cup {None}]
      /\ \A r \in Rows : /\ r \in Refused => queue'[r] = None
                         /\ r \notin Refused => queue'[r] = queue[r]
  BY <1>1, <1>5
<1>9. Trimmed
  BY <1>8 DEF Trimmed
<1> QED
  BY <1>1, <1>3, <1>6, <1>7, <1>8, <1>9

\* DiscardRefused: refused items go, with the rows nobody else has.
LEMMA DiscardRefusedKeeps == ASSUME Inv, DiscardRefused PROVE Inv'
<1>1. /\ step = "idle" /\ Trimmed
      /\ local' \in [Rows -> LocalRow \cup {None}]
      /\ \A r \in Rows : local'[r] = local[r] \/ (local'[r] = None /\ queue'[r] = None)
      /\ cursor' \in Nat /\ cursor' <= cursor /\ discards' = discards + 1
      /\ UNCHANGED <<remote, parked, run, stray, edits, faults>>
  BY DiscardDrops
<1>2. UNCHANGED <<seq, server, stored, step, reads, batch, sending, page>>
  BY <1>1 DEF remote, run
<1>3. sending = None /\ batch = <<>> /\ page = None
  BY <1>1 DEF Inv, RunFits
<1>4. TablesTyped'
  BY <1>1, <1>2 DEF Inv, TablesTyped, Trimmed
<1>5. ServerFits'
  BY <1>2 DEF Inv, ServerFits, Known
<1>6. QueueFits'
  <2>1. \A r \in Rows : queue'[r] # None => local'[r] # None
    BY <1>1 DEF Inv, QueueFits, Trimmed
  <2> QED
    BY <1>1, <2>1, TrimKeeps
<1>7. CopyFits'
  <2>1. cursor' <= seq'
    BY <1>1, <1>2 DEF Inv, CopyFits, TablesTyped
  <2> QED
    BY <1>1, <1>2, <2>1 DEF Inv, CopyFits
<1>8. RunFits' /\ CallFits' /\ PageFits'
  BY <1>1, <1>2, <1>3 DEF Inv, RunFits, CallFits, PageFits
<1> QED
  BY <1>4, <1>5, <1>6, <1>7, <1>8 DEF Inv

\* Nothing anywhere fits.
LEMMA InitFits == Init => Inv
<1> SUFFICES ASSUME Init PROVE Inv
  OBVIOUS
<1>1. TablesTyped
  <2>1. /\ server \in [Rows -> ServerRow \cup {None}] /\ stored \in [Rows -> SUBSET Content]
        /\ local \in [Rows -> LocalRow \cup {None}] /\ queue \in [Rows -> Item \cup {None}]
    BY DEF Init
  <2>2. parked \in [Rows -> Content \cup {None}] /\ \A m \in Members : parked[m] = None
    BY DEF Init, Rows
  <2>3. /\ seq \in Nat /\ cursor \in Nat /\ step \in {"idle", "push", "pull"}
        /\ edits \in Nat /\ faults \in Nat /\ discards \in Nat
    BY DEF Init
  <2>5. reads \in BOOLEAN /\ batch \in Seq(Taken)
    <3>1. reads = FALSE /\ batch = <<>>
      BY DEF Init
    <3>2. reads \in BOOLEAN
      BY <3>1, Zenon
    <3>3. batch \in Seq(Taken)
      BY <3>1
    <3> QED
      BY <3>2, <3>3
  <2>4. sending \in Call \cup {None} /\ stray \in Call \cup {None} /\ page \in Page \cup {None}
    BY DEF Init
  <2> QED
    BY <2>1, <2>2, <2>3, <2>4, <2>5 DEF TablesTyped
<1>2. \A r \in Rows : server[r] = None /\ local[r] = None /\ queue[r] = None
  BY DEF Init
<1>3. ServerFits /\ QueueFits
  BY <1>2 DEF ServerFits, QueueFits
<1>4. CopyFits
  <2>1. cursor <= seq
    BY DEF Init
  <2> QED
    BY <1>2, <2>1 DEF CopyFits
<1>5. RunFits /\ CallFits /\ PageFits
  BY DEF Init, RunFits, CallFits, PageFits
<1> QED
  BY <1>1, <1>3, <1>4, <1>5 DEF Inv

\* Every step keeps the invariant.
LEMMA NextFits == Inv /\ [Next]_vars => Inv'
<1> SUFFICES ASSUME Inv, [Next]_vars PROVE Inv'
  OBVIOUS
<1>1. CASE RunStep
  BY <1>1, StartRunKeeps, NextRoundKeeps, SendNextKeeps, PassOverKeeps, ServerTakesKeeps, AcknowledgeKeeps,
     CompleteKeeps, ParkKeeps, SetAsideKeeps, AskPageKeeps, ApplyKeeps DEF RunStep
<1>2. CASE Elsewhere \/ StrayArrives
  BY <1>2, ServerOnlyKeeps
<1>3. ASSUME NEW r \in Rows, NEW content \in Writes(r, local[r]), Edit(r, content) PROVE Inv'
  BY <1>3, EditKeeps
<1>4. ASSUME NEW r \in Rows, BackOffEnds(r) PROVE Inv'
  BY <1>4, BackOffEndsKeeps
<1>5. CASE Lost \/ PageLost \/ Crash \/ DiscardRefused \/ RetryRefused
  BY <1>5, LostKeeps, PageLostKeeps, CrashKeeps, DiscardRefusedKeeps, RetryRefusedKeeps
<1>6. CASE UNCHANGED vars
  <2>1. UNCHANGED <<seq, server, stored, local, queue, parked, cursor, step, reads, batch, sending,
                    page, stray, edits, faults, discards>>
    BY <1>6 DEF vars, remote, device, run, bounds
  <2>2. TablesTyped'
    BY <2>1 DEF Inv, TablesTyped
  <2>3. ServerFits' /\ QueueFits' /\ CopyFits'
    BY <2>1 DEF Inv, ServerFits, QueueFits, CopyFits, Known
  <2>4. RunFits' /\ CallFits' /\ PageFits'
    BY <2>1 DEF Inv, RunFits, CallFits, PageFits, IsCurrent
  <2> QED
    BY <2>2, <2>3, <2>4 DEF Inv
<1> QED
  BY <1>1, <1>2, <1>3, <1>4, <1>5, <1>6 DEF Next

\* What is remembered of a row: where it was created, or that it was given up.
HistoryTyped ==
    /\ origin \in [Rows -> {None, "here", "elsewhere"}]
    /\ forgotten \subseteq Rows

LEMMA HistoryKeeps ==
    ASSUME Inv, HistoryTyped, [Next]_vars
    PROVE  HistoryTyped'
<1>1. ASSUME NEW r \in Rows, NEW table, NEW where \in {"here", "elsewhere"}, Created(r, table, where)
      PROVE  origin' \in [Rows -> {None, "here", "elsewhere"}]
  BY <1>1 DEF Created, HistoryTyped
<1>2. CASE UNCHANGED history
  BY <1>2 DEF history, HistoryTyped
<1>3. ASSUME NEW r \in Rows, NEW content, OthersWrite(r, content) PROVE HistoryTyped'
  BY <1>1, <1>3 DEF OthersWrite, HistoryTyped
<1>4. ASSUME NEW r \in Rows, NEW content, Edit(r, content) PROVE HistoryTyped'
  BY <1>1, <1>4 DEF Edit, HistoryTyped
<1>5. CASE PassOver
  BY <1>5, PassesOver DEF PassOver, HistoryTyped
<1>6. CASE Acknowledge
  BY <1>6 DEF Acknowledge, HistoryTyped
<1>7. CASE Apply
  BY <1>7 DEF Apply, HistoryTyped, Missed, Brought
<1>8. CASE DiscardRefused
  BY <1>8 DEF DiscardRefused, HistoryTyped, Refused, Unsent
<1>9. CASE \/ \E everything \in BOOLEAN : StartRun(everything)
           \/ NextRound \/ SendNext \/ ServerTakes \/ Complete \/ Park \/ SetAside \/ AskPage
  BY <1>2, <1>9 DEF StartRun, NextRound, SendNext, ServerTakes, Complete, Park, SetAside, AskPage
<1>10. CASE \/ (\E m \in Members : Claim(m)) \/ (\E r \in Rows : BackOffEnds(r))
            \/ Lost \/ PageLost \/ Crash \/ StrayArrives \/ RetryRefused \/ UNCHANGED vars
  BY <1>2, <1>10 DEF Claim, BackOffEnds, Lost, PageLost, Crash, StrayArrives, RetryRefused, vars
<1> QED
  BY <1>3, <1>4, <1>5, <1>6, <1>7, <1>8, <1>9, <1>10 DEF Next, RunStep, Elsewhere

\* Every variable holds what its table or field may, whatever is lost, killed or
\* written elsewhere.
THEOREM DeviceTyped == Spec => []TypeOK
<1>1. Spec => []Inv
  BY InitFits, NextFits, PTL DEF Spec
<1>2. Inv => TablesTyped
  BY DEF Inv
<1>3. Init => HistoryTyped
  BY DEF Init, HistoryTyped
<1>4. Inv /\ HistoryTyped /\ [Next]_vars => HistoryTyped'
  BY HistoryKeeps
<1>5. TablesTyped /\ HistoryTyped => TypeOK
  BY DEF TypeOK, HistoryTyped
<1> QED
  BY <1>1, <1>2, <1>3, <1>4, <1>5, PTL DEF Spec

-----------------------------------------------------------------------------
(* No write is lost. *)

\* What NoEditLost asks of a step of the device.
Kept(r) ==
    /\ local'[r] # None /\ ContentOf(local'[r]) = ContentOf(local[r])
    /\ queue'[r] = None => \/ ContentOf(local[r]) \in stored[r]
                           \/ parked'[r] = ContentOf(local[r])
                           \/ NeverSent(r)

\* A queued row that nothing touches is kept.
LEMMA SameRowKept ==
    ASSUME Inv, NEW r \in Rows, queue[r] # None, local' = local, queue'[r] # None
    PROVE  Kept(r)
BY DEF Kept, Inv, QueueFits

\* A step other than an edit or a discard keeps every write.
LEMMA StepKeeps ==
    ASSUME Inv, RunStep \/ Elsewhere \/ Lost \/ PageLost \/ Crash \/ StrayArrives
                \/ \E q \in Rows : BackOffEnds(q),
           NEW r \in Rows, queue[r] # None
    PROVE  Kept(r)
<1>0. /\ local[r] # None /\ local[r] \in LocalRow /\ queue[r] \in Item
      /\ local \in [Rows -> LocalRow \cup {None}] /\ queue \in [Rows -> Item \cup {None}]
      /\ parked \in [Rows -> Content \cup {None}]
  BY DEF Inv, QueueFits, TablesTyped
<1>1. CASE UNCHANGED <<local, queue>>
  BY <1>1, SameRowKept
<1>2. CASE Acknowledge
  <2>1. local' = [local EXCEPT ![sending.row].base = sending.seq] /\ queue' = queue /\ sending # None
    BY <1>2 DEF Acknowledge
  <2>2. local'[r] = local[r] \/ local'[r] = [local[r] EXCEPT !.base = sending.seq]
    BY <1>0, <2>1
  <2>3. [local[r] EXCEPT !.base = sending.seq] \in LocalRow
        /\ ContentOf([local[r] EXCEPT !.base = sending.seq]) = ContentOf(local[r])
    BY <1>0, <2>1, SendingTyped DEF LocalRow, ContentOf
  <2> QED
    BY <1>0, <2>1, <2>2, <2>3, Nothing DEF Kept
<1>3. CASE Complete
  <2>1. /\ sending # None /\ sending.answer = "recorded" /\ local' = local
        /\ queue' = IF IsCurrent(sending) THEN Dequeued(sending.row) ELSE queue
    BY <1>3 DEF Complete
  <2>2. CASE queue'[r] # None
    BY <2>1, <2>2, SameRowKept
  <2>3. CASE queue'[r] = None
    <3>1. r = sending.row /\ IsCurrent(sending)
      BY <1>0, <2>1, <2>3 DEF Dequeued
    <3>2. ContentOf(local[r]) = sending.body /\ sending.body \in stored[r]
      BY <2>1, <3>1 DEF Inv, CallFits
    <3> QED
      BY <1>0, <2>1, <3>2 DEF Kept
  <2> QED
    BY <2>2, <2>3
<1>4. CASE Park
  <2>1. /\ sending # None /\ local' = local
        /\ IF IsCurrent(sending)
           THEN /\ parked' = [parked EXCEPT ![sending.row] = ContentOf(local[sending.row])]
                /\ queue' = Dequeued(sending.row)
           ELSE queue' = queue
    BY <1>4 DEF Park
  <2>2. CASE queue'[r] # None
    BY <2>1, <2>2, SameRowKept
  <2>3. CASE queue'[r] = None
    <3>1. r = sending.row /\ parked' = [parked EXCEPT ![sending.row] = ContentOf(local[sending.row])]
      BY <1>0, <2>1, <2>3 DEF Dequeued
    <3>2. parked'[r] = ContentOf(local[r])
      BY <1>0, <3>1
    <3> QED
      BY <1>0, <2>1, <3>2 DEF Kept
  <2> QED
    BY <2>2, <2>3
<1>5. ASSUME SetAside \/ Lost PROVE Kept(r)
  <2>1. /\ sending # None /\ local' = local
        /\ \/ queue' = queue
           \/ sending.answer \in Reasons /\ queue' = [queue EXCEPT ![sending.row].refused = sending.answer]
           \/ queue' = [queue EXCEPT ![sending.row].due = FALSE]
    BY <1>5 DEF SetAside, Lost
  <2>2. /\ sending.answer \in Reasons => [queue[r] EXCEPT !.refused = sending.answer] \in Item
        /\ [queue[r] EXCEPT !.due = FALSE] \in Item
    BY <1>0 DEF Item
  <2>3. queue'[r] # None
    <3>1. CASE queue' = queue
      BY <3>1
    <3>2. CASE sending.answer \in Reasons /\ queue' = [queue EXCEPT ![sending.row].refused = sending.answer]
      BY <1>0, <2>2, <3>2, Nothing
    <3>3. CASE queue' = [queue EXCEPT ![sending.row].due = FALSE]
      BY <1>0, <2>2, <3>3, Nothing
    <3> QED
      BY <2>1, <3>1, <3>2, <3>3
  <2> QED
    BY <2>1, <2>3, SameRowKept
<1>6. CASE Apply
  <2>1. page # None /\ local' = Merged(page, Unsent) /\ queue' = queue
    BY <1>6 DEF Apply
  <2>2. local'[r] = local[r]
    BY <2>1, MergedFits
  <2> QED
    BY <1>0, <2>1, <2>2 DEF Kept
<1>7. ASSUME NEW q \in Rows, BackOffEnds(q) PROVE Kept(r)
  <2>1. local' = local /\ queue' = [queue EXCEPT ![q].due = TRUE]
    BY <1>7 DEF BackOffEnds
  <2>2. [queue[r] EXCEPT !.due = TRUE] \in Item
    BY <1>0 DEF Item
  <2>3. queue'[r] # None
    BY <1>0, <2>1, <2>2, Nothing
  <2> QED
    BY <2>1, <2>3, SameRowKept
<1>8. CASE (\E everything \in BOOLEAN : StartRun(everything)) \/ NextRound \/ SendNext \/ AskPage
           \/ ServerTakes
  <2>1. UNCHANGED device
    BY <1>8 DEF StartRun, NextRound, SendNext, AskPage, ServerTakes
  <2> QED
    BY <1>1, <2>1 DEF device
<1>9. CASE Elsewhere \/ PageLost \/ Crash \/ StrayArrives
  <2>1. UNCHANGED device
    BY <1>9 DEF Elsewhere, OthersWrite, Claim, PageLost, Crash, StrayArrives
  <2> QED
    BY <1>1, <2>1 DEF device
<1>10. CASE PassOver
  <2>1. local' = local
    BY <1>10 DEF PassOver
  <2>2. queue'[r] = None => NeverSent(r)
    BY <1>0, <1>10, PassesOver DEF Dequeued
  <2> QED
    BY <1>0, <2>1, <2>2 DEF Kept
<1> QED
  BY <1>2, <1>3, <1>4, <1>5, <1>6, <1>7, <1>8, <1>9, <1>10 DEF RunStep

\* A write leaves the queue only when the server stored just that content, or it
\* is parked to be read, or its author edits or discards it, or it deletes an
\* expense no version of which was recorded (push, _pushOne and _parkConflict in
\* sync_engine.dart, complete in outbox_queue.dart).
THEOREM DeviceLosesNoEdit == Spec => NoEditLost
<1> DEFINE A == \A r \in Rows : queue[r] # None /\ discards' = discards =>
          \/ edits' # edits
          \/ /\ local'[r] # None /\ ContentOf(local'[r]) = ContentOf(local[r])
             /\ queue'[r] = None => \/ ContentOf(local[r]) \in stored[r]
                                    \/ parked'[r] = ContentOf(local[r])
                                    \/ NeverSent(r)
<1>1. Inv /\ [Next]_vars => [A]_vars
  <2> SUFFICES ASSUME Inv, Next, NEW r \in Rows, queue[r] # None, discards' = discards, edits' = edits
               PROVE  Kept(r)
    BY DEF Kept
  <2>1. edits \in Nat /\ discards \in Nat
    BY DEF Inv, TablesTyped
  <2>2. \A q \in Rows : \A content \in Writes(q, local[q]) : ~Edit(q, content)
    BY <2>1 DEF Edit
  <2>3. ~DiscardRefused /\ ~RetryRefused
    <3>1. DiscardRefused \/ RetryRefused => discards' = discards + 1
      BY DEF DiscardRefused, RetryRefused
    <3> QED
      BY <2>1, <3>1
  <2> QED
    BY <2>2, <2>3, StepKeeps DEF Next
<1>2. Spec => []Inv
  BY InitFits, NextFits, PTL DEF Spec
<1> QED
  BY <1>1, <1>2, PTL DEF Spec, NoEditLost

-----------------------------------------------------------------------------
(* The copy is current. *)

\* Who an expense on the page names is on it too, known here already, or given up.
PageNames ==
    page # None => \A r \in Rows : page.rows[r] # None =>
        \A m \in page.rows[r].names : page.rows[m] # None \/ local[m] # None \/ m \in forgotten

\* The copy stays current if each row read past and sent was so, or is the server's.
LEMMA StillCaughtUp ==
    ASSUME CaughtUp,
           \A r \in Rows \ forgotten' :
               (queue'[r] = None /\ server'[r] # None /\ server'[r].seq <= cursor') =>
               \/ /\ queue[r] = None /\ r \notin forgotten /\ local'[r] = local[r]
                  /\ server'[r] = server[r] /\ server[r].seq <= cursor
               \/ /\ local'[r] # None /\ ContentOf(local'[r]) = ContentOf(server'[r])
                  /\ local'[r].base = server'[r].seq
    PROVE  CaughtUp'
BY DEF CaughtUp

\* A write elsewhere is past the cursor.
LEMMA MovesCaughtUp ==
    ASSUME Inv, CaughtUp, PageNames, ServerMoves, UNCHANGED <<device, page, forgotten>>
    PROVE  CaughtUp' /\ PageNames'
<1>1. local' = local /\ queue' = queue /\ cursor' = cursor
  BY DEF device
<1>2. /\ seq \in Nat /\ cursor \in Nat /\ cursor <= seq
      /\ \A r \in Rows : server'[r] # server[r] => server'[r].seq = seq + 1
  BY MovesKeep DEF Inv, TablesTyped, CopyFits
<1>3. \A r \in Rows : (server'[r] # None /\ server'[r].seq <= cursor) => server'[r] = server[r]
  BY <1>2
<1>4. CaughtUp'
  BY <1>1, <1>3, StillCaughtUp
<1> QED
  BY <1>1, <1>4 DEF PageNames

\* What leaves the copy and the cursor alone, and unsent what it does not give up.
LEMMA FrameCaughtUp ==
    ASSUME CaughtUp, PageNames, server' = server, local' = local, cursor' = cursor,
           forgotten \subseteq forgotten',
           \A r \in Rows \ forgotten' : queue'[r] = None => queue[r] = None,
           page' \in {page, None}
    PROVE  CaughtUp' /\ PageNames'
<1>1. CaughtUp'
  BY StillCaughtUp
<1> QED
  BY <1>1 DEF PageNames

\* An edited row is unsent.
LEMMA EditCaughtUp ==
    ASSUME Inv, CaughtUp, PageNames, NEW r \in Rows, NEW content \in Writes(r, local[r]), Edit(r, content)
    PROVE  CaughtUp' /\ PageNames'
<1>1. /\ UNCHANGED <<remote, cursor, run>>
      /\ \A q \in Rows : q # r => local'[q] = local[q] /\ queue'[q] = queue[q]
      /\ local'[r] # None /\ queue'[r] # None
  BY EditWrites
<1>2. server' = server /\ page' = page /\ forgotten' = forgotten
  BY <1>1 DEF remote, run, Edit
<1>3. CaughtUp'
  BY <1>1, <1>2, StillCaughtUp
<1>4. ASSUME page # None, NEW q \in Rows, page.rows[q] # None, NEW m \in page.rows[q].names
      PROVE  page.rows[m] # None \/ local'[m] # None \/ m \in forgotten
  <2>1. page.rows[m] # None \/ local[m] # None \/ m \in forgotten
    BY <1>4 DEF PageNames
  <2>2. m \in Rows
    BY <1>4 DEF Inv, TablesTyped, Page, ServerRow, Rows
  <2> QED
    BY <1>1, <2>1, <2>2
<1> QED
  BY <1>2, <1>3, <1>4 DEF PageNames

\* The answer is recorded: if nothing was written since, the copy is the server's.
LEMMA CompleteCaughtUp ==
    ASSUME Inv, CaughtUp, Complete
    PROVE  CaughtUp' /\ PageNames'
<1> DEFINE r == sending.row
<1>1. /\ sending # None /\ sending.answer = "recorded"
      /\ queue' = IF IsCurrent(sending) THEN Dequeued(r) ELSE queue
      /\ UNCHANGED <<remote, local, cursor, page, forgotten>>
  BY DEF Complete, history
<1>2. server' = server /\ page = None
  BY <1>1, SendingTyped DEF remote
<1>3. r \in Rows /\ queue[r] # None /\ local[r] # None
  BY <1>1, SendingTyped
<1>4. queue \in [Rows -> Item \cup {None}]
  BY DEF Inv, TablesTyped
<1>5. /\ IsCurrent(sending) => ContentOf(local[r]) = sending.body
      /\ local[r].base = sending.seq
      /\ server[r].seq <= cursor => /\ server[r].seq = sending.seq
                                    /\ ContentOf(server[r]) = sending.body
  BY <1>1 DEF Inv, CallFits
<1>6. \A q \in Rows : queue'[q] = None => queue[q] = None \/ (q = r /\ IsCurrent(sending))
  BY <1>1, <1>3, <1>4 DEF Dequeued
<1> HIDE DEF r
<1>7. CaughtUp'
  BY <1>1, <1>2, <1>3, <1>5, <1>6, StillCaughtUp
<1> QED
  BY <1>1, <1>2, <1>7 DEF PageNames

\* A conflict is parked: the version it lost to will be read again.
LEMMA ParkCaughtUp ==
    ASSUME Inv, CaughtUp, Park
    PROVE  CaughtUp' /\ PageNames'
<1> DEFINE r == sending.row
           to == IF local[r].base = None THEN 0 ELSE local[r].base
<1>1. /\ sending # None /\ sending.answer = "stale"
      /\ IF IsCurrent(sending)
         THEN cursor' = Rewound(to) /\ queue' = Dequeued(r)
         ELSE UNCHANGED <<cursor, queue>>
      /\ UNCHANGED <<remote, local, page, forgotten>>
  BY DEF Park, history
<1>2. server' = server /\ page = None
  BY <1>1, SendingTyped DEF remote
<1>3. r \in Rows /\ queue[r] # None /\ local[r] \in LocalRow /\ sending.base \in Nat \cup {None}
  BY <1>1, SendingTyped
<1>4. queue \in [Rows -> Item \cup {None}] /\ cursor \in Nat /\ to \in Nat
      /\ \A q \in Rows : server[q] # None => server[q].seq \in Nat /\ 1 <= server[q].seq
  BY <1>3 DEF Inv, TablesTyped, LocalRow, ServerRow, ServerFits
<1>5. /\ local[r].base = sending.base /\ server[r] # None
      /\ sending.base # None => sending.base < server[r].seq
  BY <1>1 DEF Inv, CallFits
<1>6. to < server[r].seq
  BY <1>3, <1>4, <1>5
<1> HIDE DEF r, to
<1>7. \A q \in Rows : queue'[q] = None => queue[q] = None \/ (q = r /\ cursor' <= to)
  <2>1. Rewound(to) <= to
    BY <1>4 DEF Rewound
  <2> QED
    BY <1>1, <1>3, <1>4, <2>1 DEF Dequeued
<1>8. cursor' \in Nat /\ cursor' <= cursor
  BY <1>1, <1>4 DEF Rewound
<1>9. CaughtUp'
  <2> SUFFICES ASSUME NEW q \in Rows, queue'[q] = None, server[q] # None, server[q].seq <= cursor'
               PROVE  queue[q] = None /\ server[q].seq <= cursor
    BY <1>1, <1>2, StillCaughtUp
  <2>1. q # r
    <3> SUFFICES ASSUME q = r PROVE FALSE
      OBVIOUS
    <3>1. cursor' <= to
      BY <1>3, <1>7
    <3> QED
      BY <1>3, <1>4, <1>6, <1>8, <3>1
  <2> QED
    BY <1>4, <1>7, <1>8, <2>1
<1> QED
  BY <1>1, <1>2, <1>9 DEF PageNames

\* A page names nobody it does not bring, unless this device has them or gave them up.
LEMMA AskPageCaughtUp ==
    ASSUME Inv, CaughtUp, AskPage
    PROVE  CaughtUp' /\ PageNames'
<1>1. page' = ChangesSince(cursor) /\ UNCHANGED <<remote, device, history>>
  BY DEF AskPage
<1>2. UNCHANGED <<server, local, queue, cursor, forgotten>>
  BY <1>1 DEF remote, device, history
<1>3. CaughtUp'
  BY <1>2, StillCaughtUp
<1>4. \A r \in Rows : page'.rows[r] = IF OnPage(r, cursor) THEN server[r] ELSE None
  BY <1>1 DEF ChangesSince
<1>5. ASSUME NEW r \in Rows, page'.rows[r] # None, NEW m \in page'.rows[r].names
      PROVE  page'.rows[m] # None \/ local[m] # None \/ m \in forgotten
  <2>1. server[r] # None /\ page'.rows[r] = server[r]
    BY <1>4, <1>5
  <2>2. m \in Members /\ m \in Rows /\ server[m] # None
    BY <1>5, <2>1 DEF Inv, ServerFits, Known, Rows
  <2>3. CASE server[m].seq > cursor
    <3>1. OnPage(m, cursor)
      BY <2>2, <2>3 DEF OnPage
    <3> QED
      BY <1>4, <2>2, <3>1
  <2>4. CASE server[m].seq <= cursor
    BY <2>2, <2>4 DEF CaughtUp, Inv, QueueFits
  <2>5. server[m].seq \in Nat /\ cursor \in Nat
    BY <2>2 DEF Inv, TablesTyped, ServerRow
  <2> QED
    BY <2>3, <2>4, <2>5
<1>6. PageNames'
  BY <1>2, <1>5 DEF PageNames
<1> QED
  BY <1>3, <1>6

\* A page's rows are taken, every one this device has nothing unsent for, but
\* those naming somebody it has given up.
LEMMA ApplyCaughtUp ==
    ASSUME Inv, CaughtUp, PageNames, Apply
    PROVE  CaughtUp' /\ PageNames'
<1>1. /\ page # None /\ local' = Merged(page, Unsent) /\ cursor' = page.seq /\ page' = None
      /\ forgotten' = (forgotten \ Accepted(page, Unsent)) \cup Missed(page, Unsent)
      /\ UNCHANGED <<remote, queue>>
  BY DEF Apply
<1>2. server' = server
  BY <1>1 DEF remote
<1>3. /\ cursor \in Nat /\ page.seq \in Nat
      /\ \A r \in Rows : /\ server[r] # None => server[r].seq \in Nat
                         /\ page.rows[r] # None => page.rows[r] \in ServerRow /\ page.rows[r].seq \in Nat
  BY <1>1 DEF Inv, TablesTyped, Page, ServerRow
<1>4. /\ \A r \in Rows : page.rows[r] # None => cursor < page.rows[r].seq /\ page.rows[r].seq <= server[r].seq
      /\ \A r \in Rows :
             (server[r] # None /\ cursor < server[r].seq /\ server[r].seq <= page.seq) =>
                 page.rows[r] = server[r]
  BY <1>1 DEF Inv, PageFits
<1>5. ASSUME NEW r \in Rows, r \notin forgotten', queue[r] = None, server[r] # None,
             server[r].seq <= page.seq
      PROVE  \/ server[r].seq <= cursor /\ r \notin forgotten /\ local'[r] = local[r]
             \/ /\ local'[r] # None /\ ContentOf(local'[r]) = ContentOf(server[r])
                /\ local'[r].base = server[r].seq
  <2>1. CASE server[r].seq <= cursor
    <3>1. page.rows[r] = None
      BY <1>3, <1>4, <1>5, <2>1
    <3>2. r \notin Accepted(page, Unsent)
      BY <3>1 DEF Accepted, Brought
    <3> QED
      BY <1>1, <1>5, <2>1, <3>1, <3>2, MergedFits
  <2>2. CASE cursor < server[r].seq
    <3>1. page.rows[r] = server[r] /\ page.rows[r] \in ServerRow
      BY <1>3, <1>4, <1>5, <2>2
    <3>2. r \in Brought(page) \ Unsent
      BY <1>5, <3>1 DEF Brought, Unsent
    <3>3. r \in Accepted(page, Unsent)
      <4> SUFFICES ASSUME r \notin Accepted(page, Unsent) PROVE FALSE
        OBVIOUS
      <4>1. PICK m \in page.rows[r].names :
                m \notin LocalMembers(local) \cup ((Brought(page) \ Unsent) \cap Members)
        BY <3>2 DEF Accepted
      <4>2. m \in Members /\ m \in Rows
        BY <3>1 DEF ServerRow, Rows
      <4>3. local[m] = None
        BY <4>1, <4>2 DEF LocalMembers
      <4>4. m \notin Unsent
        BY <4>2, <4>3 DEF Unsent, Inv, QueueFits
      <4>5. page.rows[m] = None
        BY <4>1, <4>2, <4>4 DEF Brought
      <4>6. m \in forgotten
        BY <1>1, <3>1, <1>5, <4>3, <4>5 DEF PageNames
      <4>7. r \in Missed(page, Unsent)
        BY <3>2, <4>6 DEF Missed
      <4> QED
        BY <1>1, <1>5, <4>7
    <3>4. local'[r] = FromServer(page.rows[r])
      BY <1>1, <3>3 DEF Merged
    <3>5. FromServer(page.rows[r]) # None
      BY <3>1, FromServerFits, Nothing
    <3> QED
      BY <3>1, <3>4, <3>5, FromServerFits
  <2> QED
    BY <1>3, <1>5, <2>1, <2>2
<1>6. CaughtUp'
  BY <1>1, <1>2, <1>5, StillCaughtUp
<1> QED
  BY <1>1, <1>6 DEF PageNames

\* Discarding what has a version rewinds behind it; a row without one is given up.
LEMMA DiscardCaughtUp ==
    ASSUME Inv, CaughtUp, DiscardRefused
    PROVE  CaughtUp' /\ PageNames'
<1> DEFINE unknown == {r \in Refused : local[r].base = None}
           versioned == Refused \ unknown
           befores == {local[r].base - 1 : r \in versioned}
<1>1. /\ queue' = [r \in Rows |-> IF r \in Refused THEN None ELSE queue[r]]
      /\ cursor' = Min({cursor} \cup befores)
      /\ forgotten' = forgotten \cup unknown
  BY DEF DiscardRefused
<1>2. \A r \in versioned : /\ r \in Rows /\ local[r] # None /\ local[r].base # None
                           /\ local[r].base \in Nat /\ 1 <= local[r].base
                           /\ server[r] # None /\ local[r].base <= server[r].seq
  BY DEF Refused, Unsent, Inv, QueueFits, CopyFits, TablesTyped, LocalRow
<1>3. /\ step = "idle" /\ cursor' \in Nat /\ cursor' <= cursor /\ cursor \in Nat
      /\ UNCHANGED <<remote, run>>
      /\ \A r \in Rows : local'[r] = local[r] \/ (queue[r] # None /\ local'[r] = None)
  BY DiscardDrops DEF Inv, TablesTyped
<1>4. server' = server /\ page' = page /\ page = None
  BY <1>3 DEF remote, run, Inv, RunFits
<1>5. ASSUME NEW r \in versioned PROVE cursor' < server[r].seq
  <2> DEFINE S == {cursor} \cup befores
  <2>1. local[r].base - 1 \in S
    OBVIOUS
  <2> HIDE DEF versioned
  <2>2. \A n \in S : n \in Nat
    <3> SUFFICES ASSUME NEW q \in versioned PROVE local[q].base - 1 \in Nat
      BY <1>3
    <3> QED
      BY <1>2
  <2>3. cursor' = Min(S)
    BY <1>1
  <2> HIDE DEF S
  <2>4. Min(S) <= local[r].base - 1
    BY <2>1, <2>2, LeastOf
  <2>5. server[r].seq \in Nat
    BY <1>2 DEF Inv, TablesTyped, ServerRow
  <2> QED
    BY <1>2, <1>3, <2>3, <2>4, <2>5
<1>6. ASSUME NEW r \in Rows, r \notin forgotten', queue'[r] = None, server[r] # None,
             server[r].seq <= cursor'
      PROVE  queue[r] = None /\ server[r].seq <= cursor /\ r \notin forgotten /\ local'[r] = local[r]
  <2>1. server[r].seq \in Nat
    BY <1>6 DEF Inv, TablesTyped, ServerRow
  <2>2. r \notin Refused
    BY <1>1, <1>3, <1>5, <1>6, <2>1
  <2>3. queue[r] = None
    BY <1>1, <1>6, <2>2
  <2> QED
    BY <1>1, <1>3, <1>6, <2>1, <2>3
<1> HIDE DEF unknown, versioned, befores
<1>7. CaughtUp'
  BY <1>4, <1>6, StillCaughtUp
<1> QED
  BY <1>4, <1>7 DEF PageNames

\* Every step leaves the copy current.
LEMMA NextCaughtUp == Inv /\ CaughtUp /\ PageNames /\ [Next]_vars => (CaughtUp /\ PageNames)'
<1> SUFFICES ASSUME Inv, CaughtUp, PageNames, [Next]_vars PROVE CaughtUp' /\ PageNames'
  OBVIOUS
<1>1. CASE (\E everything \in BOOLEAN : StartRun(everything)) \/ NextRound \/ SendNext
           \/ PageLost \/ Crash \/ UNCHANGED vars
  <2>1. UNCHANGED <<remote, device, forgotten>> /\ page' \in {page, None}
    BY <1>1 DEF StartRun, NextRound, SendNext, PageLost, Crash, vars, run, history
  <2> QED
    BY <2>1, FrameCaughtUp DEF remote, device
<1>2. CASE SetAside \/ Lost \/ RetryRefused \/ \E r \in Rows : BackOffEnds(r)
  <2>1. UNCHANGED <<remote, local, cursor, page, forgotten>>
    BY <1>2 DEF SetAside, Lost, RetryRefused, BackOffEnds, run, history
  <2>2. ASSUME NEW r \in Rows, queue[r] # None PROVE queue'[r] # None
    <3>1. queue[r] \in Item /\ queue \in [Rows -> Item \cup {None}]
      BY <2>2 DEF Inv, TablesTyped
    <3>2. /\ \A due \in BOOLEAN : [queue[r] EXCEPT !.due = due] # None
          /\ \A reason \in Reasons : [queue[r] EXCEPT !.refused = reason] # None
          /\ [queue[r] EXCEPT !.refused = None, !.due = TRUE] # None
      <4>1. /\ \A due \in BOOLEAN : [queue[r] EXCEPT !.due = due] \in Item
            /\ \A reason \in Reasons : [queue[r] EXCEPT !.refused = reason] \in Item
            /\ [queue[r] EXCEPT !.refused = None, !.due = TRUE] \in Item
        BY <3>1 DEF Item
      <4> QED
        BY <4>1, Nothing
    <3>3. CASE SetAside
      <4>1. sending.answer \in Reasons
            /\ (queue' = queue \/ queue' = [queue EXCEPT ![sending.row].refused = sending.answer])
        BY <3>3 DEF SetAside
      <4> QED
        BY <2>2, <3>1, <3>2, <4>1
    <3>4. CASE Lost
      <4>1. queue' = queue \/ queue' = [queue EXCEPT ![sending.row].due = FALSE]
        BY <3>4 DEF Lost
      <4> QED
        BY <2>2, <3>1, <3>2, <4>1
    <3>5. CASE RetryRefused
      <4>1. queue'[r] = queue[r] \/ queue'[r] = [queue[r] EXCEPT !.refused = None, !.due = TRUE]
        BY <3>5 DEF RetryRefused
      <4> QED
        BY <2>2, <3>2, <4>1
    <3>6. ASSUME NEW q \in Rows, BackOffEnds(q) PROVE queue'[r] # None
      <4>1. queue' = [queue EXCEPT ![q].due = TRUE]
        BY <3>6 DEF BackOffEnds
      <4> QED
        BY <2>2, <3>1, <3>2, <4>1
    <3> QED
      BY <1>2, <3>3, <3>4, <3>5, <3>6
  <2> QED
    BY <2>1, <2>2, FrameCaughtUp DEF remote
<1>3. CASE Acknowledge
  <2>1. /\ sending # None /\ local' = [local EXCEPT ![sending.row].base = sending.seq]
        /\ forgotten' = forgotten \ {sending.row}
        /\ UNCHANGED <<remote, queue, cursor, page>>
    BY <1>3 DEF Acknowledge
  <2>2. page = None /\ queue[sending.row] # None /\ server' = server
    BY <2>1, SendingTyped DEF remote
  <2>3. \A r \in Rows : r # sending.row => local'[r] = local[r]
    BY <2>1 DEF Inv, TablesTyped
  <2>4. CaughtUp'
    BY <2>1, <2>2, <2>3, StillCaughtUp
  <2> QED
    BY <2>1, <2>2, <2>4 DEF PageNames
<1>4. CASE ServerTakes
  <2>1. /\ sending # None /\ Handled(sending.row, sending.body, sending.base)
        /\ UNCHANGED <<device, page, forgotten>>
    BY <1>4 DEF ServerTakes, history
  <2>2. sending.row \in Rows /\ sending.body \in Content
        /\ (sending.row \in Members => sending.body.names = {})
    BY <2>1, SendingTyped DEF Inv, CallFits
  <2>3. ServerMoves
    BY <2>1, <2>2, HandledMoves DEF Inv
  <2> QED
    BY <2>1, <2>3, MovesCaughtUp
<1>5. CASE Elsewhere \/ StrayArrives
  <2>1. ServerMoves
    BY <1>5, OthersMove, StrayMoves DEF Elsewhere
  <2>2. UNCHANGED <<device, page, forgotten>>
    BY <1>5 DEF Elsewhere, OthersWrite, Claim, StrayArrives, run, history
  <2> QED
    BY <2>1, <2>2, MovesCaughtUp
<1>6. CASE PassOver
  <2>1. UNCHANGED <<remote, local, cursor, page>>
    BY <1>6 DEF PassOver
  <2>2. /\ forgotten \subseteq forgotten'
        /\ \A r \in Rows \ forgotten' : queue'[r] = None => queue[r] = None
    BY <1>6, PassesOver DEF Dequeued
  <2> QED
    BY <2>1, <2>2, FrameCaughtUp DEF remote
<1>7. ASSUME NEW r \in Rows, NEW content \in Writes(r, local[r]), Edit(r, content)
      PROVE  CaughtUp' /\ PageNames'
  BY <1>7, EditCaughtUp
<1> QED
  BY <1>1, <1>2, <1>3, <1>4, <1>5, <1>6, <1>7, CompleteCaughtUp, ParkCaughtUp, AskPageCaughtUp,
     ApplyCaughtUp, DiscardCaughtUp DEF Next, RunStep

\* A row with nothing unsent that the cursor is past says what the server says
\* (_pullChanges, applyChanges), but for the rows of which no version was
\* recorded here when their refused write was discarded or their deletion
\* dropped, and the expenses left out for naming such a row.
THEOREM DeviceCaughtUp == Spec => []CaughtUp
<1>1. Init => CaughtUp /\ PageNames
  BY DEF Init, CaughtUp, PageNames
<1>2. Spec => []Inv
  BY InitFits, NextFits, PTL DEF Spec
<1> QED
  BY <1>1, <1>2, NextCaughtUp, PTL DEF Spec

-----------------------------------------------------------------------------
(* A member is sent before the expenses that name it. *)

\* Edited again before the server had it: it keeps the place it was created in.
Again(m) == queue[m] # None /\ local[m].base = None /\ queue[m].position # queue[m].revision

\* A member only this device has is queued, and nothing has refused it.
NewQueued ==
    \A m \in Members : (server[m] = None /\ local[m] # None) => queue[m] # None /\ queue[m].refused = None

\* It was queued before any row naming it was last edited.
NamedBefore ==
    \A r \in Rows : queue[r] # None => \A m \in local[r].names :
        server[m] = None => local[m] # None /\ queue[m].position < queue[r].revision

\* In a round it comes before those rows, unless it is edited again meanwhile.
RoundInOrder ==
    \A j \in 1..Len(batch) :
        /\ (batch[j].row \in Members /\ server[batch[j].row] = None) =>
               IsCurrent(batch[j]) \/ Again(batch[j].row)
        /\ (IsCurrent(batch[j]) /\ batch[j].position = batch[j].revision) =>
               \A m \in local[batch[j].row].names : server[m] = None =>
                   Again(m) \/ \E i \in 1..(j - 1) : batch[i].row = m

\* So a request names a member the server does not have only if it was edited again.
CallInOrder ==
    (sending # None /\ Head(batch).position = Head(batch).revision) =>
        /\ sending.answer = "none" =>
               \A m \in sending.body.names : server[m] = None => Again(m)
        /\ sending.answer = "unknown" => \E m \in sending.body.names : Again(m)

\* What makes the order of the pushes inductive.
Ordered == NewQueued /\ NamedBefore /\ RoundInOrder /\ CallInOrder

\* Names are members; places and revisions are numbers.
LEMMA NamesTyped ==
    ASSUME TablesTyped
    PROVE  /\ \A m \in Members : m \in Rows
           /\ \A r \in Rows : local[r] # None => local[r].names \subseteq Members
           /\ \A r \in Rows : queue[r] # None => queue[r].position \in Nat /\ queue[r].revision \in Nat
           /\ \A i \in 1..Len(batch) : batch[i] \in Taken /\ batch[i].row \in Rows
                                       /\ batch[i].revision \in Nat /\ batch[i].position \in Nat
<1>1. batch \in Seq(Taken)
  BY DEF TablesTyped
<1>2. \A i \in 1..Len(batch) : batch[i] \in Taken
  BY <1>1
<1> QED
  BY <1>2 DEF TablesTyped, LocalRow, Item, Taken, Rows

\* A server that only gains rows.
LEMMA ServerOrdered ==
    ASSUME Inv, Ordered, ServerMoves, UNCHANGED <<device, batch>>
    PROVE  /\ NewQueued' /\ NamedBefore' /\ RoundInOrder'
           /\ sending' = sending => CallInOrder'
<1>1. \A m \in Members : server'[m] = None => server[m] = None
  BY MovesKeep, NamesTyped DEF Inv
<1>2. local' = local /\ queue' = queue /\ batch' = batch
  BY DEF device
<1>3. \A r \in Rows : queue[r] # None => local[r] # None /\ local[r].names \subseteq Members
  BY NamesTyped DEF Inv, QueueFits
<1>4. NewQueued'
  BY <1>1, <1>2 DEF Ordered, NewQueued
<1>5. NamedBefore'
  BY <1>1, <1>2, <1>3 DEF Ordered, NamedBefore
<1>6. RoundInOrder'
  <2>1. \A m \in Members : Again(m)' = Again(m)
    BY <1>2 DEF Again
  <2> SUFFICES ASSUME NEW j \in 1..Len(batch)
               PROVE  /\ (batch[j].row \in Members /\ server'[batch[j].row] = None) =>
                             IsCurrent(batch[j]) \/ Again(batch[j].row)
                      /\ (IsCurrent(batch[j]) /\ batch[j].position = batch[j].revision) =>
                             \A m \in local[batch[j].row].names : server'[m] = None =>
                                 Again(m) \/ \E i \in 1..(j - 1) : batch[i].row = m
    BY <1>2 DEF RoundInOrder, IsCurrent, Again
  <2>2. IsCurrent(batch[j]) => local[batch[j].row].names \subseteq Members
    BY <1>3, NamesTyped DEF IsCurrent, Inv
  <2> QED
    BY <1>1, <2>2 DEF Ordered, RoundInOrder
<1>7. ASSUME sending' = sending PROVE CallInOrder'
  <2>1. sending # None => sending.body.names \subseteq Members
    BY SendingTyped DEF Content
  <2> QED
    BY <1>1, <1>2, <1>7, <2>1 DEF Ordered, CallInOrder, Again
<1> QED
  BY <1>4, <1>5, <1>6, <1>7

\* The server refuses a request for a name only if that member was edited again.
LEMMA ServerTakesOrdered ==
    ASSUME Inv, Ordered, ServerTakes
    PROVE  Ordered'
<1>1. /\ sending # None /\ sending.answer = "none"
      /\ Handled(sending.row, sending.body, sending.base)
      /\ sending' = Answered(sending) /\ UNCHANGED <<device, batch>>
  BY DEF ServerTakes
<1>2. /\ sending.row \in Rows /\ sending.body \in Content /\ sending \in Call
      /\ sending.row \in Members => sending.body.names = {}
  BY <1>1, SendingTyped DEF Inv, CallFits
<1>3. ServerMoves
  BY <1>1, <1>2, HandledMoves DEF Inv
<1>4. NewQueued' /\ NamedBefore' /\ RoundInOrder'
  BY <1>1, <1>3, ServerOrdered
<1>5. local' = local /\ queue' = queue /\ batch' = batch
  BY <1>1 DEF device
<1>6. CallInOrder'
  <2> DEFINE refusal == Refusal(sending.row, sending.body, sending.base)
  <2>1. /\ sending'.body = sending.body
        /\ sending'.answer = IF refusal = None THEN "stored" ELSE refusal
    BY <1>1, <1>2 DEF Answered, Call
  <2>2. refusal \in Reasons \cup {None} /\ None \notin Reasons
    BY Nothing DEF Refusal, Reasons
  <2>3. refusal = "unknown" => \E m \in sending.body.names : server[m] = None
    <3>1. refusal = "unknown" => ~(sending.body.names \subseteq Known(server))
      BY Nothing DEF Refusal, Reasons
    <3>2. sending.body.names \subseteq Members
      BY <1>2 DEF Content
    <3> QED
      BY <3>1, <3>2 DEF Known
  <2> HIDE DEF refusal
  <2>4. \A m \in Members : Again(m)' = Again(m)
    BY <1>5 DEF Again
  <2>5. sending'.answer # "none"
    BY <2>1, <2>2 DEF Reasons
  <2>6. sending'.answer = "unknown" => refusal = "unknown"
    BY <2>1
  <2> QED
    BY <1>1, <1>5, <2>1, <2>3, <2>5, <2>6 DEF Ordered, CallInOrder, Again
<1> QED
  BY <1>4, <1>6 DEF Ordered

\* A round takes the member first: it waits in an earlier place.
LEMMA NextRoundOrdered ==
    ASSUME Inv, Ordered, NextRound
    PROVE  Ordered'
<1>1. sending = None /\ batch' = Due /\ UNCHANGED <<remote, device, sending>>
  BY DEF NextRound
<1>2. UNCHANGED <<server, local, queue>>
  BY <1>1 DEF remote, device
<1>3. PICK n \in 0..Cardinality(Waiting) : Due = [i \in 1..n |-> AsTaken(Pending[i])]
  BY DueIsPrefix DEF Inv
<1>4. /\ Cardinality(Waiting) \in Nat
      /\ \A i \in 1..Cardinality(Waiting) : Pending[i] \in Waiting /\ Place(Pending[i]) = i
      /\ \A r \in Waiting : Place(r) \in 1..Cardinality(Waiting) /\ Pending[Place(r)] = r
      /\ \A r, q \in Waiting : queue[q].position < queue[r].position => Place(q) < Place(r)
  BY PendingInOrder DEF Inv
<1>5. /\ n \in Nat /\ Len(Due) = n /\ 1..n \subseteq 1..Cardinality(Waiting)
      /\ \A i \in 1..n : Due[i] = AsTaken(Pending[i])
  BY <1>3, <1>4
<1>6. \A r \in Waiting : r \in Rows /\ queue[r] # None
  BY DEF Waiting, Unsent
<1>7. RoundInOrder'
  <2> SUFFICES ASSUME NEW j \in 1..n
               PROVE  /\ IsCurrent(Due[j])
                      /\ Due[j].position = Due[j].revision =>
                            \A m \in local[Due[j].row].names : server[m] = None =>
                                \E i \in 1..(j - 1) : Due[i].row = m
    BY <1>1, <1>2, <1>5 DEF RoundInOrder, IsCurrent
  <2> DEFINE r == Pending[j]
  <2>1. r \in Waiting /\ Place(r) = j
    BY <1>4, <1>5
  <2> HIDE DEF r
  <2>2. Due[j].row = r /\ Due[j].revision = queue[r].revision /\ Due[j].position = queue[r].position
    BY <1>5 DEF AsTaken, r
  <2>3. IsCurrent(Due[j])
    BY <1>6, <2>1, <2>2 DEF IsCurrent
  <2>4. ASSUME Due[j].position = Due[j].revision, NEW m \in local[r].names, server[m] = None
        PROVE  \E i \in 1..(j - 1) : Due[i].row = m
    <3>1. m \in Members /\ m \in Rows
      BY <1>6, <2>1, <2>4, NamesTyped DEF Inv, QueueFits
    <3>2. local[m] # None /\ queue[m].position < queue[r].position
      BY <1>6, <2>1, <2>2, <2>4 DEF Ordered, NamedBefore
    <3>3. m \in Waiting
      BY <2>4, <3>1, <3>2 DEF Ordered, NewQueued, Waiting, Unsent
    <3>4. Place(m) < j /\ Place(m) \in 1..Cardinality(Waiting) /\ Pending[Place(m)] = m
      BY <1>4, <2>1, <3>2, <3>3
    <3>5. Place(m) \in 1..(j - 1) /\ Place(m) \in 1..n
      BY <1>4, <1>5, <3>4
    <3>6. Due[Place(m)].row = m
      BY <1>5, <3>4, <3>5 DEF AsTaken
    <3> QED
      BY <3>5, <3>6
  <2> QED
    BY <2>2, <2>3, <2>4
<1>8. NewQueued' /\ NamedBefore' /\ CallInOrder'
  BY <1>1, <1>2 DEF Ordered, NewQueued, NamedBefore, CallInOrder
<1> QED
  BY <1>7, <1>8 DEF Ordered

\* A queue that is trimmed, but for members the server does not have.
LEMMA TrimOrdered ==
    ASSUME Inv, Ordered, Trimmed, server' = server, local' = local,
           \A m \in Members : (server[m] = None /\ queue[m] # None) =>
               queue'[m] # None /\ (queue[m].refused = None => queue'[m].refused = None)
    PROVE  /\ NewQueued' /\ NamedBefore'
           /\ \A m \in Members : (server[m] = None /\ Again(m)) => Again(m)'
           /\ batch' = batch => RoundInOrder'
<1>1. \A r \in Rows : queue'[r] # None => /\ queue[r] # None
                                          /\ queue'[r].revision = queue[r].revision
                                          /\ queue'[r].position = queue[r].position
  BY DEF Trimmed
<1>2. \A m \in Members : m \in Rows
  BY DEF Rows
<1>3. NewQueued'
  BY DEF Ordered, NewQueued
<1>4. NamedBefore'
  <2> SUFFICES ASSUME NEW r \in Rows, queue'[r] # None, NEW m \in local[r].names, server[m] = None
               PROVE  local[m] # None /\ queue'[m].position < queue'[r].revision
    BY DEF NamedBefore
  <2>1. local[m] # None /\ queue[m].position < queue[r].revision
    BY <1>1 DEF Ordered, NamedBefore
  <2>2. m \in Members
    BY <1>1, NamesTyped DEF Inv, QueueFits
  <2>3. queue'[m] # None
    BY <2>1, <2>2 DEF Ordered, NewQueued
  <2> QED
    BY <1>1, <1>2, <2>1, <2>2, <2>3
<1>5. \A m \in Members : (server[m] = None /\ Again(m)) => Again(m)'
  BY <1>1, <1>2 DEF Again
<1>6. ASSUME batch' = batch PROVE RoundInOrder'
  <2> SUFFICES ASSUME NEW j \in 1..Len(batch)
               PROVE  /\ (batch[j].row \in Members /\ server[batch[j].row] = None) =>
                             IsCurrent(batch[j])' \/ Again(batch[j].row)'
                      /\ (IsCurrent(batch[j])' /\ batch[j].position = batch[j].revision) =>
                             \A m \in local[batch[j].row].names : server[m] = None =>
                                 Again(m)' \/ \E i \in 1..(j - 1) : batch[i].row = m
    BY <1>6 DEF RoundInOrder, IsCurrent, Again
  <2>1. batch[j].row \in Rows
    BY NamesTyped DEF Inv
  <2>2. IsCurrent(batch[j])' => IsCurrent(batch[j])
    BY <1>1, <1>6, <2>1 DEF IsCurrent
  <2>3. (batch[j].row \in Members /\ server[batch[j].row] = None /\ IsCurrent(batch[j])) =>
            IsCurrent(batch[j])'
    BY <1>1, <1>6, <2>1 DEF IsCurrent
  <2>4. IsCurrent(batch[j]) => local[batch[j].row].names \subseteq Members
    BY <2>1, NamesTyped DEF IsCurrent, Inv, QueueFits
  <2>5. /\ (batch[j].row \in Members /\ server[batch[j].row] = None) =>
              IsCurrent(batch[j]) \/ Again(batch[j].row)
        /\ (IsCurrent(batch[j]) /\ batch[j].position = batch[j].revision) =>
              \A m \in local[batch[j].row].names : server[m] = None =>
                  Again(m) \/ \E i \in 1..(j - 1) : batch[i].row = m
    BY DEF Ordered, RoundInOrder
  <2>6. (batch[j].row \in Members /\ server[batch[j].row] = None /\ Again(batch[j].row)) =>
            Again(batch[j].row)'
    BY <1>5, <1>6 DEF Again
  <2>7. ASSUME IsCurrent(batch[j])', batch[j].position = batch[j].revision,
               NEW m \in local[batch[j].row].names, server[m] = None
        PROVE  Again(m)' \/ \E i \in 1..(j - 1) : batch[i].row = m
    BY <1>5, <2>2, <2>4, <2>5, <2>7
  <2> QED
    BY <2>3, <2>5, <2>6, <2>7
<1> QED
  BY <1>3, <1>4, <1>5, <1>6

\* The first item leaves the round: a member the server does not have only when
\* it was edited again.
LEMMA TailInOrder ==
    ASSUME Inv, Ordered, Trimmed, server' = server, local' = local, batch # <<>>, batch' = Tail(batch),
           \A m \in Members : (server[m] = None /\ queue[m] # None) =>
               queue'[m] # None /\ (queue[m].refused = None => queue'[m].refused = None),
           (batch[1].row \in Members /\ server[batch[1].row] = None) => Again(batch[1].row)
    PROVE  RoundInOrder'
<1>1. /\ Len(batch) \in Nat /\ Len(batch) >= 1 /\ Len(batch') = Len(batch) - 1
      /\ \A i \in 1..Len(batch') : i + 1 \in 1..Len(batch) /\ batch'[i] = batch[i + 1]
  BY TailOf DEF Inv, TablesTyped
<1>2. \A r \in Rows : queue'[r] # None => /\ queue[r] # None
                                          /\ queue'[r].revision = queue[r].revision
                                          /\ queue'[r].position = queue[r].position
  BY DEF Trimmed
<1>3. \A m \in Members : (server[m] = None /\ Again(m)) => Again(m)'
  BY TrimOrdered
<1> SUFFICES ASSUME NEW j \in 1..Len(batch')
             PROVE  /\ (batch'[j].row \in Members /\ server'[batch'[j].row] = None) =>
                           IsCurrent(batch[j])' \/ Again(batch[j].row)'
                    /\ (IsCurrent(batch[j])' /\ batch'[j].position = batch'[j].revision) =>
                           \A m \in local'[batch'[j].row].names : server'[m] = None =>
                               Again(m)' \/ \E i \in 1..(j - 1) : batch'[i].row = m
  BY DEF RoundInOrder
<1> DEFINE k == j + 1
           item == batch[k]
<1>4. k \in 1..Len(batch) /\ batch'[j] = item /\ k - 1 = j
  BY <1>1
<1> HIDE DEF k
<1>5. item.row \in Rows
  BY <1>4, NamesTyped DEF Inv
<1>6. /\ (item.row \in Members /\ server[item.row] = None) => IsCurrent(item) \/ Again(item.row)
      /\ (IsCurrent(item) /\ item.position = item.revision) =>
            \A m \in local[item.row].names : server[m] = None =>
                Again(m) \/ \E i \in 1..(k - 1) : batch[i].row = m
  BY <1>4 DEF Ordered, RoundInOrder
<1>7. IsCurrent(item) => local[item.row].names \subseteq Members
  BY <1>5, NamesTyped DEF IsCurrent, Inv, QueueFits
<1> HIDE DEF item
<1>8. IsCurrent(batch[j])' <=> queue'[item.row] # None /\ queue'[item.row].revision = item.revision
  BY <1>4 DEF IsCurrent
<1>9. IsCurrent(batch[j])' => IsCurrent(item)
  BY <1>2, <1>5, <1>8 DEF IsCurrent
<1>10. ASSUME item.row \in Members, server[item.row] = None
       PROVE  IsCurrent(batch[j])' \/ Again(batch[j].row)'
  <2>1. CASE IsCurrent(item)
    BY <1>2, <1>5, <1>8, <1>10, <2>1 DEF IsCurrent
  <2>2. CASE Again(item.row)
    BY <1>3, <1>4, <1>10, <2>2 DEF Again
  <2> QED
    BY <1>6, <1>10, <2>1, <2>2
<1>11. ASSUME IsCurrent(item), item.position = item.revision,
              NEW m \in local[item.row].names, server[m] = None
       PROVE  Again(m)' \/ \E i \in 1..(j - 1) : batch'[i].row = m
  <2>1. m \in Members
    BY <1>7, <1>11
  <2>2. CASE Again(m)
    BY <1>3, <1>11, <2>1, <2>2
  <2>3. ASSUME NEW i \in 1..(k - 1), batch[i].row = m
        PROVE  Again(m)' \/ \E h \in 1..(j - 1) : batch'[h].row = m
    <3>1. CASE i = 1
      BY <1>3, <1>11, <2>1, <2>3, <3>1
    <3>2. CASE i # 1
      <4>1. i - 1 \in 1..(j - 1) /\ i - 1 \in 1..Len(batch') /\ (i - 1) + 1 = i
        BY <1>1, <1>4, <3>2
      <4>2. batch'[i - 1] = batch[i]
        BY <1>1, <4>1
      <4> QED
        BY <2>3, <4>1, <4>2
    <3> QED
      BY <3>1, <3>2
  <2> QED
    BY <1>6, <1>11, <2>2, <2>3
<1> QED
  BY <1>4, <1>9, <1>10, <1>11

\* The head of the round has nothing before it.
LEMMA SendNextOrdered ==
    ASSUME Inv, Ordered, SendNext
    PROVE  Ordered'
<1> DEFINE item == Head(batch)
<1>1. /\ batch # <<>> /\ sending = None /\ UNCHANGED <<remote, device, batch>> /\ IsCurrent(item)
      /\ sending' = [row |-> item.row, revision |-> item.revision,
                     body |-> ContentOf(local[item.row]),
                     base |-> local[item.row].base, answer |-> "none", seq |-> 0]
  BY DEF SendNext
<1>2. UNCHANGED <<server, local, queue>>
  BY <1>1 DEF remote, device
<1>3. item = batch[1] /\ Len(batch) \in Nat /\ Len(batch) >= 1
  BY <1>1, TailOf DEF Inv, TablesTyped
<1>4. 1 \in 1..Len(batch)
  BY <1>3
<1>5. NewQueued' /\ NamedBefore'
  BY <1>2 DEF Ordered, NewQueued, NamedBefore
<1>6. RoundInOrder'
  BY <1>1, <1>2 DEF Ordered, RoundInOrder, IsCurrent, Again
<1>7. ASSUME item.position = item.revision, NEW m \in local[item.row].names, server[m] = None
      PROVE  Again(m)
  <2>1. Again(m) \/ \E i \in 1..(1 - 1) : batch[i].row = m
    BY <1>1, <1>3, <1>4, <1>7 DEF Ordered, RoundInOrder
  <2>2. 1..(1 - 1) = {}
    OBVIOUS
  <2> QED
    BY <2>1, <2>2
<1>8. sending'.answer = "none" /\ sending'.body.names = local[item.row].names
  BY <1>1 DEF ContentOf
<1>9. CallInOrder'
  BY <1>1, <1>2, <1>7, <1>8 DEF CallInOrder, Again
<1> QED
  BY <1>5, <1>6, <1>9 DEF Ordered

\* What is passed over is no member the server does not have, unless that was
\* edited again.
LEMMA PassOverOrdered ==
    ASSUME Inv, Ordered, PassOver
    PROVE  Ordered'
<1>1. /\ batch # <<>> /\ batch' = Tail(batch) /\ sending' = None /\ UNCHANGED <<remote, local>>
  BY DEF PassOver
<1>2. server' = server
  BY <1>1 DEF remote
<1>3. Len(batch) \in Nat /\ Len(batch) >= 1
  BY <1>1, TailOf DEF Inv, TablesTyped
<1>4. 1 \in 1..Len(batch)
  BY <1>3
<1>5. NeverSent(batch[1].row) => batch[1].row \notin Members
  BY RowsAssumption DEF NeverSent
<1>6. (batch[1].row \in Members /\ server[batch[1].row] = None) => Again(batch[1].row)
  BY <1>4, <1>5, PassesOver DEF Ordered, RoundInOrder
<1>7. \A m \in Members : queue'[m] = queue[m]
  BY <1>5, PassesOver DEF Dequeued, Rows
<1>8. Trimmed
  BY PassesOver
<1>9. NewQueued' /\ NamedBefore'
  BY <1>1, <1>2, <1>7, <1>8, TrimOrdered
<1>10. RoundInOrder'
  BY <1>1, <1>2, <1>6, <1>7, <1>8, TailInOrder
<1>11. CallInOrder'
  BY <1>1 DEF CallInOrder
<1> QED
  BY <1>9, <1>10, <1>11 DEF Ordered

\* The end of a request.
LEMMA RequestEndsOrdered ==
    ASSUME Inv, Ordered, Complete \/ Park \/ SetAside \/ Lost
    PROVE  Ordered'
<1> DEFINE r == sending.row
<1>1. /\ sending # None /\ sending' = None /\ UNCHANGED <<remote, local>>
      /\ Complete \/ Park \/ SetAside => batch' = Tail(batch)
      /\ Lost => batch' = <<>>
  BY DEF Complete, Park, SetAside, Lost, NextItem
<1>2. server' = server
  BY <1>1 DEF remote
<1>3. r \in Rows /\ queue[r] # None /\ queue[r] \in Item /\ queue \in [Rows -> Item \cup {None}]
  BY <1>1, SendingTyped DEF Inv, TablesTyped
<1>4. \/ queue' = queue
      \/ Complete /\ queue' = Dequeued(r)
      \/ Park /\ queue' = Dequeued(r)
      \/ SetAside /\ sending.answer \in Reasons /\ queue' = [queue EXCEPT ![r].refused = sending.answer]
      \/ queue' = [queue EXCEPT ![r].due = FALSE]
  BY DEF Complete, Park, SetAside, Lost
<1>5. Trimmed
  BY <1>3, <1>4, MarkTrims DEF Inv
<1>6. Complete \/ Park \/ SetAside => (r \in Members => server[r] # None)
  <2>1. CASE Complete
    BY <1>1, <2>1 DEF Complete, Inv, CallFits
  <2>2. CASE Park
    BY <2>2, RowsAssumption DEF Park
  <2>3. CASE SetAside
    <3>1. sending.answer \in {"stale", "forbidden"} => server[r] # None
      BY <1>1 DEF Inv, CallFits
    <3>2. (sending.answer = "unknown" => sending.body.names # {}) /\ (r \in Members => sending.body.names = {})
      BY <1>1 DEF Inv, CallFits
    <3>3. sending.answer \in {"stale", "forbidden", "unknown"}
      BY <2>3 DEF SetAside, Reasons
    <3> QED
      BY <3>1, <3>2, <3>3
  <2> QED
    BY <2>1, <2>2, <2>3
<1>7. ASSUME NEW m \in Members, server[m] = None, queue[m] # None
      PROVE  queue'[m] # None /\ (queue[m].refused = None => queue'[m].refused = None)
  <2>0. m \in Rows
    BY DEF Rows
  <2>1. CASE m = r
    <3>1. queue' = queue \/ queue' = [queue EXCEPT ![r].due = FALSE]
      BY <1>4, <1>6, <1>7, <2>1
    <3>2. [queue[r] EXCEPT !.due = FALSE] \in Item
          /\ [queue[r] EXCEPT !.due = FALSE].refused = queue[r].refused
      BY <1>3 DEF Item
    <3>3. queue'[r] = queue[r] \/ queue'[r] = [queue[r] EXCEPT !.due = FALSE]
      BY <1>3, <3>1
    <3> HIDE DEF r
    <3> QED
      BY <1>7, <2>1, <3>2, <3>3, Nothing
  <2>2. CASE m # r
    <3>1. queue'[m] = queue[m]
      BY <1>3, <1>4, <2>0, <2>2 DEF Dequeued
    <3> QED
      BY <1>7, <3>1
  <2> QED
    BY <2>1, <2>2
<1>8. NewQueued' /\ NamedBefore'
  BY <1>1, <1>2, <1>5, <1>7, TrimOrdered
<1>9. RoundInOrder'
  <2>1. CASE batch' = <<>>
    BY <2>1 DEF RoundInOrder
  <2>2. CASE Complete \/ Park \/ SetAside
    <3>1. batch # <<>> /\ Head(batch).row = r
      BY <1>1 DEF Inv, RunFits
    <3>2. batch[1].row = r
      BY <3>1, TailOf DEF Inv, TablesTyped
    <3> HIDE DEF r
    <3>3. ~(batch[1].row \in Members /\ server[batch[1].row] = None)
      BY <1>6, <2>2, <3>2
    <3>4. batch' = Tail(batch)
      BY <1>1, <2>2
    <3> QED
      BY <1>1, <1>2, <1>5, <1>7, <3>1, <3>3, <3>4, TailInOrder
  <2> QED
    BY <1>1, <2>1, <2>2
<1>10. CallInOrder'
  BY <1>1 DEF CallInOrder
<1> QED
  BY <1>8, <1>9, <1>10 DEF Ordered

\* Items marked ready, whatever the run is doing.
LEMMA MarksOrdered ==
    ASSUME Inv, Ordered, RetryRefused \/ \E r \in Rows : BackOffEnds(r)
    PROVE  Ordered'
<1>1. UNCHANGED <<remote, local, run>>
  BY DEF RetryRefused, BackOffEnds
<1>2. server' = server /\ batch' = batch /\ sending' = sending
  BY <1>1 DEF remote, run
<1>3. ASSUME NEW q \in Rows, queue[q] # None
      PROVE  /\ queue'[q] \in Item /\ queue'[q] # None
             /\ queue'[q].revision = queue[q].revision /\ queue'[q].position = queue[q].position
             /\ queue[q].refused = None => queue'[q].refused = None
  <2> DEFINE due == [queue[q] EXCEPT !.due = TRUE]
             again == [queue[q] EXCEPT !.refused = None, !.due = TRUE]
  <2>1. queue[q] \in Item /\ queue \in [Rows -> Item \cup {None}]
    BY <1>3 DEF Inv, TablesTyped
  <2>2. /\ due \in Item /\ due.revision = queue[q].revision /\ due.position = queue[q].position
        /\ due.refused = queue[q].refused
        /\ again \in Item /\ again.revision = queue[q].revision /\ again.position = queue[q].position
        /\ again.refused = None
    BY <2>1 DEF Item
  <2>3. queue'[q] \in {queue[q], due, again}
    <3>1. CASE RetryRefused
      BY <3>1 DEF RetryRefused
    <3>2. ASSUME NEW r \in Rows, BackOffEnds(r) PROVE queue'[q] \in {queue[q], due, again}
      BY <2>1, <3>2 DEF BackOffEnds
    <3> QED
      BY <3>1, <3>2
  <2> HIDE DEF due, again
  <2> QED
    BY <1>3, <2>1, <2>2, <2>3, Nothing
<1>4. \A q \in Rows : queue[q] = None => queue'[q] = None
  <2> SUFFICES ASSUME NEW q \in Rows, queue[q] = None PROVE queue'[q] = None
    OBVIOUS
  <2>1. queue \in [Rows -> Item \cup {None}]
    BY DEF Inv, TablesTyped
  <2>2. CASE RetryRefused
    BY <2>2 DEF RetryRefused, Refused, Unsent
  <2>3. ASSUME NEW r \in Rows, BackOffEnds(r) PROVE queue'[q] = None
    BY <2>1, <2>3 DEF BackOffEnds
  <2> QED
    BY <2>2, <2>3
<1>5. Trimmed
  <2>1. Inv'
    BY RetryRefusedKeeps, BackOffEndsKeeps
  <2> QED
    BY <1>3, <1>4, <2>1 DEF Trimmed, Inv, TablesTyped
<1>6. \A m \in Members : (server[m] = None /\ queue[m] # None) =>
          queue'[m] # None /\ (queue[m].refused = None => queue'[m].refused = None)
  BY <1>3, NamesTyped DEF Inv
<1>7. NewQueued' /\ NamedBefore' /\ RoundInOrder'
  BY <1>1, <1>2, <1>5, <1>6, TrimOrdered
<1>8. CallInOrder'
  <2>1. \A m \in Members : Again(m) => Again(m)'
    BY <1>1, <1>3, NamesTyped DEF Again, Inv
  <2>2. sending # None => sending.body.names \subseteq Members
    BY SendingTyped DEF Content
  <2> QED
    BY <1>2, <2>1, <2>2 DEF Ordered, CallInOrder
<1> QED
  BY <1>7, <1>8 DEF Ordered

\* The answer is recorded: the server has this row.
LEMMA AcknowledgeOrdered ==
    ASSUME Inv, Ordered, Acknowledge
    PROVE  Ordered'
<1> DEFINE r == sending.row
           new == [local[r] EXCEPT !.base = sending.seq]
<1>1. /\ sending # None /\ sending.answer = "stored"
      /\ local' = [local EXCEPT ![r] = new]
      /\ sending' = [sending EXCEPT !.answer = "recorded"]
      /\ UNCHANGED <<remote, queue, batch>>
  BY DEF Acknowledge
<1>2. server' = server /\ queue' = queue /\ batch' = batch
  BY <1>1 DEF remote
<1>3. /\ sending \in Call /\ r \in Rows /\ sending.seq \in Nat
      /\ queue[r] # None /\ local[r] # None /\ local[r] \in LocalRow
  BY <1>1, SendingTyped
<1>4. new \in LocalRow /\ new # None /\ new.names = local[r].names
  BY <1>3, Nothing DEF LocalRow
<1>5. server[r] # None
  BY <1>1 DEF Inv, CallFits
<1>6. sending'.answer = "recorded"
  BY <1>1, <1>3 DEF Call
<1> HIDE DEF new, r
<1>7. /\ \A q \in Rows : q # r => local'[q] = local[q]
      /\ \A q \in Rows : /\ local'[q] # None <=> local[q] # None
                         /\ local[q] # None => local'[q].names = local[q].names
      /\ local \in [Rows -> LocalRow \cup {None}]
  BY <1>1, <1>3, <1>4 DEF Inv, TablesTyped
<1>8. NewQueued'
  BY <1>2, <1>7, NamesTyped DEF Ordered, NewQueued, Inv
<1>9. NamedBefore'
  <2> SUFFICES ASSUME NEW q \in Rows, queue[q] # None, NEW m \in local[q].names, server[m] = None
               PROVE  local'[m] # None /\ queue[m].position < queue[q].revision
    BY <1>2, <1>7 DEF NamedBefore, Inv, QueueFits
  <2>1. m \in Rows
    BY NamesTyped DEF Inv, QueueFits
  <2> QED
    BY <1>7, <2>1 DEF Ordered, NamedBefore
<1>10. \A m \in Members : server[m] = None => (Again(m)' <=> Again(m))
  BY <1>2, <1>5, <1>7, NamesTyped DEF Again, Inv
<1>11. RoundInOrder'
  <2> SUFFICES ASSUME NEW j \in 1..Len(batch)
               PROVE  /\ (batch[j].row \in Members /\ server[batch[j].row] = None) =>
                             IsCurrent(batch[j]) \/ Again(batch[j].row)'
                      /\ (IsCurrent(batch[j]) /\ batch[j].position = batch[j].revision) =>
                             \A m \in local'[batch[j].row].names : server[m] = None =>
                                 Again(m)' \/ \E i \in 1..(j - 1) : batch[i].row = m
    BY <1>2 DEF RoundInOrder, IsCurrent, Again
  <2>1. batch[j].row \in Rows
    BY NamesTyped DEF Inv
  <2>2. IsCurrent(batch[j]) => /\ local[batch[j].row].names \subseteq Members
                               /\ local'[batch[j].row].names = local[batch[j].row].names
    BY <1>7, <2>1, NamesTyped DEF IsCurrent, Inv, QueueFits
  <2>3. (batch[j].row \in Members /\ server[batch[j].row] = None /\ Again(batch[j].row)) =>
            Again(batch[j].row)'
    BY <1>2, <1>10 DEF Again
  <2> QED
    BY <1>10, <2>2, <2>3 DEF Ordered, RoundInOrder
<1>12. CallInOrder'
  BY <1>6 DEF CallInOrder
<1> QED
  BY <1>8, <1>9, <1>11, <1>12 DEF Ordered

\* A run that starts, asks or stops.
LEMMA RunOrdered ==
    ASSUME Inv, Ordered, UNCHANGED <<server, local, queue>>,
           \/ batch' = batch /\ sending' = sending
           \/ batch' = <<>> /\ sending' = None
    PROVE  Ordered'
<1>1. NewQueued' /\ NamedBefore'
  BY DEF Ordered, NewQueued, NamedBefore
<1>2. CASE batch' = batch /\ sending' = sending
  BY <1>1, <1>2 DEF Ordered, RoundInOrder, CallInOrder, IsCurrent, Again
<1>3. CASE batch' = <<>> /\ sending' = None
  BY <1>1, <1>3 DEF Ordered, RoundInOrder, CallInOrder
<1> QED
  BY <1>2, <1>3

\* A page brings no row the server does not have, and takes none away.
LEMMA ApplyOrdered ==
    ASSUME Inv, Ordered, Apply
    PROVE  Ordered'
<1>1. /\ page # None /\ local' = Merged(page, Unsent)
      /\ UNCHANGED <<remote, queue, batch, sending>>
  BY DEF Apply
<1>2. server' = server /\ batch = <<>> /\ sending = None
  BY <1>1 DEF remote, Inv, RunFits
<1>3. \A r \in Rows : /\ local'[r] = local[r] \/ (local'[r] # None /\ server[r] # None /\ queue[r] = None)
  BY <1>1, MergedFits DEF Inv, PageFits
<1>4. NewQueued'
  BY <1>1, <1>2, <1>3, NamesTyped DEF Ordered, NewQueued, Inv
<1>5. NamedBefore'
  <2> SUFFICES ASSUME NEW r \in Rows, queue[r] # None, NEW m \in local[r].names, server[m] = None
               PROVE  local'[m] # None /\ queue[m].position < queue[r].revision
    BY <1>1, <1>2, <1>3 DEF NamedBefore
  <2>1. m \in Rows
    BY NamesTyped DEF Inv, QueueFits
  <2> QED
    BY <1>3, <2>1 DEF Ordered, NamedBefore
<1> QED
  BY <1>1, <1>2, <1>4, <1>5 DEF Ordered, RoundInOrder, CallInOrder

\* An edit of a row naming a member comes after it; one of the member itself
\* keeps its place.
LEMMA EditOrdered ==
    ASSUME Inv, Ordered, NEW r \in Rows, NEW content \in Writes(r, local[r]), Edit(r, content)
    PROVE  Ordered'
<1>1. /\ UNCHANGED <<remote, run>>
      /\ \A q \in Rows : q # r => local'[q] = local[q] /\ queue'[q] = queue[q]
      /\ local'[r] # None /\ local'[r].names = content.names
      /\ content.names \subseteq LocalMembers(local) /\ (r \in Members => content.names = {})
      /\ local'[r].base = IF local[r] = None THEN None ELSE local[r].base
      /\ queue'[r] # None /\ queue'[r].revision = edits + 1 /\ queue'[r].refused = None
      /\ queue'[r].position = IF queue[r] = None \/ local[r].base # None
                              THEN edits + 1 ELSE queue[r].position
  BY EditWrites
<1>2. server' = server /\ batch' = batch /\ sending' = sending
  BY <1>1 DEF remote, run
<1>3. /\ edits \in Nat
      /\ \A m \in Members : m \in Rows
      /\ \A q \in Rows : queue[q] # None =>
             /\ local[q] # None /\ local[q].names \subseteq Members
             /\ queue[q].position \in Nat /\ queue[q].revision \in Nat
             /\ queue[q].position <= queue[q].revision /\ queue[q].revision <= edits
  BY NamesTyped DEF Inv, TablesTyped, QueueFits
<1>4. \A q \in Rows : (server[q] = None /\ local[q] # None) => local[q].base = None
  BY DEF Inv, CopyFits
<1>5. \A m \in Members : (server[m] = None /\ queue[m] # None) =>
          /\ queue'[m] # None /\ queue'[m].position = queue[m].position
  BY <1>1, <1>3, <1>4
<1>6. \A m \in Members : Again(m) => Again(m)'
  <2> SUFFICES ASSUME NEW m \in Members, Again(m) PROVE Again(m)'
    OBVIOUS
  <2>1. queue[m] # None /\ local[m].base = None /\ queue[m].position # queue[m].revision /\ local[m] # None
    BY <1>3 DEF Again
  <2>2. CASE m = r
    <3>1. queue'[r].position = queue[r].position /\ queue'[r].position # edits + 1
      BY <1>1, <1>3, <2>1, <2>2
    <3> QED
      BY <1>1, <2>1, <2>2, <3>1 DEF Again
  <2>3. CASE m # r
    BY <1>1, <1>3, <2>1, <2>3 DEF Again
  <2> QED
    BY <2>2, <2>3
<1>7. NewQueued'
  BY <1>1, <1>2, <1>3 DEF Ordered, NewQueued
<1>8. NamedBefore'
  <2> SUFFICES ASSUME NEW q \in Rows, queue'[q] # None, NEW m \in local'[q].names, server[m] = None
               PROVE  local'[m] # None /\ queue'[m].position < queue'[q].revision
    BY <1>2 DEF NamedBefore
  <2>1. CASE q = r
    <3>1. m \in Members /\ m \in Rows /\ local[m] # None
      BY <1>1, <1>3, <2>1 DEF LocalMembers
    <3>2. queue[m] # None /\ queue'[m].position = queue[m].position
      BY <1>5, <3>1 DEF Ordered, NewQueued
    <3>3. local'[m] # None
      BY <1>1, <3>1
    <3> QED
      BY <1>1, <1>3, <2>1, <3>1, <3>2, <3>3
  <2>2. CASE q # r
    <3>1. queue[q] # None /\ local'[q] = local[q] /\ queue'[q] = queue[q]
      BY <1>1, <2>2
    <3>2. m \in Members /\ m \in Rows
      BY <1>3, <3>1
    <3>3. local[m] # None /\ queue[m].position < queue[q].revision
      BY <3>1 DEF Ordered, NamedBefore
    <3>4. queue[m] # None
      BY <3>2, <3>3 DEF Ordered, NewQueued
    <3> QED
      BY <1>1, <1>5, <3>1, <3>2, <3>3, <3>4
  <2> QED
    BY <2>1, <2>2
<1>9. RoundInOrder'
  <2> SUFFICES ASSUME NEW j \in 1..Len(batch)
               PROVE  /\ (batch[j].row \in Members /\ server[batch[j].row] = None) =>
                             IsCurrent(batch[j])' \/ Again(batch[j].row)'
                      /\ (IsCurrent(batch[j])' /\ batch[j].position = batch[j].revision) =>
                             \A m \in local'[batch[j].row].names : server[m] = None =>
                                 Again(m)' \/ \E i \in 1..(j - 1) : batch[i].row = m
    BY <1>2 DEF RoundInOrder, IsCurrent, Again
  <2> DEFINE item == batch[j]
  <2>1. item.row \in Rows /\ item.revision \in Nat /\ item.revision <= edits
    BY NamesTyped DEF Inv, RunFits
  <2>2. /\ (item.row \in Members /\ server[item.row] = None) => IsCurrent(item) \/ Again(item.row)
        /\ (IsCurrent(item) /\ item.position = item.revision) =>
              \A m \in local[item.row].names : server[m] = None =>
                  Again(m) \/ \E i \in 1..(j - 1) : batch[i].row = m
    BY DEF Ordered, RoundInOrder
  <2> HIDE DEF item
  <2>3. IsCurrent(batch[j])' <=> queue'[item.row] # None /\ queue'[item.row].revision = item.revision
    BY <1>2 DEF IsCurrent, item
  <2>4. IsCurrent(batch[j])' => item.row # r
    BY <1>1, <1>3, <2>1, <2>3
  <2>5. item.row # r => (IsCurrent(batch[j])' <=> IsCurrent(item)) /\ local'[item.row] = local[item.row]
    BY <1>1, <2>1, <2>3 DEF IsCurrent
  <2>6. ASSUME item.row \in Members, server[item.row] = None
        PROVE  IsCurrent(batch[j])' \/ Again(batch[j].row)'
    <3>0. Again(batch[j].row)' <=> /\ queue'[item.row] # None /\ local'[item.row].base = None
                                   /\ queue'[item.row].position # queue'[item.row].revision
      BY <1>2 DEF Again, item
    <3>1. CASE item.row # r /\ IsCurrent(item)
      BY <2>5, <3>1
    <3>2. CASE item.row # r /\ Again(item.row)
      BY <1>1, <2>1, <3>0, <3>2 DEF Again
    <3>3. CASE item.row = r
      <4>1. queue[r] # None
        BY <2>2, <2>6, <3>3 DEF IsCurrent, Again
      <4>2. local[r] # None /\ local[r].base = None
        BY <1>3, <1>4, <2>6, <3>3, <4>1
      <4>3. queue'[r].position = queue[r].position /\ queue'[r].position # edits + 1
        BY <1>1, <1>3, <4>1, <4>2
      <4> QED
        BY <1>1, <3>0, <3>3, <4>2, <4>3
    <3> QED
      BY <2>2, <2>6, <3>1, <3>2, <3>3
  <2>7. ASSUME IsCurrent(batch[j])', item.position = item.revision,
               NEW m \in local'[item.row].names, server[m] = None
        PROVE  Again(m)' \/ \E i \in 1..(j - 1) : batch[i].row = m
    <3>1. item.row # r /\ IsCurrent(item) /\ local'[item.row] = local[item.row]
      BY <2>4, <2>5, <2>7
    <3>2. m \in Members
      BY <1>3, <2>1, <2>7, <3>1 DEF IsCurrent
    <3> QED
      BY <1>6, <2>2, <2>7, <3>1, <3>2
  <2> QED
    BY <2>6, <2>7 DEF item
<1>10. CallInOrder'
  <2>1. sending # None => sending.body.names \subseteq Members
    BY SendingTyped DEF Content
  <2> QED
    BY <1>2, <1>6, <2>1 DEF Ordered, CallInOrder
<1> QED
  BY <1>7, <1>8, <1>9, <1>10 DEF Ordered

\* Only what was refused is discarded, and nothing refused a member the server
\* does not have.
LEMMA DiscardOrdered ==
    ASSUME Inv, Ordered, DiscardRefused
    PROVE  Ordered'
<1>1. /\ step = "idle" /\ Trimmed
      /\ \A r \in Rows : queue'[r] # queue[r] => queue[r].refused # None
      /\ \A r \in Rows : local'[r] = local[r] \/ (local'[r] = None /\ queue[r] # None
                                                  /\ queue[r].refused # None /\ queue'[r] = None)
      /\ UNCHANGED <<remote, run>>
  BY DiscardDrops
<1>2. server' = server /\ batch' = batch /\ sending' = sending /\ batch = <<>> /\ sending = None
  BY <1>1 DEF remote, run, Inv, RunFits
<1>3. \A m \in Members : (server[m] = None /\ local[m] # None) =>
          /\ queue[m] # None /\ queue'[m] = queue[m] /\ queue[m].refused = None /\ local'[m] # None
  BY <1>1, NamesTyped DEF Ordered, NewQueued, Inv
<1>4. NewQueued'
  <2> SUFFICES ASSUME NEW m \in Members, server[m] = None, local'[m] # None
               PROVE  queue'[m] # None /\ queue'[m].refused = None
    BY <1>2 DEF NewQueued
  <2>1. local[m] # None
    BY <1>1, NamesTyped DEF Inv
  <2> QED
    BY <1>3, <2>1
<1>5. NamedBefore'
  <2> SUFFICES ASSUME NEW r \in Rows, queue'[r] # None, NEW m \in local'[r].names, server[m] = None
               PROVE  local'[m] # None /\ queue'[m].position < queue'[r].revision
    BY <1>2 DEF NamedBefore
  <2>1. queue[r] # None /\ queue'[r].revision = queue[r].revision /\ local'[r] = local[r]
    BY <1>1 DEF Trimmed
  <2>2. m \in Members /\ m \in Rows
    BY <2>1, NamesTyped DEF Inv, QueueFits
  <2>3. local[m] # None /\ queue[m].position < queue[r].revision
    BY <2>1 DEF Ordered, NamedBefore
  <2> QED
    BY <1>3, <2>1, <2>2, <2>3
<1> QED
  BY <1>2, <1>4, <1>5 DEF Ordered, RoundInOrder, CallInOrder

\* Every step keeps the order.
LEMMA NextOrdered == Inv /\ Ordered /\ [Next]_vars => Ordered'
<1> SUFFICES ASSUME Inv, Ordered, [Next]_vars PROVE Ordered'
  OBVIOUS
<1>1. CASE (\E everything \in BOOLEAN : StartRun(everything)) \/ AskPage
           \/ PageLost \/ Crash \/ UNCHANGED vars
  <2>1. /\ UNCHANGED <<server, local, queue>>
        /\ \/ batch' = batch /\ sending' = sending
           \/ batch' = <<>> /\ sending' = None
    BY <1>1 DEF StartRun, AskPage, PageLost, Crash, vars, run, remote, device
  <2> QED
    BY <2>1, RunOrdered
<1>2. CASE Elsewhere \/ StrayArrives
  <2>1. ServerMoves
    BY <1>2, OthersMove, StrayMoves
  <2>2. UNCHANGED <<device, batch, sending>>
    BY <1>2 DEF Elsewhere, OthersWrite, Claim, StrayArrives, run
  <2> QED
    BY <2>1, <2>2, ServerOrdered DEF Ordered
<1>3. ASSUME NEW r \in Rows, NEW content \in Writes(r, local[r]), Edit(r, content) PROVE Ordered'
  BY <1>3, EditOrdered
<1> QED
  BY <1>1, <1>2, <1>3, NextRoundOrdered, SendNextOrdered, PassOverOrdered, ServerTakesOrdered,
     AcknowledgeOrdered, RequestEndsOrdered, MarksOrdered, ApplyOrdered, DiscardOrdered DEF Next, RunStep

\* An expense is refused for naming a member the server does not have only if
\* the expense, or such a member, was edited again before the server first took
\* it (_pendingInPushOrder and the barrier in sync_engine.dart).
THEOREM DeviceSendsInOrder == Spec => []SentInOrder
<1>1. Init => Ordered
  BY DEF Init, Ordered, NewQueued, NamedBefore, RoundInOrder, CallInOrder, Rows
<1>2. Spec => []Inv
  BY InitFits, NextFits, PTL DEF Spec
<1>3. Ordered => SentInOrder
  BY DEF Ordered, CallInOrder, SentInOrder, Again
<1> QED
  BY <1>1, <1>2, <1>3, NextOrdered, PTL DEF Spec

=============================================================================
