---------------------------- MODULE SyncRunProofs ----------------------------
(***************************************************************************)
(* SyncRun for any number of handlers, edits, changes, messages and faults  *)
(* of every kind: every variable keeps its type, the local copy is always a *)
(* whole prefix of the group's changes, and the app rests only with nothing *)
(* left to send or to read.                                                 *)
(***************************************************************************)
EXTENDS SyncRun, TLAPS, WellFoundedInduction

-----------------------------------------------------------------------------
(* Facts about the operators. *)

\* The least of some natural numbers is one of them, and below the others.
LEMMA LeastOf ==
    ASSUME NEW S \in SUBSET Nat, S # {}
    PROVE  Min(S) \in S /\ \A x \in S : Min(S) <= x
<1>1. IsWellFoundedOn({ss \in Nat \X Nat : ss[1] < ss[2]}, Nat)
  BY NatLessThanWellFounded DEF OpToRel
<1>2. \E x \in S : \A y \in S : ~(<<y, x>> \in {ss \in Nat \X Nat : ss[1] < ss[2]})
  BY <1>1, WFMin
<1>3. PICK x \in S : \A y \in S : ~(<<y, x>> \in {ss \in Nat \X Nat : ss[1] < ss[2]})
  BY <1>2
<1>4. ASSUME NEW y \in S PROVE x <= y
  <2>1. ~(<<y, x>> \in {ss \in Nat \X Nat : ss[1] < ss[2]})
    BY <1>3
  <2>2. <<y, x>> \in Nat \X Nat => ~(y < x)
    BY <2>1, Zenon
  <2> QED
    BY <2>2
<1> QED
  BY <1>4 DEF Min

\* Starting up, the coordinator is active.
LEMMA StartTyped == Started \in Coordinator /\ Started.active
  BY DEF Started, SyncAll, Begin, Coordinator

\* The coordinator's methods leave well-typed fields, and a drain goes on.
LEMMA CoordTyped ==
    ASSUME NEW c \in Coordinator
    PROVE  /\ SyncAll(c) \in Coordinator /\ (c.active => SyncAll(c).active)
           /\ SyncWrites(c) \in Coordinator /\ (c.active => SyncWrites(c).active)
           /\ SyncGroup(c) \in Coordinator /\ (c.active => SyncGroup(c).active)
           /\ WriteQueued(c) \in Coordinator /\ (c.active => WriteQueued(c).active)
<1>1. SyncAll(c) \in Coordinator /\ (c.active => SyncAll(c).active)
  BY DEF SyncAll, Begin, Coordinator
<1>2. ASSUME NEW d \in Coordinator
      PROVE  SyncWrites(d) \in Coordinator /\ (d.active => SyncWrites(d).active)
  BY DEF SyncWrites, Begin, Coordinator
<1>3. WriteQueued(c) \in Coordinator /\ (c.active => WriteQueued(c).active)
  BY DEF WriteQueued, Coordinator
<1>4. [c EXCEPT !.group = TRUE] \in Coordinator /\ [c EXCEPT !.group = TRUE].active = c.active
  BY DEF Coordinator
<1>5. SyncGroup(c) \in Coordinator /\ (c.active => SyncGroup(c).active)
  BY <1>1, <1>2, <1>4 DEF SyncGroup
<1> QED
  BY <1>1, <1>2, <1>3, <1>5

\* A timer that goes off is no longer armed, and that is all.
LEMMA TimerTyped ==
    ASSUME NEW c \in Coordinator
    PROVE  /\ [c EXCEPT !.writeTimer = FALSE] \in Coordinator
           /\ [c EXCEPT !.writeTimer = FALSE].active = c.active
           /\ [c EXCEPT !.retry = "none"] \in Coordinator
           /\ [c EXCEPT !.retry = "none"].active = c.active
  BY DEF Coordinator

\* A report leaves well-typed fields.
LEMMA ReportTyped ==
    ASSUME NEW c \in Coordinator, NEW full \in BOOLEAN, NEW due \in BOOLEAN,
           NEW error \in {"none", "failed", "update"}
    PROVE  Reported(c, full, error, due) \in Coordinator
<1> DEFINE seen == IF error = "none"
                   THEN [c EXCEPT !.error = error, !.synced = @ \/ full]
                   ELSE [c EXCEPT !.error = error, !.all = FALSE,
                                  !.partial = FALSE, !.group = FALSE]
<1>1. seen \in Coordinator
  BY DEF Coordinator
<1>2. ASSUME NEW d \in Coordinator PROVE ScheduleRetry(d, due) \in Coordinator
  BY ZenonT(30) DEF ScheduleRetry, Coordinator
<1> QED
  BY <1>1, <1>2 DEF Reported

\* A run that is over is well typed.
LEMMA IdleTyped == Idle \in Run
  BY IsolatesAssumption DEF Idle, Run, Places

-----------------------------------------------------------------------------
(* The invariant. *)

\* A run that may still write asks for, or holds, the page after the cursor.
Behind(i) ==
    /\ run[i].epoch <= session.epoch
    /\ run[i].at \in {"ask", "page"} =>
          /\ run[i].since \in Nat
          /\ Owns(i) /\ run[i].epoch = session.epoch => run[i].since = cursor
    /\ run[i].at = "page" => run[i].upto <= head
    /\ run[i].at = "page" /\ Owns(i) /\ run[i].epoch = session.epoch =>
          run[i].since <= run[i].upto

Whole == CopyIsWhole /\ \A i \in Isolates : Behind(i)

Inv == TypeOK /\ Whole

\* What another isolate does leaves a run behind its cursor ...
LEMMA StaysBehind ==
    ASSUME TypeOK, NEW i \in Isolates, Behind(i), run'[i] = run[i],
           session'.epoch = session.epoch, head' \in Nat, head <= head',
           lease'.owner = i => Owns(i) /\ cursor' = cursor
    PROVE  Behind(i)'
<1>1. run[i].upto \in Nat /\ head \in Nat
  BY DEF TypeOK, Run
<1> QED
  BY <1>1 DEF Behind, Owns

\* ... and one that is not reading pages has nothing to be behind of.
LEMMA NotReading ==
    ASSUME NEW i \in Isolates, run'[i].at \notin {"ask", "page"},
           run'[i].epoch <= session'.epoch
    PROVE  Behind(i)'
  BY DEF Behind

\* At launch nothing runs and nothing is copied.
LEMMA InitInv == Init => Inv
<1> SUFFICES ASSUME Init PROVE Inv
  OBVIOUS
<1>1. run \in [Isolates -> Run] /\ coord \in Coordinator
  BY IdleTyped, StartTyped DEF Init
<1>2. lease \in Lease /\ (lease.owner = None => lease = NoLease)
  BY DEF Init, NoLease, Lease
<1>3. \A i \in Isolates : run[i].at = "idle" /\ run[i].epoch = 0
  BY DEF Init, Idle
<1>4. run[App].at = "idle"
  BY <1>3 DEF Isolates
<1>5. TypeOK
  <2>1. session \in [epoch : Nat, enabled : BOOLEAN]
    BY DEF Init
  <2>2. asleep \subseteq Isolates
    BY DEF Init
  <2>3. /\ head \in Nat /\ written \in Nat /\ messages \in Nat /\ faults \in Nat
        /\ outbox \subseteq 1..written /\ taken \subseteq 1..written
        /\ cursor \in 0..head /\ owed \in 0..head /\ copy \subseteq 1..head
    BY DEF Init
  <2>4. retired \in BOOLEAN /\ backedOff \in BOOLEAN /\ up \in BOOLEAN /\ (backedOff => outbox # {})
    BY DEF Init
  <2> QED
    BY <1>1, <1>2, <1>4, <2>1, <2>2, <2>3, <2>4 DEF TypeOK
<1>6. Whole
  BY <1>3 DEF Init, Whole, CopyIsWhole, Behind
<1> QED
  BY <1>5, <1>6 DEF Inv

-----------------------------------------------------------------------------
(* The triggers.  They reach the coordinator and the outbox, never the copy. *)

\* A trigger leaves the invariant alone but for what it queues.
LEMMA TriggerKeeps ==
    ASSUME Inv, NEW changed \in Coordinator, coord.active => changed.active,
           Trigger(changed), written' \in Nat, outbox' \subseteq 1..written',
           written <= written', backedOff' \in BOOLEAN, backedOff' => outbox' # {},
           owed' \in 0..head
    PROVE  Inv'
<1>1. run[App].at # "idle" => changed.active
  BY DEF Inv, TypeOK
<1>2. TypeOK'
  BY <1>1 DEF Inv, TypeOK, Trigger, server, ledger, platform
<1>3. Whole'
  BY DEF Inv, Whole, Trigger, server, ledger, platform, CopyIsWhole, Behind, Owns
<1> QED
  BY <1>2, <1>3 DEF Inv

\* Every trigger, the start of a run, and leaving and entering the account.
LEMMA TriggersKeep ==
    ASSUME Inv,
           \/ Write \/ WriteTimerFires \/ RetryTimerFires \/ OpenGroup \/ Resumed
           \/ StartRun \/ BackoffEnds \/ SignOut \/ SignIn
    PROVE  Inv'
<1> USE DEF Inv
<1>0. /\ coord \in Coordinator /\ head \in Nat /\ written \in Nat /\ owed \in 0..head
      /\ outbox \subseteq 1..written /\ backedOff \in BOOLEAN
      /\ backedOff => outbox # {}
  BY DEF TypeOK
<1>1. CASE Write
  <2>1. WriteQueued(coord) \in Coordinator /\ (coord.active => WriteQueued(coord).active)
    BY <1>0, CoordTyped
  <2>2. /\ written' \in Nat /\ written <= written' /\ outbox' \subseteq 1..written'
        /\ backedOff' \in BOOLEAN /\ (backedOff' => outbox' # {}) /\ owed' \in 0..head
    BY <1>0, <1>1 DEF Write
  <2> QED
    BY <1>1, <2>1, <2>2, TriggerKeeps DEF Write
<1>2. CASE WriteTimerFires
  <2> DEFINE c == [coord EXCEPT !.writeTimer = FALSE]
  <2>1. SyncWrites(c) \in Coordinator /\ (coord.active => SyncWrites(c).active)
    BY <1>0, CoordTyped, TimerTyped
  <2> QED
    BY <1>0, <1>2, <2>1, TriggerKeeps DEF WriteTimerFires, queue
<1>3. CASE RetryTimerFires
  <2> DEFINE c == [coord EXCEPT !.retry = "none"]
             d == IF coord.retry = "all" THEN SyncAll(c) ELSE SyncWrites(c)
  <2>1. d \in Coordinator /\ (coord.active => d.active)
    BY <1>0, CoordTyped, TimerTyped
  <2>2. Trigger(d)
    BY <1>3 DEF RetryTimerFires
  <2> QED
    BY <1>0, <1>3, <2>1, <2>2, TriggerKeeps DEF RetryTimerFires, queue
<1>4. CASE OpenGroup
  <2>1. SyncGroup(coord) \in Coordinator /\ (coord.active => SyncGroup(coord).active)
    BY <1>0, CoordTyped
  <2> QED
    BY <1>0, <1>4, <2>1, TriggerKeeps DEF OpenGroup, queue
<1>5. CASE Resumed
  <2>1. SyncAll(coord) \in Coordinator /\ (coord.active => SyncAll(coord).active)
    BY <1>0, CoordTyped
  <2> QED
    BY <1>0, <1>5, <2>1, TriggerKeeps DEF Resumed, queue
\* A drain begins with what was asked.
<1>6. CASE StartRun
  <2> DEFINE begun == [Idle EXCEPT !.at = "waiting", !.full = coord.all,
                                   !.wants = coord.all \/ coord.group]
  <2>1. begun \in Run /\ begun.epoch = 0 /\ begun.at = "waiting"
    BY <1>0, IsolatesAssumption DEF Idle, Run, Places, Coordinator
  <2>2. coord' \in Coordinator /\ coord'.active = coord.active /\ coord.active
    BY <1>0, <1>6 DEF StartRun, Coordinator
  <2>3. run' = [run EXCEPT ![App] = begun]
    BY <1>6 DEF StartRun
  <2> HIDE DEF begun
  <2>4. run' \in [Isolates -> Run] /\ \A i \in Isolates : run'[i] = IF i = App THEN begun ELSE run[i]
    BY <2>1, <2>3 DEF TypeOK
  <2>5. TypeOK'
    BY <1>6, <2>2, <2>4 DEF TypeOK, StartRun, server, queue, ledger, platform
  <2>6. ASSUME NEW i \in Isolates PROVE Behind(i)'
    <3>1. session' = session /\ head' = head /\ lease' = lease /\ cursor' = cursor /\ head \in Nat
      BY <1>6 DEF StartRun, server, ledger, TypeOK
    <3>2. 0 <= session.epoch
      BY DEF TypeOK
    <3>3. CASE i = App
      BY <2>1, <2>4, <3>1, <3>2, <3>3, NotReading
    <3>4. CASE i # App
      BY <2>4, <3>1, <3>4, StaysBehind DEF Whole, Owns
    <3> QED
      BY <3>3, <3>4
  <2>7. CopyIsWhole'
    BY <1>6 DEF Whole, CopyIsWhole, StartRun, ledger
  <2> QED
    BY <2>5, <2>6, <2>7 DEF Whole
<1>7. CASE BackoffEnds
  <2>1. TypeOK'
    BY <1>7 DEF TypeOK, BackoffEnds, server, ledger, platform
  <2>2. Whole'
    BY <1>7 DEF Whole, CopyIsWhole, Behind, Owns, TypeOK, BackoffEnds, server, ledger, platform
  <2> QED
    BY <2>1, <2>2
\* Every run begun before is of an older epoch now.
<1>8. CASE SignOut
  <2>1. coord' \in Coordinator
    BY <1>8, StartTyped DEF SignOut, Coordinator
  <2>2. lease' \in Lease /\ (lease'.owner = None => lease' = NoLease)
    BY <1>8 DEF SignOut, TypeOK, NoLease, Lease
  <2>3. run' \in [Isolates -> Run] /\ run'[App].at = "idle"
    BY <1>8, IdleTyped DEF SignOut, TypeOK, Idle, Isolates
  <2>4. TypeOK'
    BY <1>8, <2>1, <2>2, <2>3 DEF SignOut, TypeOK, server, queue, Fault
  <2>5. \A i \in Isolates : run'[i].epoch < session'.epoch
    BY <1>8 DEF SignOut, TypeOK, Whole, Behind, Idle, Isolates, Run
  <2>6. \A i \in Isolates : run'[i] = run[i] \/ run'[i].at = "idle"
    BY <1>8 DEF SignOut, TypeOK, Idle
  <2>7. Whole'
    <3>1. CopyIsWhole'
      BY <1>8 DEF SignOut, CopyIsWhole
    <3>2. ASSUME NEW i \in Isolates PROVE Behind(i)'
      BY <1>8, <2>4, <2>5, <2>6 DEF Behind, Whole, TypeOK, Run, SignOut, server
    <3> QED
      BY <3>1, <3>2 DEF Whole
  <2> QED
    BY <2>4, <2>7
<1>9. CASE SignIn
  <2>1. TypeOK'
    BY <1>9, StartTyped DEF SignIn, TypeOK, server, queue, platform
  <2>2. session'.epoch = session.epoch
    BY <1>9 DEF SignIn, TypeOK
  <2>3. Whole'
    BY <1>9, <2>2 DEF SignIn, Whole, CopyIsWhole, Behind, Owns, server, queue, platform
  <2> QED
    BY <2>1, <2>3
<1> QED
  BY <1>1, <1>2, <1>3, <1>4, <1>5, <1>6, <1>7, <1>8, <1>9

-----------------------------------------------------------------------------
(* The steps of a run.  Each writes its own run and, if it may, the rest.   *)

\* What is left to show of a step of the run in isolate i.
LEMMA OneRun ==
    ASSUME Inv, NEW i \in Isolates, NEW new \in Run, run' = [run EXCEPT ![i] = new],
           IF i = App THEN new.at # "idle" => coord'.active ELSE coord' = coord,
           session' = session, head' \in Nat, head <= head', CopyIsWhole', Behind(i)',
           \A j \in Isolates \ {i} : lease'.owner = j => Owns(j) /\ cursor' = cursor
    PROVE  /\ run' \in [Isolates -> Run]
           /\ run'[App].at # "idle" => coord'.active
           /\ Whole'
<1>1. run' \in [Isolates -> Run] /\ \A j \in Isolates : run'[j] = IF j = i THEN new ELSE run[j]
  BY DEF Inv, TypeOK
<1>2. run'[App].at # "idle" => coord'.active
  BY <1>1 DEF Inv, TypeOK, Isolates
<1>3. ASSUME NEW j \in Isolates, j # i PROVE Behind(j)'
  BY <1>1, <1>3, StaysBehind DEF Inv, Whole
<1> QED
  BY <1>1, <1>2, <1>3 DEF Whole

\* Where a run is, and what it holds, is well typed.
LEMMA RunAt ==
    ASSUME TypeOK, NEW i \in Isolates
    PROVE  /\ run[i] \in Run
           /\ run[i].epoch \in Nat /\ run[i].upto \in Nat
           /\ run[i].since \in Nat \cup {None} /\ run[i].item \in Nat \cup {None}
           /\ run[i].reply \in {"none", "taken", "update"}
           /\ run[i].error \in {"none", "failed", "update"}
           /\ run[i].full \in BOOLEAN /\ run[i].wants \in BOOLEAN
           /\ run[i].more \in BOOLEAN /\ run[i].lost \in BOOLEAN
           /\ session.epoch \in Nat /\ session.enabled \in BOOLEAN
           /\ run[App].at # "idle" => coord.active
  BY DEF TypeOK, Run

\* The same for a step that touches neither the copy nor the coordinator.
LEMMA QuietRun ==
    ASSUME Inv, NEW i \in Isolates, NEW new \in Run, run' = [run EXCEPT ![i] = new],
           run[i].at # "idle", coord' = coord,
           session' = session, cursor' = cursor, copy' = copy,
           head' \in Nat, head <= head', Behind(i)',
           \A j \in Isolates \ {i} : lease'.owner = j => lease.owner = j
    PROVE  /\ run' \in [Isolates -> Run]
           /\ run'[App].at # "idle" => coord'.active
           /\ Whole'
<1>1. IF i = App THEN new.at # "idle" => coord'.active ELSE coord' = coord
  BY DEF Inv, TypeOK
<1>2. CopyIsWhole'
  BY DEF Inv, Whole, CopyIsWhole
<1>3. \A j \in Isolates \ {i} : lease'.owner = j => Owns(j) /\ cursor' = cursor
  BY DEF Owns
<1> QED
  BY <1>1, <1>2, <1>3, OneRun

\* A claim, a wait that ran out, and a renewal write no page.
LEMMA LeaseKeeps ==
    ASSUME Inv, NEW i \in Isolates, Claim(i) \/ TimesOut(i) \/ Renew(i)
    PROVE  Inv'
<1> USE DEF Inv
<1>0. head \in Nat /\ head <= head
  BY DEF TypeOK
<1>1. CASE Claim(i)
  <2> DEFINE new == [run[i] EXCEPT !.epoch = session.epoch,
                        !.at = IF session.enabled THEN "push" ELSE "release",
                        !.error = IF session.enabled THEN "none" ELSE "failed"]
  <2>1. new \in Run /\ new.at \in {"push", "release"} /\ new.epoch = session.epoch
    BY RunAt DEF Run, Places
  <2>2. run' = [run EXCEPT ![i] = new]
    BY <1>1 DEF Claim
  <2> HIDE DEF new
  <2>3. run'[i] = new
    BY <2>2 DEF TypeOK
  <2>4. /\ session' = session /\ cursor' = cursor /\ head' \in Nat /\ head <= head' /\ coord' = coord
        /\ copy' = copy /\ run[i].at # "idle"
    BY <1>0, <1>1 DEF Claim, ledger, server
  <2>5. Behind(i)'
    BY <2>1, <2>3, <2>4, RunAt, NotReading
  <2>6. run' \in [Isolates -> Run] /\ (run'[App].at # "idle" => coord'.active) /\ Whole'
    <3>1. \A j \in Isolates \ {i} : lease'.owner = j => lease.owner = j
      BY <1>1 DEF Claim
    <3> HIDE DEF Inv
    <3> QED
      BY <2>1, <2>2, <2>4, <2>5, <3>1, QuietRun, Zenon
  <2>7. lease' \in Lease /\ lease'.owner # None
    BY <1>1, IsolatesAssumption DEF Claim, Lease
  <2> QED
    BY <1>1, <2>6, <2>7 DEF TypeOK, Claim, server, queue, ledger, platform
<1>2. CASE TimesOut(i)
  <2> DEFINE new == [run[i] EXCEPT !.at = "release", !.error = "failed"]
  <2>1. new \in Run /\ new.at = "release" /\ new.epoch = run[i].epoch
    BY RunAt DEF Run, Places
  <2>2. run' = [run EXCEPT ![i] = new]
    BY <1>2 DEF TimesOut, Fails
  <2> HIDE DEF new
  <2>3. run'[i] = new
    BY <2>2 DEF TypeOK
  <2>4. /\ session' = session /\ cursor' = cursor /\ head' \in Nat /\ head <= head' /\ coord' = coord
        /\ copy' = copy /\ run[i].at # "idle" /\ lease' = lease
    BY <1>0, <1>2 DEF TimesOut, ledger, server
  <2>5. Behind(i)'
    BY <2>1, <2>3, <2>4, NotReading DEF Whole, Behind
  <2>6. run' \in [Isolates -> Run] /\ (run'[App].at # "idle" => coord'.active) /\ Whole'
    <3> HIDE DEF Inv
    <3> QED
      BY <2>1, <2>2, <2>4, <2>5, QuietRun, Zenon
  <2> QED
    BY <1>2, <2>6 DEF TypeOK, TimesOut, server, queue, ledger, platform
<1>3. CASE Renew(i)
  <2>1. /\ session' = session /\ cursor' = cursor /\ head' \in Nat /\ head <= head' /\ coord' = coord
        /\ copy' = copy /\ run[i].at # "idle" /\ lease'.owner = lease.owner /\ head' = head
    BY <1>0, <1>3 DEF Renew, ledger, server, TypeOK, Holding, Lease
  <2>2. lease' \in Lease /\ (lease'.owner = None => lease' = NoLease)
    BY <1>3, IsolatesAssumption DEF Renew, Owns, TypeOK, Lease
  <2>3. CASE Owns(i)
    <3>1. run' = run
      BY <1>3, <2>3 DEF Renew
    <3>2. TypeOK'
      BY <1>3, <2>2, <3>1 DEF TypeOK, Renew, server, queue, ledger, platform
    <3>3. Whole'
      BY <2>1, <3>1 DEF Whole, CopyIsWhole, Behind, Owns
    <3> QED
      BY <3>2, <3>3
  <2>4. CASE ~Owns(i)
    <3> DEFINE new == [run[i] EXCEPT !.lost = TRUE]
    <3>1. new \in Run /\ new.at = run[i].at /\ new.epoch = run[i].epoch
          /\ new.since = run[i].since /\ new.upto = run[i].upto
      BY RunAt DEF Run, Places
    <3>2. run' = [run EXCEPT ![i] = new]
      BY <1>3, <2>4 DEF Renew
    <3> HIDE DEF new
    <3>3. run'[i] = new
      BY <3>2 DEF TypeOK
    <3>4. Behind(i)'
      BY <2>1, <3>1, <3>3 DEF Whole, Behind, Owns
    <3>5. run' \in [Isolates -> Run] /\ (run'[App].at # "idle" => coord'.active) /\ Whole'
      <4> HIDE DEF Inv
      <4> QED
        BY <2>1, <3>1, <3>2, <3>4, QuietRun, Zenon
    <3> QED
      BY <1>3, <2>2, <3>5 DEF TypeOK, Renew, server, queue, ledger, platform
  <2> QED
    BY <2>3, <2>4
<1> QED
  BY <1>1, <1>2, <1>3

\* A run that fails, and one that goes on to a place that is not reading.
LEMMA FailsKeeps ==
    ASSUME Inv, NEW i \in Isolates, run[i].at # "idle",
           NEW error \in {"none", "failed", "update"}, Fails(i, error),
           coord' = coord, session' = session, cursor' = cursor, copy' = copy,
           head' \in Nat, head <= head', lease' = lease
    PROVE  /\ run' \in [Isolates -> Run]
           /\ run'[App].at # "idle" => coord'.active
           /\ Whole'
<1> DEFINE new == [run[i] EXCEPT !.at = "release", !.error = error]
<1>0. TypeOK /\ run[i] \in Run
  BY RunAt DEF Inv
<1>1. new \in Run /\ new.at = "release" /\ new.epoch = run[i].epoch
  BY <1>0 DEF Run, Places
<1>2. run' = [run EXCEPT ![i] = new]
  BY DEF Fails
<1> HIDE DEF new
<1>3. run'[i] = new
  BY <1>0, <1>2 DEF TypeOK
<1>4. Behind(i)'
  BY <1>1, <1>3, NotReading DEF Inv, Whole, Behind
<1> QED
  BY <1>1, <1>2, <1>4, QuietRun, Zenon

\* A run that goes on to a place where it reads no page.
LEMMA GoesKeeps ==
    ASSUME Inv, NEW i \in Isolates, run[i].at # "idle",
           NEW place \in Places \ {"ask", "page"}, Goes(i, place),
           coord' = coord, session' = session, cursor' = cursor, copy' = copy,
           head' \in Nat, head <= head', lease' = lease
    PROVE  /\ run' \in [Isolates -> Run]
           /\ run'[App].at # "idle" => coord'.active
           /\ Whole'
<1> DEFINE new == [run[i] EXCEPT !.at = place]
<1>0. TypeOK /\ run[i] \in Run
  BY RunAt DEF Inv
<1>1. new \in Run /\ new.at = place /\ new.epoch = run[i].epoch
  BY <1>0 DEF Run
<1>2. run' = [run EXCEPT ![i] = new]
  BY DEF Goes
<1> HIDE DEF new
<1>3. run'[i] = new
  BY <1>0, <1>2 DEF TypeOK
<1>4. Behind(i)'
  BY <1>1, <1>3, NotReading DEF Inv, Whole, Behind
<1> QED
  BY <1>1, <1>2, <1>4, QuietRun, Zenon

\* The push: what it takes to the server and what it removes from the outbox.
LEMMA PushKeeps ==
    ASSUME Inv, NEW i \in Isolates, Push(i)
    PROVE  Inv'
<1>1. TypeOK /\ head \in Nat /\ run[i].at # "idle" /\ coord' = coord /\ session' = session
      /\ cursor' = cursor /\ copy' = copy /\ lease' = lease
  BY DEF Inv, TypeOK, Push, ledger
<1> DEFINE w == Min(Due)
           reply == IF ~up THEN "none" ELSE IF retired THEN "update" ELSE "taken"
<1>2. CASE ~AssertActive(i)
  <2>1. Fails(i, "failed") /\ UNCHANGED server
    BY <1>2 DEF Push
  <2>2. /\ run' \in [Isolates -> Run] /\ (run'[App].at # "idle" => coord'.active) /\ Whole'
    BY <1>1, <2>1, FailsKeeps DEF server
  <2> QED
    BY <1>1, <2>1, <2>2 DEF Inv, TypeOK, Push, server, queue, ledger, platform
<1>3. CASE AssertActive(i) /\ Due = {}
  <2>1. Goes(i, "pull") /\ UNCHANGED server
    BY <1>3 DEF Push
  <2>2. /\ run' \in [Isolates -> Run] /\ (run'[App].at # "idle" => coord'.active) /\ Whole'
    BY <1>1, <2>1, GoesKeeps DEF server, Places
  <2> QED
    BY <1>1, <2>1, <2>2 DEF Inv, TypeOK, Push, server, queue, ledger, platform
<1>4. CASE AssertActive(i) /\ Due # {}
  <2>1. w \in Nat /\ w \in outbox
    <3>1. Due \in SUBSET Nat /\ Due \subseteq outbox
      BY <1>1 DEF Due, TypeOK
    <3> QED
      BY <1>4, <3>1, LeastOf
  <2> HIDE DEF w
  <2> DEFINE new == [run[i] EXCEPT !.at = "sent", !.item = w, !.reply = reply]
  <2>2. new \in Run /\ new.at = "sent" /\ new.epoch = run[i].epoch
    BY <1>1, <2>1, RunAt, ZenonT(30) DEF Run, Places
  <2>3. run' = [run EXCEPT ![i] = new]
    BY <1>4 DEF Push, w
  <2>4. (reply = "taken" /\ Take(w)) \/ UNCHANGED server
    BY <1>4 DEF Push, w
  <2> HIDE DEF new, reply
  <2>5. run'[i] = new
    BY <1>1, <2>3 DEF TypeOK
  <2>6. /\ head' \in Nat /\ head <= head' /\ taken' \subseteq 1..written /\ retired' \in BOOLEAN
    <3>1. CASE Take(w)
      BY <1>1, <2>1, <3>1 DEF Take, TypeOK
    <3>2. CASE UNCHANGED server
      BY <1>1, <3>2 DEF server, TypeOK
    <3> QED
      BY <2>4, <3>1, <3>2
  <2>7. Behind(i)'
    BY <1>1, <2>2, <2>5, NotReading DEF Inv, Whole, Behind
  <2>8. /\ run' \in [Isolates -> Run] /\ (run'[App].at # "idle" => coord'.active) /\ Whole'
    BY <1>1, <2>2, <2>3, <2>6, <2>7, QuietRun, Zenon
  <2> QED
    BY <1>1, <2>6, <2>8 DEF Inv, TypeOK, Push, queue, ledger, platform
<1> QED
  BY <1>2, <1>3, <1>4

\* The answer: it leaves the queue or waits, and the run goes on or fails.
LEMMA AnswerKeeps ==
    ASSUME Inv, NEW i \in Isolates, Answer(i)
    PROVE  Inv'
<1> DEFINE w == run[i].item
           reply == IF up THEN run[i].reply ELSE "none"
<1>1. TypeOK /\ head \in Nat /\ run[i].at # "idle" /\ coord' = coord /\ session' = session
      /\ cursor' = cursor /\ copy' = copy /\ lease' = lease /\ head' = head /\ head <= head
  BY DEF Inv, TypeOK, Answer, ledger, server
\* What becomes of the outbox.
<1>2. CASE reply = "update"
  <2>1. Fails(i, "update") /\ UNCHANGED queue
    BY <1>2 DEF Answer
  <2>2. /\ run' \in [Isolates -> Run] /\ (run'[App].at # "idle" => coord'.active) /\ Whole'
    BY <1>1, <2>1, FailsKeeps
  <2> QED
    BY <1>1, <2>1, <2>2 DEF Inv, TypeOK, Answer, server, queue, ledger, platform
<1>3. CASE reply # "update"
  <2>1. PICK place \in {"push", "pull"}, wants \in BOOLEAN :
           Answered(i, place, wants) /\ (Complete(w) \/ BackOff(w))
    BY <1>1, <1>3, RunAt DEF Answer
  <2>2. /\ outbox' \subseteq 1..written /\ written' = written /\ backedOff' \in BOOLEAN
        /\ backedOff' => outbox' # {}
    BY <1>1, <2>1 DEF Complete, BackOff, TypeOK
  <2> DEFINE new == [run[i] EXCEPT !.at = place, !.item = None, !.reply = "none", !.wants = wants]
  <2>3. new \in Run /\ new.at = place /\ new.epoch = run[i].epoch
    BY <1>1, RunAt DEF Run, Places
  <2>4. run' = [run EXCEPT ![i] = new]
    BY <2>1 DEF Answered
  <2> HIDE DEF new
  <2>5. run'[i] = new
    BY <1>1, <2>4 DEF TypeOK
  <2>6. Behind(i)'
    BY <1>1, <2>3, <2>5, NotReading DEF Inv, Whole, Behind
  <2>7. /\ run' \in [Isolates -> Run] /\ (run'[App].at # "idle" => coord'.active) /\ Whole'
    BY <1>1, <2>3, <2>4, <2>6, QuietRun, Zenon
  <2> QED
    BY <1>1, <2>2, <2>7 DEF Inv, TypeOK, Answer, server, ledger, platform
<1> QED
  BY <1>2, <1>3

-----------------------------------------------------------------------------
(* The pull: a run reads the cursor, asks past it, and writes the page.     *)

\* What a run begins to read from is the cursor itself.
LEMMA PullKeeps ==
    ASSUME Inv, NEW i \in Isolates, Pull(i)
    PROVE  Inv'
<1>1. TypeOK /\ head \in Nat /\ run[i].at # "idle" /\ coord' = coord /\ session' = session
      /\ cursor' = cursor /\ copy' = copy /\ lease' = lease /\ head' = head /\ head <= head
  BY DEF Inv, TypeOK, Pull, ledger, server
<1> DEFINE place == IF run[i].wants THEN "ask" ELSE "release"
           new == [run[i] EXCEPT !.at = place, !.since = cursor]
<1>2. cursor \in Nat
  BY <1>1 DEF TypeOK
<1>3. /\ new \in Run /\ new.at \in {"ask", "release"} /\ new.epoch = run[i].epoch
      /\ new.since = cursor
  BY <1>1, <1>2, RunAt DEF Run, Places
<1>4. run' = [run EXCEPT ![i] = new]
  BY DEF Pull
<1> HIDE DEF new
<1>5. run'[i] = new
  BY <1>1, <1>4 DEF TypeOK
<1>6. Behind(i)'
  BY <1>1, <1>2, <1>3, <1>5 DEF Inv, Whole, Behind
<1>7. /\ run' \in [Isolates -> Run] /\ (run'[App].at # "idle" => coord'.active) /\ Whole'
  BY <1>1, <1>3, <1>4, <1>6, QuietRun, Zenon
<1> QED
  BY <1>1, <1>7 DEF Inv, TypeOK, Pull, server, queue, ledger, platform

\* The page a run is given ends no further than the group.
LEMMA AskKeeps ==
    ASSUME Inv, NEW i \in Isolates, Ask(i)
    PROVE  Inv'
<1>1. TypeOK /\ head \in Nat /\ run[i].at = "ask" /\ run[i].at # "idle"
      /\ coord' = coord /\ session' = session
      /\ cursor' = cursor /\ copy' = copy /\ lease' = lease /\ head' = head /\ head <= head
  BY DEF Inv, TypeOK, Ask, ledger, server
<1> DEFINE end == Min({head, run[i].since + PageSize})
           new == [run[i] EXCEPT !.at = "page", !.upto = end, !.more = end < head]
<1>2. CASE \E error \in {"failed", "update"} : Fails(i, error)
  <2>1. PICK error \in {"none", "failed", "update"} : Fails(i, error)
    BY <1>2
  <2>2. /\ run' \in [Isolates -> Run] /\ (run'[App].at # "idle" => coord'.active) /\ Whole'
    BY <1>1, <2>1, FailsKeeps
  <2> QED
    BY <1>1, <2>2 DEF Inv, TypeOK, Ask, server, queue, ledger, platform
<1>3. CASE run' = [run EXCEPT ![i] = new] /\ AssertActive(i)
  <2>1. run[i].since = cursor /\ cursor \in Nat /\ cursor <= head
    BY <1>1, <1>3 DEF Inv, Whole, Behind, AssertActive, HoldsLease, TypeOK
  <2>2. end \in Nat /\ end <= head /\ cursor <= end
    <3>1. PageSize \in Nat
      BY BoundsAssumption
    <3>2. {head, cursor + PageSize} \in SUBSET Nat /\ {head, cursor + PageSize} # {}
      BY <1>1, <2>1, <3>1
    <3>3. end \in {head, cursor + PageSize} /\ end <= head
      BY <2>1, <3>2, LeastOf
    <3> QED
      BY <1>1, <2>1, <3>1, <3>3
  <2> HIDE DEF end
  <2>3. /\ new \in Run /\ new.at = "page" /\ new.epoch = run[i].epoch
        /\ new.since = cursor /\ new.upto = end
    <3>1. run[i] \in Run
      BY <1>1 DEF TypeOK
    <3>2. end \in Nat /\ (end < head) \in BOOLEAN
      BY <1>1, <2>2
    <3> QED
      BY <2>1, <3>1, <3>2 DEF Run, Places
  <2> HIDE DEF new
  <2>4. run'[i] = new
    BY <1>1, <1>3 DEF TypeOK
  <2>5. Behind(i)'
    BY <1>1, <2>1, <2>2, <2>3, <2>4 DEF Inv, Whole, Behind
  <2>6. /\ run' \in [Isolates -> Run] /\ (run'[App].at # "idle" => coord'.active) /\ Whole'
    BY <1>1, <1>3, <2>3, <2>5, QuietRun, Zenon
  <2> QED
    BY <1>1, <2>6 DEF Inv, TypeOK, Ask, server, queue, ledger, platform
<1> QED
  BY <1>2, <1>3 DEF Ask

\* Only the run that holds the lease, in the session it began in, gets here.
LEMMA ApplyKeeps ==
    ASSUME Inv, NEW i \in Isolates, Apply(i)
    PROVE  Inv'
<1>1. TypeOK /\ head \in Nat /\ run[i].at = "page" /\ run[i].at # "idle"
      /\ coord' = coord /\ lease' = lease /\ head' = head /\ head <= head
      /\ session' = session
  BY DEF Inv, TypeOK, Apply, ledger, server
<1>2. CASE ~up \/ ~AssertActive(i)
  <2>1. Fails(i, "failed") /\ UNCHANGED ledger
    BY <1>2 DEF Apply
  <2>2. /\ run' \in [Isolates -> Run] /\ (run'[App].at # "idle" => coord'.active) /\ Whole'
    BY <1>1, <2>1, FailsKeeps DEF ledger
  <2> QED
    BY <1>1, <2>1, <2>2 DEF Inv, TypeOK, Apply, server, queue, ledger, platform
<1>3. CASE up /\ AssertActive(i)
  <2> DEFINE since == run[i].since
             upto == run[i].upto
             place == IF run[i].more THEN "ask" ELSE "release"
             new == [run[i] EXCEPT !.at = place, !.since = upto]
  <2>1. copy' = copy \cup (since + 1)..upto /\ cursor' = upto /\ run' = [run EXCEPT ![i] = new]
    BY <1>3 DEF Apply
  <2>2. /\ Owns(i) /\ since = cursor /\ cursor \in Nat /\ upto \in Nat /\ since <= upto
        /\ upto <= head /\ copy = 1..cursor
    BY <1>1, <1>3, RunAt DEF Inv, Whole, CopyIsWhole, Behind, AssertActive, HoldsLease, TypeOK
  <2>3. copy' = 1..cursor' /\ cursor' \in 0..head /\ copy' \subseteq 1..head
    BY <1>1, <2>1, <2>2
  <2>4. /\ new \in Run /\ new.at \in {"ask", "release"} /\ new.epoch = run[i].epoch
        /\ new.since = upto
    BY <1>1, <2>2, RunAt DEF Run, Places
  <2> HIDE DEF new
  <2>5. run'[i] = new
    BY <1>1, <2>1 DEF TypeOK
  <2>6. Behind(i)'
    BY <1>1, <2>1, <2>2, <2>4, <2>5 DEF Inv, Whole, Behind
  <2>7. \A j \in Isolates \ {i} : lease'.owner = j => Owns(j) /\ cursor' = cursor
    BY <1>1, <2>2 DEF Owns
  <2>8. IF i = App THEN new.at # "idle" => coord'.active ELSE coord' = coord
    BY <1>1, RunAt
  <2>9. CopyIsWhole'
    BY <2>3 DEF CopyIsWhole
  <2>10. /\ run' \in [Isolates -> Run] /\ (run'[App].at # "idle" => coord'.active) /\ Whole'
    BY <1>1, <2>1, <2>4, <2>6, <2>7, <2>8, <2>9, OneRun, Zenon
  <2> QED
    BY <1>1, <2>3, <2>10 DEF Inv, TypeOK, Apply, server, queue, platform
<1> QED
  BY <1>2, <1>3

\* A run that reports is over, and holds nothing.
LEMMA ReleaseKeeps ==
    ASSUME Inv, NEW i \in Isolates, Release(i)
    PROVE  Inv'
<1>1. TypeOK /\ head' \in Nat /\ head <= head' /\ session' = session /\ cursor' = cursor
      /\ copy' = copy /\ run' = [run EXCEPT ![i] = Idle]
  BY DEF Inv, TypeOK, Release, ledger, server
<1> DEFINE error == IF run[i].error = "none" /\ ~HoldsLease(i) THEN "failed" ELSE run[i].error
<1>2. error \in {"none", "failed", "update"} /\ run[i].full \in BOOLEAN
  BY <1>1, RunAt
<1>3. coord' \in Coordinator /\ owed' \in 0..head
  <2> HIDE DEF error
  <2>1. CASE i = App
    <3>1. coord' = Reported(coord, run[i].full, error, outbox # {})
      BY <2>1 DEF Release, error
    <3>2. coord \in Coordinator /\ (outbox # {}) \in BOOLEAN
      BY <1>1 DEF TypeOK
    <3>3. coord' \in Coordinator
      BY <1>2, <3>1, <3>2, ReportTyped
    <3>4. owed' = IF error = "none" THEN owed ELSE 0
      BY <2>1 DEF Release, error
    <3> QED
      BY <1>1, <3>3, <3>4 DEF TypeOK
  <2>2. CASE i # App
    BY <1>1, <2>2 DEF Release, TypeOK
  <2> QED
    BY <2>1, <2>2
<1>4. Idle \in Run /\ Idle.at = "idle" /\ Idle.epoch = 0
  BY IdleTyped DEF Idle
<1>5. run'[i] = Idle
  BY <1>1 DEF TypeOK
<1>6. Behind(i)'
  BY <1>1, <1>4, <1>5, NotReading DEF TypeOK
<1>7. lease' \in Lease /\ (lease'.owner = None => lease' = NoLease)
      /\ \A j \in Isolates \ {i} : lease'.owner = j => Owns(j) /\ cursor' = cursor
  BY <1>1, IsolatesAssumption DEF Release, TypeOK, NoLease, Lease, Owns
<1>8. IF i = App THEN Idle.at # "idle" => coord'.active ELSE coord' = coord
  BY <1>4 DEF Release
<1>9. CopyIsWhole'
  BY <1>1 DEF Inv, Whole, CopyIsWhole
<1>10. /\ run' \in [Isolates -> Run] /\ (run'[App].at # "idle" => coord'.active) /\ Whole'
  BY <1>1, <1>4, <1>6, <1>7, <1>8, <1>9, OneRun, Zenon
<1> QED
  BY <1>1, <1>3, <1>7, <1>10 DEF Inv, TypeOK, Release, server, queue, ledger, platform

-----------------------------------------------------------------------------
(* Everybody else. *)

\* Others' changes, the network, and an isolate put to sleep or woken leave
\* every run where it is.
LEMMA WorldKeeps ==
    ASSUME Inv,
           \/ Change \/ Lapses \/ GoOffline \/ GoOnline \/ Retire \/ UNCHANGED vars
           \/ \E i \in Isolates : Suspend(i) \/ Wake(i)
    PROVE  Inv'
<1>1. TypeOK /\ Whole
  BY DEF Inv
<1>2. /\ run' = run /\ coord' = coord /\ UNCHANGED <<queue, ledger>> /\ owed' = owed
      /\ taken' = taken /\ lease'.owner = lease.owner
  BY <1>1 DEF Change, Lapses, GoOffline, GoOnline, Retire, vars, Suspend, Wake, server,
     platform, TypeOK, Lease
<1>3. head' \in Nat /\ head <= head' /\ head \in Nat
  BY <1>1 DEF Change, Lapses, GoOffline, GoOnline, Retire, vars, Suspend, Wake, server, TypeOK
<1>4. lease' \in Lease /\ (lease'.owner = None => lease' = NoLease)
  <2>1. CASE Lapses
    BY <1>1, <2>1 DEF Lapses, TypeOK, Lease, NoLease
  <2>2. CASE lease' = lease
    BY <1>1, <2>2 DEF TypeOK
  <2> QED
    BY <2>1, <2>2 DEF Change, GoOffline, GoOnline, Retire, vars, Suspend, Wake
<1>5. /\ asleep' \subseteq Isolates /\ up' \in BOOLEAN /\ messages' \in Nat
      /\ faults' \in Nat /\ retired' \in BOOLEAN
  <2>1. CASE \E i \in Isolates : Suspend(i) \/ Wake(i)
    BY <1>1, <2>1 DEF Suspend, Wake, server, TypeOK, Fault
  <2>2. CASE Change \/ Lapses \/ UNCHANGED vars
    BY <1>1, <2>2 DEF Change, Lapses, vars, server, platform, TypeOK
  <2>3. CASE GoOffline \/ GoOnline
    <3>1. up' = FALSE \/ up' = TRUE
      BY <2>3 DEF GoOffline, GoOnline
    <3>2. faults' \in Nat /\ asleep' = asleep /\ messages' = messages /\ retired' = retired
      BY <1>1, <2>3 DEF GoOffline, GoOnline, server, TypeOK, Fault
    <3> QED
      BY <1>1, <3>1, <3>2 DEF TypeOK
  <2>4. CASE Retire
    BY <1>1, <2>4 DEF Retire, TypeOK, Fault
  <2> QED
    BY <2>1, <2>2, <2>3, <2>4
<1>6. TypeOK'
  BY <1>1, <1>2, <1>3, <1>4, <1>5 DEF TypeOK, queue, ledger
<1>7. ASSUME NEW i \in Isolates PROVE Behind(i)'
  <2>1. /\ run'[i] = run[i] /\ session'.epoch = session.epoch
        /\ (lease'.owner = i => Owns(i) /\ cursor' = cursor)
    BY <1>2 DEF Owns, ledger
  <2> QED
    BY <1>1, <1>3, <2>1, StaysBehind DEF Whole
<1> QED
  BY <1>1, <1>2, <1>6, <1>7 DEF Inv, Whole, CopyIsWhole, ledger

\* An isolate that is killed leaves its lease to nobody.
LEMMA KillKeeps ==
    ASSUME Inv, NEW i \in Isolates, Kill(i)
    PROVE  Inv'
<1>1. TypeOK /\ head' \in Nat /\ head <= head' /\ session' = session /\ cursor' = cursor
      /\ copy' = copy /\ run' = [run EXCEPT ![i] = Idle]
  BY DEF Inv, TypeOK, Kill, Vanishes, ledger, server
<1>2. Idle \in Run /\ Idle.at = "idle" /\ Idle.epoch = 0
  BY IdleTyped DEF Idle
<1>3. run'[i] = Idle
  BY <1>1 DEF TypeOK
<1>4. Behind(i)'
  BY <1>1, <1>2, <1>3, NotReading DEF TypeOK
<1>5. coord' \in Coordinator
  BY <1>1, StartTyped DEF Kill, TypeOK
<1>6. lease' \in Lease /\ (lease'.owner = None => lease' = NoLease)
      /\ \A j \in Isolates \ {i} : lease'.owner = j => Owns(j) /\ cursor' = cursor
  <2>1. lease' = IF Owns(i) THEN [lease EXCEPT !.owner = "gone"] ELSE lease
    BY DEF Kill, Vanishes
  <2>2. "gone" # None /\ i # None
    BY IsolatesAssumption
  <2>3. CASE Owns(i)
    <3>1. lease' = [lease EXCEPT !.owner = "gone"] /\ lease \in Lease
      BY <1>1, <2>1, <2>3 DEF TypeOK
    <3>2. lease' \in Lease /\ lease'.owner = "gone"
      BY <3>1 DEF Lease
    <3> QED
      BY <2>2, <3>2, IsolatesAssumption
  <2>4. CASE ~Owns(i)
    BY <1>1, <2>1, <2>4 DEF TypeOK, Owns
  <2> QED
    BY <2>3, <2>4
<1>7. IF i = App THEN Idle.at # "idle" => coord'.active ELSE coord' = coord
  BY <1>2 DEF Kill
<1>8. CopyIsWhole'
  BY <1>1 DEF Inv, Whole, CopyIsWhole
<1>9. /\ run' \in [Isolates -> Run] /\ (run'[App].at # "idle" => coord'.active) /\ Whole'
  BY <1>1, <1>2, <1>4, <1>6, <1>7, <1>8, OneRun, Zenon
<1> QED
  BY <1>1, <1>5, <1>6, <1>9 DEF Inv, TypeOK, Kill, Vanishes, Fault, server, queue, ledger

\* A handler that wakes has read nothing yet.
LEMMA MessageKeeps ==
    ASSUME Inv, NEW i \in Handlers, PushMessage(i)
    PROVE  Inv'
<1> DEFINE new == [Idle EXCEPT !.at = "waiting", !.wants = TRUE]
<1>1. TypeOK /\ head' \in Nat /\ head <= head' /\ session' = session /\ cursor' = cursor
      /\ copy' = copy /\ lease' = lease /\ coord' = coord /\ run' = [run EXCEPT ![i] = new]
  BY DEF Inv, TypeOK, PushMessage, ledger, server
<1>2. i \in Isolates /\ i # App
  BY IsolatesAssumption DEF Isolates
<1>3. new \in Run /\ new.at = "waiting" /\ new.epoch = 0
  BY IsolatesAssumption DEF Idle, Run, Places
<1> HIDE DEF new
<1>4. run'[i] = new
  BY <1>1, <1>2 DEF TypeOK
<1>5. Behind(i)'
  BY <1>1, <1>2, <1>3, <1>4, NotReading DEF TypeOK
<1>6. \A j \in Isolates \ {i} : lease'.owner = j => Owns(j) /\ cursor' = cursor
  BY <1>1 DEF Owns
<1>7. IF i = App THEN new.at # "idle" => coord'.active ELSE coord' = coord
  BY <1>1, <1>2
<1>8. CopyIsWhole'
  BY <1>1 DEF Inv, Whole, CopyIsWhole
<1>9. /\ run' \in [Isolates -> Run] /\ (run'[App].at # "idle" => coord'.active) /\ Whole'
  BY <1>1, <1>2, <1>3, <1>5, <1>6, <1>7, <1>8, OneRun, Zenon
<1> QED
  BY <1>1, <1>9 DEF Inv, TypeOK, PushMessage, server, queue, ledger

-----------------------------------------------------------------------------
(* Theorems. *)

\* Every step keeps the invariant.
LEMMA NextInv == Inv /\ [Next]_vars => Inv'
<1> SUFFICES ASSUME Inv, [Next]_vars PROVE Inv'
  OBVIOUS
<1>1. CASE Triggers
  BY <1>1, TriggersKeep DEF Triggers
<1>2. CASE Platform
  BY <1>2, WorldKeeps, LeaseKeeps, KillKeeps DEF Platform
<1>3. ASSUME NEW i \in Isolates, RunStep(i) PROVE Inv'
  BY <1>3, LeaseKeeps, PushKeeps, AnswerKeeps, PullKeeps, AskKeeps, ApplyKeeps, ReleaseKeeps
     DEF RunStep
<1>4. ASSUME NEW i \in Handlers, PushMessage(i) PROVE Inv'
  BY <1>4, MessageKeeps
<1>5. CASE UNCHANGED vars
  BY <1>5, WorldKeeps
<1> QED
  BY <1>1, <1>2, <1>3, <1>4, <1>5 DEF Next

\* The invariant holds of every behaviour.
LEMMA Invariant == Spec => []Inv
<1> QED
  BY InitInv, NextInv, PTL DEF Spec

\* Every variable keeps its type, only edits made here are queued or taken, and
\* the app's isolate runs only while its coordinator waits for it.
THEOREM TypeCorrect == Spec => []TypeOK
<1>1. Inv => TypeOK
  BY DEF Inv
<1> QED
  BY <1>1, Invariant, PTL

\* The copy is the group's changes up to the cursor, whichever isolates sync,
\* however long one is suspended inside a run, whoever takes its lease over, and
\* whether or not the account was left and entered again in between.
THEOREM CopyHolds == Spec => []CopyIsWhole
<1>1. Inv => CopyIsWhole
  BY DEF Inv, Whole
<1> QED
  BY <1>1, Invariant, PTL

-----------------------------------------------------------------------------
(* When the app rests, nothing is left to send or to read. *)

\* What is asked for is being drained; an app refused by the server drains nothing.
Fits(c) ==
    /\ c.all \/ c.partial => c.active
    /\ c.group => c.all \/ c.partial
    /\ c.error = "update" => ~c.active

\* Something still runs, or a timer will make it.
Stirs(c) == c.active \/ c.retry # "none" \/ c.writeTimer

QueueWatched == session.enabled /\ coord.error # "update" /\ outbox # {} => Stirs(coord)

\* The app's run will read as far as a screen asked, or fail.
Reads ==
    \/ run[App].at \in {"waiting", "push", "sent", "pull"} /\ run[App].wants
    \/ run[App].at = "ask"
    \/ run[App].at = "page" /\ (run[App].more \/ owed <= run[App].upto)
    \/ run[App].at = "release" /\ run[App].error # "none"

GroupWatched ==
    /\ ~session.enabled => owed = 0
    /\ owed <= cursor \/ coord.all \/ coord.group \/ Reads

Watched == Fits(coord) /\ QueueWatched /\ GroupWatched

\* What the coordinator's methods ask for is drained, and nothing asked is lost.
LEMMA AskedFits ==
    ASSUME NEW c \in Coordinator, Fits(c)
    PROVE  \A d \in {SyncAll(c), SyncWrites(c), SyncGroup(c), WriteQueued(c)} :
               /\ Fits(d) /\ d.error = c.error
               /\ (c.all => d.all) /\ (c.group => d.group)
               /\ c.error # "update" => Stirs(d)
<1>1. /\ Fits(SyncAll(c)) /\ SyncAll(c).error = c.error
      /\ (c.all => SyncAll(c).all) /\ (c.group => SyncAll(c).group)
      /\ c.error # "update" => Stirs(SyncAll(c))
  BY DEF SyncAll, Begin, Fits, Stirs, Coordinator
<1>2. /\ Fits(SyncWrites(c)) /\ SyncWrites(c).error = c.error
      /\ (c.all => SyncWrites(c).all) /\ (c.group => SyncWrites(c).group)
      /\ c.error # "update" => Stirs(SyncWrites(c))
  BY DEF SyncWrites, Begin, Fits, Stirs, Coordinator
<1>3. /\ Fits(WriteQueued(c)) /\ WriteQueued(c).error = c.error
      /\ (c.all => WriteQueued(c).all) /\ (c.group => WriteQueued(c).group)
      /\ c.error # "update" => Stirs(WriteQueued(c))
  BY DEF WriteQueued, Fits, Stirs, Coordinator
<1>4. CASE ~c.synced \/ c.error # "none"
  BY <1>1, <1>2, <1>3, <1>4 DEF SyncGroup
<1>5. CASE ~(~c.synced \/ c.error # "none")
  <2> DEFINE g == SyncGroup(c)
  <2>1. g = [[c EXCEPT !.group = TRUE] EXCEPT !.partial = TRUE, !.retry = "none", !.active = TRUE]
    BY <1>5 DEF SyncGroup, SyncWrites, Begin, Coordinator
  <2>2. g.group /\ g.partial /\ g.active /\ g.all = c.all /\ g.error = c.error
    BY <2>1 DEF Coordinator
  <2> HIDE DEF g
  <2>3. Fits(g) /\ Stirs(g)
    BY <1>5, <2>2 DEF Fits, Stirs
  <2> QED
    BY <1>1, <1>2, <1>3, <2>2, <2>3 DEF g
<1> QED
  BY <1>4, <1>5

\* A screen's question is asked of everything, or of the group.
LEMMA GroupAsked ==
    ASSUME NEW c \in Coordinator, c.error # "update"
    PROVE  SyncGroup(c).all \/ SyncGroup(c).group
  BY DEF SyncGroup, SyncAll, SyncWrites, Begin, Coordinator

\* A timer that goes off asks for what it was armed for.
LEMMA TimerFits ==
    ASSUME NEW c \in Coordinator, Fits(c),
           NEW d \in {[c EXCEPT !.writeTimer = FALSE], [c EXCEPT !.retry = "none"]}
    PROVE  d \in Coordinator /\ Fits(d) /\ d.error = c.error /\ d.all = c.all /\ d.group = c.group
  BY DEF Fits, Coordinator

\* A report ends the drain only with nothing asked, and arms a timer for what
\* is queued.
LEMMA ReportFits ==
    ASSUME NEW c \in Coordinator, Fits(c), c.active, NEW full \in BOOLEAN, NEW due \in BOOLEAN,
           NEW error \in {"none", "failed", "update"}
    PROVE  LET d == Reported(c, full, error, due) IN
           /\ Fits(d)
           /\ d.error # "update" /\ due => Stirs(d)
           /\ error = "none" => (c.all => d.all) /\ (c.group => d.group)
<1>1. CASE error = "none" /\ (c.all \/ c.partial)
  <2>1. Reported(c, full, error, due) = [c EXCEPT !.error = "none", !.synced = @ \/ full]
    BY <1>1 DEF Reported, Coordinator
  <2> QED
    BY <1>1, <2>1 DEF Fits, Stirs, Coordinator
<1>2. CASE error = "none" /\ ~(c.all \/ c.partial)
  <2> DEFINE seen == [c EXCEPT !.error = "none", !.synced = @ \/ full]
  <2>1. /\ seen \in Coordinator /\ seen.error = "none"
        /\ seen.all = FALSE /\ seen.partial = FALSE /\ seen.group = FALSE
    BY <1>2 DEF Fits, Coordinator
  <2>2. Reported(c, full, error, due) = ScheduleRetry(seen, due)
    BY <1>2, <2>1 DEF Reported
  <2> HIDE DEF seen
  <2>3. ScheduleRetry(seen, due) = [seen EXCEPT !.active = FALSE, !.retry = IF due THEN "writes" ELSE "none"]
    BY <2>1 DEF ScheduleRetry
  <2> DEFINE d == ScheduleRetry(seen, due)
  <2>4. /\ d.all = FALSE /\ d.partial = FALSE /\ d.group = FALSE /\ d.error = "none"
        /\ d.active = FALSE /\ d.retry = IF due THEN "writes" ELSE "none"
    BY <2>1, <2>3 DEF Coordinator
  <2> HIDE DEF d
  <2> QED
    BY <1>2, <2>2, <2>4 DEF Fits, Stirs, d
<1>3. CASE error # "none"
  <2> DEFINE seen == [c EXCEPT !.error = error, !.all = FALSE, !.partial = FALSE, !.group = FALSE]
  <2>1. /\ seen \in Coordinator /\ seen.error = error
        /\ seen.all = FALSE /\ seen.partial = FALSE /\ seen.group = FALSE
    BY DEF Coordinator
  <2>2. Reported(c, full, error, due) = ScheduleRetry(seen, due)
    BY <1>3, <2>1 DEF Reported
  <2> HIDE DEF seen
  <2>3. ScheduleRetry(seen, due) = [seen EXCEPT !.active = FALSE, !.retry = IF error = "failed" THEN "all" ELSE "none"]
    BY <1>3, <2>1 DEF ScheduleRetry
  <2> DEFINE d == ScheduleRetry(seen, due)
  <2>4. /\ d.all = FALSE /\ d.partial = FALSE /\ d.group = FALSE /\ d.error = error
        /\ d.active = FALSE /\ d.retry = IF error = "failed" THEN "all" ELSE "none"
    BY <2>1, <2>3 DEF Coordinator
  <2> HIDE DEF d
  <2> QED
    BY <1>3, <2>2, <2>4 DEF Fits, Stirs, d
<1> QED
  BY <1>1, <1>2, <1>3

\* What a trigger asks for is watched.
LEMMA TriggerWatches ==
    ASSUME Inv, Watched, NEW changed \in Coordinator, Trigger(changed),
           Fits(changed), changed.error = coord.error,
           coord.all => changed.all, coord.group => changed.group,
           coord.error # "update" /\ outbox' # {} => Stirs(changed),
           owed' = owed \/ changed.all \/ changed.group
    PROVE  Watched'
<1>1. /\ coord' = changed /\ session' = session /\ cursor' = cursor /\ run' = run /\ session.enabled
  BY DEF Trigger, ledger
<1>2. QueueWatched'
  BY <1>1 DEF QueueWatched
<1>3. GroupWatched'
  <2>1. CASE owed' = owed
    BY <1>1, <2>1 DEF Watched, GroupWatched, Reads
  <2>2. CASE changed.all \/ changed.group
    BY <1>1, <2>2 DEF GroupWatched
  <2> QED
    BY <2>1, <2>2
<1> QED
  BY <1>1, <1>2, <1>3 DEF Watched

\* What leaves the coordinator alone, as long as the app's run reads on.
LEMMA RunWatches ==
    ASSUME Inv, Watched, coord' = coord, session' = session, owed' = owed,
           outbox' \subseteq outbox, cursor' \in Nat, cursor <= cursor',
           Reads => Reads' \/ owed <= cursor'
    PROVE  Watched'
<1>1. owed \in Nat /\ cursor \in Nat
  BY DEF Inv, TypeOK
<1>2. QueueWatched'
  BY DEF Watched, QueueWatched
<1>3. GroupWatched'
  BY <1>1 DEF Watched, GroupWatched
<1> QED
  BY <1>2, <1>3 DEF Watched

\* Writes, screens, timers and the start of a run.
LEMMA TriggersWatch ==
    ASSUME Inv, Watched, Write \/ WriteTimerFires \/ RetryTimerFires \/ OpenGroup \/ Resumed
    PROVE  Watched'
<1>0. coord \in Coordinator /\ Fits(coord)
      /\ (session.enabled /\ coord.error # "update" /\ outbox # {} => Stirs(coord))
  BY DEF Inv, TypeOK, Watched, QueueWatched
<1>1. CASE Write
  <2>1. WriteQueued(coord) \in Coordinator
    BY <1>0, CoordTyped
  <2>2. Trigger(WriteQueued(coord)) /\ owed' = owed
    BY <1>1 DEF Write
  <2> QED
    BY <1>0, <2>1, <2>2, AskedFits, TriggerWatches
<1>2. CASE WriteTimerFires
  <2> DEFINE c == [coord EXCEPT !.writeTimer = FALSE]
  <2>1. c \in Coordinator /\ Fits(c) /\ c.error = coord.error /\ c.all = coord.all /\ c.group = coord.group
    BY <1>0, TimerFits
  <2>2. Trigger(SyncWrites(c)) /\ owed' = owed
    BY <1>2 DEF WriteTimerFires
  <2> HIDE DEF c
  <2>3. SyncWrites(c) \in Coordinator
    BY <2>1, CoordTyped
  <2> QED
    BY <2>1, <2>2, <2>3, AskedFits, TriggerWatches
<1>3. CASE RetryTimerFires
  <2> DEFINE c == [coord EXCEPT !.retry = "none"]
             d == IF coord.retry = "all" THEN SyncAll(c) ELSE SyncWrites(c)
  <2>1. c \in Coordinator /\ Fits(c) /\ c.error = coord.error /\ c.all = coord.all /\ c.group = coord.group
    BY <1>0, TimerFits
  <2>2. Trigger(d) /\ owed' = owed
    BY <1>3 DEF RetryTimerFires
  <2> HIDE DEF c
  <2>3. /\ d \in Coordinator /\ Fits(d) /\ d.error = c.error
        /\ (c.all => d.all) /\ (c.group => d.group) /\ (c.error # "update" => Stirs(d))
    BY <2>1, CoordTyped, AskedFits
  <2> HIDE DEF d
  <2> QED
    BY <2>1, <2>2, <2>3, TriggerWatches
<1>4. CASE OpenGroup
  <2>1. SyncGroup(coord) \in Coordinator
    BY <1>0, CoordTyped
  <2>2. Trigger(SyncGroup(coord)) /\ coord.error # "update"
    BY <1>4 DEF OpenGroup
  <2> QED
    BY <1>0, <2>1, <2>2, AskedFits, GroupAsked, TriggerWatches
<1>5. CASE Resumed
  <2>1. SyncAll(coord) \in Coordinator
    BY <1>0, CoordTyped
  <2>2. Trigger(SyncAll(coord)) /\ owed' = owed
    BY <1>5 DEF Resumed
  <2> QED
    BY <1>0, <2>1, <2>2, AskedFits, TriggerWatches
<1> QED
  BY <1>1, <1>2, <1>3, <1>4, <1>5

\* A drain's run reads what was asked of the drain.
LEMMA StartWatches ==
    ASSUME Inv, Watched, StartRun
    PROVE  Watched'
<1> DEFINE begun == [Idle EXCEPT !.at = "waiting", !.full = coord.all,
                                 !.wants = coord.all \/ coord.group]
<1>0. coord \in Coordinator /\ run \in [Isolates -> Run] /\ App \in Isolates
  BY DEF Inv, TypeOK, Isolates
<1>1. begun.at = "waiting" /\ begun.wants = (coord.all \/ coord.group)
  BY DEF Idle
<1>2. /\ coord.active /\ run[App].at = "idle" /\ run' = [run EXCEPT ![App] = begun]
      /\ coord' = [coord EXCEPT !.all = FALSE, !.partial = FALSE, !.group = FALSE]
      /\ session' = session /\ outbox' = outbox /\ cursor' = cursor /\ owed' = owed
  BY DEF StartRun, queue, ledger
<1> HIDE DEF begun
<1>3. run'[App] = begun
  BY <1>0, <1>2
<1>4. /\ coord'.active /\ ~coord'.all /\ ~coord'.partial /\ ~coord'.group
      /\ coord'.error = coord.error
  BY <1>0, <1>2 DEF Coordinator
<1>5. Fits(coord')
  BY <1>2, <1>4 DEF Fits, Watched
<1>6. QueueWatched'
  BY <1>4 DEF QueueWatched, Stirs
<1>7. GroupWatched'
  BY <1>1, <1>2, <1>3, <1>4 DEF Watched, GroupWatched, Reads
<1> QED
  BY <1>5, <1>6, <1>7 DEF Watched

\* Leaving the account, entering it, and starting the app again.
LEMMA SessionWatches ==
    ASSUME Inv, Watched, SignOut \/ SignIn \/ \E i \in Isolates : Kill(i)
    PROVE  Watched'
<1>0. Fits(Started) /\ Started.all /\ Started.active
  BY DEF Started, SyncAll, Begin, Fits
<1>1. CASE SignOut
  <2> DEFINE d == [Started EXCEPT !.all = FALSE, !.active = FALSE]
  <2>1. Fits(d)
    BY DEF Started, SyncAll, Begin, Fits
  <2>2. coord' = d /\ session'.enabled = FALSE /\ cursor' = 0 /\ owed' = 0
    BY <1>1 DEF SignOut
  <2> HIDE DEF d
  <2> QED
    BY <2>1, <2>2 DEF Watched, QueueWatched, GroupWatched
<1>2. CASE SignIn
  <2>1. coord' = Started /\ session'.enabled /\ ~session.enabled
    BY <1>2 DEF SignIn, Inv, TypeOK
  <2> QED
    BY <1>0, <2>1 DEF Watched, QueueWatched, GroupWatched, Stirs
<1>3. ASSUME NEW i \in Isolates, Kill(i) PROVE Watched'
  <2>1. /\ session' = session /\ outbox' = outbox /\ cursor' = cursor /\ owed' = owed
        /\ run' = [run EXCEPT ![i] = Idle]
    BY <1>3 DEF Kill, Vanishes, queue, ledger
  <2>2. run \in [Isolates -> Run] /\ cursor \in Nat /\ App \in Isolates
    BY DEF Inv, TypeOK, Isolates
  <2>3. CASE i = App /\ session.enabled
    <3>1. coord' = Started
      BY <1>3, <2>3 DEF Kill
    <3> QED
      BY <1>0, <2>1, <2>3, <3>1 DEF Watched, QueueWatched, GroupWatched, Stirs
  <2>4. CASE i = App /\ ~session.enabled
    <3>1. coord' = coord
      BY <1>3, <2>4 DEF Kill
    <3> QED
      BY <2>1, <2>2, <2>4, <3>1 DEF Watched, QueueWatched, GroupWatched
  <2>5. CASE i # App
    <3>1. coord' = coord /\ run'[App] = run[App]
      BY <1>3, <2>1, <2>2, <2>5 DEF Kill
    <3> QED
      BY <2>1, <2>2, <2>5, <3>1, RunWatches DEF Reads
  <2> QED
    BY <2>3, <2>4, <2>5
<1> QED
  BY <1>1, <1>2, <1>3

\* A run's report: either it failed, and the retry is its own matter, or it read.
LEMMA ReleaseWatches ==
    ASSUME Inv, Watched, NEW i \in Isolates, Release(i)
    PROVE  Watched'
<1> DEFINE error == IF run[i].error = "none" /\ ~HoldsLease(i) THEN "failed" ELSE run[i].error
<1>1. /\ session' = session /\ outbox' = outbox /\ cursor' = cursor
      /\ run[i].at = "release" /\ run' = [run EXCEPT ![i] = Idle]
  BY DEF Release, queue, ledger
<1>2. run \in [Isolates -> Run] /\ cursor \in Nat /\ App \in Isolates /\ owed \in Nat
  BY DEF Inv, TypeOK, Isolates
<1>3. CASE i = App
  <2>1. /\ coord' = Reported(coord, run[App].full, error, outbox # {})
        /\ owed' = IF error = "none" THEN owed ELSE 0
    BY <1>3 DEF Release
  <2>2. error \in {"none", "failed", "update"} /\ run[App].full \in BOOLEAN
    BY <1>2, <1>3, RunAt DEF Inv
  <2>3. run[App].error # "none" => error # "none"
    BY <1>3
  <2> HIDE DEF error
  <2>4. coord \in Coordinator /\ coord.active /\ (outbox # {}) \in BOOLEAN /\ Fits(coord)
    BY <1>1, <1>3 DEF Inv, TypeOK, Watched
  <2>5. /\ Fits(coord')
        /\ coord'.error # "update" /\ outbox # {} => Stirs(coord')
        /\ error = "none" => (coord.all => coord'.all) /\ (coord.group => coord'.group)
    BY <2>1, <2>2, <2>4, ReportFits
  <2>6. QueueWatched'
    BY <1>1, <2>5 DEF QueueWatched
  <2>7. GroupWatched'
    <3>1. CASE error = "none"
      <4>1. ~Reads
        BY <1>1, <1>3, <2>3, <3>1 DEF Reads
      <4> QED
        BY <1>1, <2>1, <2>5, <3>1, <4>1 DEF Watched, GroupWatched
    <3>2. CASE error # "none"
      BY <1>1, <1>2, <2>1, <3>2 DEF GroupWatched
    <3> QED
      BY <3>1, <3>2
  <2> QED
    BY <2>5, <2>6, <2>7 DEF Watched
<1>4. CASE i # App
  <2>1. coord' = coord /\ owed' = owed /\ run'[App] = run[App]
    BY <1>1, <1>2, <1>4 DEF Release
  <2> QED
    BY <1>1, <1>2, <2>1, RunWatches DEF Reads
<1> QED
  BY <1>3, <1>4

\* Each step of a run reads on, or is at its end having read or failed.
LEMMA StepWatches ==
    ASSUME Inv, Watched, NEW i \in Isolates,
           Claim(i) \/ TimesOut(i) \/ Push(i) \/ Answer(i) \/ Pull(i) \/ Ask(i) \/ Apply(i)
    PROVE  Watched'
<1>0. /\ run \in [Isolates -> Run] /\ run[i] \in Run /\ App \in Isolates
      /\ cursor \in Nat /\ head \in Nat /\ owed \in Nat /\ owed <= head /\ cursor <= head
  BY DEF Inv, TypeOK, Isolates
<1>1. coord' = coord /\ owed' = owed /\ session' = session
  BY DEF Claim, TimesOut, Push, Answer, Pull, Ask, Apply, ledger
<1>2. outbox' \subseteq outbox
  <2>1. CASE Answer(i)
    BY <2>1 DEF Answer, Complete, BackOff, queue
  <2>2. CASE ~Answer(i)
    BY <2>2 DEF Claim, TimesOut, Push, Pull, Ask, Apply, queue
  <2> QED
    BY <2>1, <2>2
<1>3. CASE ~Apply(i)
  <2>1. cursor' = cursor
    BY <1>3 DEF Claim, TimesOut, Push, Answer, Pull, Ask, ledger
  <2>2. CASE i # App
    <3>1. run'[App] = run[App]
      BY <1>0, <1>3, <2>2 DEF Claim, TimesOut, Push, Answer, Pull, Ask, Fails, Goes, Answered
    <3> QED
      BY <1>0, <1>1, <1>2, <2>1, <3>1, RunWatches DEF Reads
  <2>3. ASSUME i = App, Reads PROVE Reads' \/ owed <= cursor'
    <3>f. \A error : Fails(i, error) /\ error # "none" => Reads'
      BY <1>0, <2>3 DEF Fails, Reads
    <3>1. CASE Claim(i)
      <4> DEFINE new == [run[i] EXCEPT !.epoch = session.epoch,
                            !.at = IF session.enabled THEN "push" ELSE "release",
                            !.error = IF session.enabled THEN "none" ELSE "failed"]
      <4>1. run' = [run EXCEPT ![i] = new] /\ run[i].at = "waiting"
        BY <3>1 DEF Claim
      <4>2. new.wants = run[i].wants /\ (new.at = "push" \/ (new.at = "release" /\ new.error = "failed"))
        BY <1>0 DEF Run
      <4> HIDE DEF new
      <4>3. run'[i] = new
        BY <1>0, <4>1
      <4> QED
        BY <2>3, <4>1, <4>2, <4>3 DEF Reads
    <3>2. CASE TimesOut(i)
      BY <3>2, <3>f DEF TimesOut
    <3>3. CASE Push(i)
      <4>1. run[i].at = "push" /\ run[i].wants
        BY <2>3, <3>3 DEF Push, Reads
      <4>2. CASE Fails(i, "failed")
        BY <3>f, <4>2
      <4>3. CASE Goes(i, "pull")
        BY <1>0, <2>3, <4>1, <4>3 DEF Goes, Reads, Run
      <4>4. ASSUME NEW w, NEW reply, run' = [run EXCEPT ![i].at = "sent", ![i].item = w, ![i].reply = reply]
            PROVE  Reads'
        BY <1>0, <2>3, <4>1, <4>4 DEF Reads, Run
      <4> QED
        BY <3>3, <4>2, <4>3, <4>4 DEF Push
    <3>4. CASE Answer(i)
      <4>1. run[i].at = "sent" /\ run[i].wants
        BY <2>3, <3>4 DEF Answer, Reads
      <4>2. CASE Fails(i, "update")
        BY <3>f, <4>2
      <4>3. ASSUME NEW place \in {"push", "pull"}, Answered(i, place, TRUE) PROVE Reads'
        BY <1>0, <2>3, <4>3 DEF Answered, Reads, Run
      <4>4. run[i].wants \in BOOLEAN
        BY <1>0 DEF Run
      <4>5. \/ Fails(i, "update")
            \/ Answered(i, "push", run[i].wants \/ run[i].item \in outbox)
            \/ Answered(i, "pull", run[i].wants)
        BY <3>4 DEF Answer
      <4>6. run[i].wants = TRUE /\ (run[i].wants \/ run[i].item \in outbox) = TRUE
        BY <4>1, <4>4
      <4> QED
        BY <4>2, <4>3, <4>5, <4>6
    <3>5. CASE Pull(i)
      <4>1. run[i].at = "pull" /\ run[i].wants
        BY <2>3, <3>5 DEF Pull, Reads
      <4> QED
        BY <1>0, <2>3, <3>5, <4>1 DEF Pull, Reads, Run
    <3>6. CASE Ask(i)
      <4> DEFINE end == Min({head, run[i].since + PageSize})
                 new == [run[i] EXCEPT !.at = "page", !.upto = end, !.more = end < head]
      <4>1. CASE Fails(i, "failed") \/ Fails(i, "update")
        BY <3>f, <4>1
      <4>2. CASE run' = [run EXCEPT ![i] = new] /\ run[i].at = "ask"
        <5>1. end \in Nat /\ end <= head
          <6>1. run[i].since \in Nat /\ PageSize \in Nat
            BY <4>2, BoundsAssumption DEF Inv, Whole, Behind
          <6>2. {head, run[i].since + PageSize} \in SUBSET Nat
            BY <1>0, <6>1
          <6> QED
            BY <6>2, LeastOf
        <5> HIDE DEF end
        <5>2. new.at = "page" /\ new.upto = end /\ new.more = (end < head)
          BY <1>0 DEF Run
        <5> HIDE DEF new
        <5>3. run'[i] = new
          BY <1>0, <4>2
        <5>4. new.more \/ owed <= new.upto
          <6>1. CASE end < head
            BY <5>2, <6>1
          <6>2. CASE ~(end < head)
            <7>1. owed <= end
              BY <1>0, <5>1, <6>2
            <7> QED
              BY <5>2, <7>1
          <6> QED
            BY <6>1, <6>2
        <5> QED
          BY <1>1, <2>3, <5>2, <5>3, <5>4 DEF Reads
      <4> QED
        BY <3>6, <4>1, <4>2 DEF Ask
    <3> QED
      BY <1>3, <3>1, <3>2, <3>3, <3>4, <3>5, <3>6
  <2>4. Reads => Reads' \/ owed <= cursor'
    <3>1. CASE i = App
      BY <2>3, <3>1
    <3>2. CASE i # App
      <4>1. run'[App] = run[App]
        BY <1>0, <1>3, <3>2 DEF Claim, TimesOut, Push, Answer, Pull, Ask, Fails, Goes, Answered
      <4> QED
        BY <1>1, <4>1 DEF Reads
    <3> QED
      BY <3>1, <3>2
  <2> QED
    BY <1>0, <1>1, <1>2, <2>1, <2>4, RunWatches
<1>4. CASE Apply(i)
  <2>1. CASE Fails(i, "failed") /\ cursor' = cursor
    <3>1. Reads => Reads'
      <4>1. CASE i = App
        BY <1>0, <2>1, <4>1 DEF Fails, Reads
      <4>2. CASE i # App
        BY <1>0, <1>1, <2>1, <4>2 DEF Fails, Reads
      <4> QED
        BY <4>1, <4>2
    <3> QED
      BY <1>0, <1>1, <1>2, <2>1, <3>1, RunWatches
  <2>2. CASE AssertActive(i) /\ run[i].at = "page" /\ cursor' = run[i].upto
             /\ run' = [run EXCEPT ![i].at = IF run[i].more THEN "ask" ELSE "release",
                                   ![i].since = run[i].upto]
    <3>1. run[i].upto \in Nat /\ cursor <= run[i].upto
      BY <1>0, <2>2, RunAt DEF Inv, Whole, Behind, AssertActive, HoldsLease
    <3>2. Reads => Reads' \/ owed <= cursor'
      <4>1. CASE i = App
        <5>1. run[i].more => run'[i].at = "ask"
          BY <1>0, <2>2 DEF Run
        <5> QED
          BY <2>2, <4>1, <5>1 DEF Reads
      <4>2. CASE i # App
        BY <1>0, <1>1, <2>2, <4>2 DEF Reads
      <4> QED
        BY <4>1, <4>2
    <3> QED
      BY <1>1, <1>2, <2>2, <3>1, <3>2, RunWatches
  <2> QED
    BY <1>4, <2>1, <2>2 DEF Apply, ledger
<1> QED
  BY <1>3, <1>4

\* Everybody else leaves the app's run where it is.
LEMMA WorldWatches ==
    ASSUME Inv, Watched,
           \/ BackoffEnds \/ Change \/ Lapses \/ GoOffline \/ GoOnline \/ Retire \/ UNCHANGED vars
           \/ \E i \in Isolates : Renew(i) \/ Suspend(i) \/ Wake(i)
           \/ \E i \in Handlers : PushMessage(i)
    PROVE  Watched'
<1>1. /\ coord' = coord /\ owed' = owed /\ session' = session /\ outbox' = outbox /\ cursor' = cursor
  BY DEF BackoffEnds, Change, Lapses, GoOffline, GoOnline, Retire, vars, Renew, Suspend, Wake,
     PushMessage, queue, ledger
<1>2. run \in [Isolates -> Run] /\ App \in Isolates /\ App \notin Handlers /\ cursor \in Nat
  BY IsolatesAssumption DEF Inv, TypeOK, Isolates
<1>3. \/ run'[App] = run[App]
      \/ run'[App] = [run[App] EXCEPT !.lost = TRUE]
  <2>1. CASE \E i \in Isolates : Renew(i)
    BY <1>2, <2>1 DEF Renew
  <2>2. CASE \E i \in Handlers : PushMessage(i)
    BY <1>2, <2>2 DEF PushMessage
  <2>3. CASE ~(\E i \in Isolates : Renew(i)) /\ ~(\E i \in Handlers : PushMessage(i))
    BY <2>3 DEF BackoffEnds, Change, Lapses, GoOffline, GoOnline, Retire, vars, Suspend, Wake
  <2> QED
    BY <2>1, <2>2, <2>3
<1>4. Reads => Reads'
  <2>1. run[App] \in Run
    BY <1>2
  <2> QED
    BY <1>1, <1>3, <2>1 DEF Reads, Run
<1> QED
  BY <1>1, <1>2, <1>4, RunWatches

\* At launch everything is asked for.
LEMMA InitWatched == Init => Watched
<1>1. Fits(Started) /\ Started.active
  BY DEF Started, SyncAll, Begin, Fits
<1> QED
  BY <1>1 DEF Init, Watched, QueueWatched, GroupWatched, Stirs

\* Every step keeps watch.
LEMMA NextWatched == Inv /\ Watched /\ [Next]_vars => Watched'
<1> SUFFICES ASSUME Inv, Watched, [Next]_vars PROVE Watched'
  OBVIOUS
<1>1. CASE Triggers
  BY <1>1, TriggersWatch, StartWatches, SessionWatches, WorldWatches DEF Triggers
<1>2. CASE Platform
  BY <1>2, WorldWatches, SessionWatches DEF Platform
<1>3. ASSUME NEW i \in Isolates, RunStep(i) PROVE Watched'
  BY <1>3, StepWatches, ReleaseWatches DEF RunStep
<1>4. CASE (\E i \in Handlers : PushMessage(i)) \/ UNCHANGED vars
  BY <1>4, WorldWatches
<1> QED
  BY <1>1, <1>2, <1>3, <1>4 DEF Next

\* A trigger is never coalesced away (sync_coordinator.dart): when the app rests,
\* with no drain and no timer, every edit was sent and, unless a run failed, the
\* group was read since a screen last asked.
THEOREM NothingForgotten == Spec => []RestsWhenDone
<1>1. Inv /\ Watched => RestsWhenDone
  <2> SUFFICES ASSUME Inv, Watched, AtRest PROVE outbox = {} /\ cursor >= owed
    BY DEF RestsWhenDone
  <2>1. outbox = {}
    BY DEF AtRest, Watched, QueueWatched, Stirs
  <2>2. run[App].at = "idle" /\ cursor \in Nat /\ owed \in Nat
    BY DEF AtRest, Inv, TypeOK
  <2>3. ~coord.all /\ ~coord.group /\ ~Reads
    BY <2>2 DEF AtRest, Watched, Fits, Reads
  <2> QED
    BY <2>1, <2>2, <2>3 DEF Watched, GroupWatched
<1> QED
  BY <1>1, InitWatched, NextWatched, Invariant, PTL DEF Spec

=============================================================================
