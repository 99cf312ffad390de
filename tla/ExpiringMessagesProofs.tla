----------------------- MODULE ExpiringMessagesProofs -----------------------
(***************************************************************************)
(* Proofs about ExpiringMessages, for every number of callers, ids,        *)
(* messages, timers, crashes and deletions: the variables keep their       *)
(* types, no running timer is forgotten while the process is up and its    *)
(* set is intact, ProcessTask never sleeps past a deadline, and a message  *)
(* alone on its id is kept until its timer has run out.                    *)
(***************************************************************************)
EXTENDS ExpiringMessages, TLAPS

USE DEF Messages, Keys, Ref, Up, Present

(* SomeKey is a key because the tables have at least one id.               *)
LEMMA Constants ==
  /\ SomeKey \in Keys
  /\ NoMsg \in Message
  /\ Idle \in Caller
  /\ NoLoad \in Loader
  /\ LoadBoth \in Loader
  /\ \A pc \in {"down", "load", "run", "empty", "timed", "delete"} :
        Waiting(pc) \in Processor
  /\ \A p \in Processor : Notified(p) \in Processor
<1>1. SomeKey \in Keys
  BY MaxIdAssumption DEF SomeKey
<1>2. [key |-> SomeKey, at |-> 0] \in Ref
  BY <1>1
<1>3. \A pc \in {"down", "load", "run", "empty", "timed", "delete"} :
        Waiting(pc) \in Processor
  BY <1>2 DEF Waiting, Processor
<1> QED
  BY <1>1, <1>3 DEF NoMsg, Message, Idle, Caller, NoLoad, Loader, LoadBoth,
     Notified, Processor

-----------------------------------------------------------------------------
(* Types *)

LEMMA InsertedNumber == TypeOK => inserted \in Nat
  BY MaxMessagesAssumption DEF TypeOK

LEMMA TimerTypes ==
  ASSUME TypeOK, NEW k \in Keys, Present(k)
  PROVE  /\ rows[k] \in Messages
         /\ Millis(rows[k]) \in Nat
         /\ msg[rows[k]].started \in Nat
         /\ RefOf(k) \in Ref
<1>0. rows[k] \in 0..MaxMessages /\ rows[k] # 0
  BY DEF TypeOK
<1>1. rows[k] \in Messages
  BY <1>0, MaxMessagesAssumption
<1>2. msg[rows[k]] \in Message
  BY <1>1 DEF TypeOK
<1>3. msg[rows[k]].secs \in Seconds \cup {0} /\ msg[rows[k]].started \in Nat
  BY <1>2 DEF Message
<1>a. \A s \in Seconds \cup {0} : s \in Nat
  BY SecondsAssumption
<1>b. msg[rows[k]].secs \in Nat
  BY <1>3, <1>a
<1>4. Millis(rows[k]) \in Nat
  BY <1>b, ScaleAssumption DEF Millis
<1> QED
  BY <1>1, <1>3, <1>4 DEF RefOf

LEMMA InsertRowTypes ==
  ASSUME TypeOK, NEW k \in Keys, NEW out \in BOOLEAN, NEW secs \in Seconds,
         InsertRow(k, out, secs)
  PROVE  /\ inserted' \in 0..MaxMessages
         /\ rows' \in [Keys -> 0..MaxMessages]
         /\ msg' \in [Messages -> Message]
<1>1. inserted + 1 \in 1..MaxMessages
  BY MaxMessagesAssumption DEF TypeOK, InsertRow
<1>2. [key |-> k, out |-> out, secs |-> secs, started |-> 0, first |-> 0] \in Message
  BY DEF Message
<1> QED
  BY <1>1, <1>2, MaxMessagesAssumption DEF TypeOK, InsertRow

LEMMA BeginTypes ==
  ASSUME TypeOK, NEW c \in Callers, NEW k \in Keys, NEW start \in Nat,
         NEW delay \in Nat, Begin(c, k, start, delay)
  PROVE  caller' \in [Callers -> Caller]
<1>1. [pc |-> "mark", key |-> k, start |-> start, delay |-> delay] \in Caller
  BY DEF Caller
<1> QED
  BY <1>1 DEF TypeOK, Begin

LEMMA StartTypes ==
  ASSUME TypeOK, NEW c \in Callers
  PROVE  StartOf(c) \in Nat /\ ExpiresAt(c) \in Nat /\ caller[c].key \in Keys
BY DEF TypeOK, Caller, StartOf, ExpiresAt

(* Every step keeps the variables in their types.                          *)
LEMMA TypeInductive ==
  ASSUME TypeOK, [Next]_vars
  PROVE  TypeOK'
<1> USE Constants
<1>1. CASE \E k \in Keys, out \in BOOLEAN, s \in Seconds : InsertMessage(k, out, s)
  <2>1. PICK k \in Keys, out \in BOOLEAN, s \in Seconds : InsertMessage(k, out, s)
    BY <1>1
  <2>2. InsertRow(k, out, s)
    BY <2>1 DEF InsertMessage
  <2> QED
    BY <2>1, <2>2, InsertRowTypes DEF InsertMessage, TypeOK
<1>2. CASE \E k \in Keys : DeleteMessage(k)
  <2>1. PICK k \in Keys : DeleteMessage(k)
    BY <1>2
  <2>2. deletes' \in 0..MaxDeletes
    BY <2>1, CrashAssumption DEF DeleteMessage, TypeOK
  <2>3. rows' \in [Keys -> 0..MaxMessages]
    BY <2>1, MaxMessagesAssumption DEF DeleteMessage, TypeOK
  <2> QED
    BY <2>1, <2>2, <2>3 DEF DeleteMessage, TypeOK
<1>3. CASE \E c \in Callers : CallerStep(c)
  <2>0. PICK c \in Callers : CallerStep(c)
    BY <1>3
  <2>1. ASSUME NEW k \in Keys, Seen(c, k) \/ Sent(c, k) PROVE TypeOK'
    <3>1. Begin(c, k, 0, Millis(rows[k])) /\ Present(k)
      BY <2>1 DEF Seen, Sent
    <3>2. caller' \in [Callers -> Caller]
      BY <3>1, TimerTypes, BeginTypes
    <3> QED
      BY <2>1, <3>2 DEF Seen, Sent, TypeOK
  <2>2. ASSUME NEW k \in Keys, NEW t \in 1..LastStart, SyncRead(c, k, t) PROVE TypeOK'
    <3>1. Begin(c, k, t, Millis(rows[k])) /\ Present(k) /\ t \in Nat
      BY <2>2, TimeAssumption DEF SyncRead
    <3>2. caller' \in [Callers -> Caller]
      BY <3>1, TimerTypes, BeginTypes
    <3> QED
      BY <2>2, <3>2 DEF SyncRead, TypeOK
  <2>3. ASSUME NEW k \in Keys, NEW s \in Seconds, NEW t \in 1..LastStart,
               SyncSent(c, k, s, t)
        PROVE TypeOK'
    <3> DEFINE delay == IF k.mms THEN s ELSE s * MillisPerSecond
    <3>1. delay \in Nat /\ t \in Nat
      BY SecondsAssumption, ScaleAssumption, TimeAssumption
    <3>2. Begin(c, k, t, delay) /\ InsertRow(k, TRUE, s)
      BY <2>3 DEF SyncSent
    <3> HIDE DEF delay
    <3>3. caller' \in [Callers -> Caller]
      BY <3>1, <3>2, BeginTypes
    <3>4. /\ inserted' \in 0..MaxMessages
          /\ rows' \in [Keys -> 0..MaxMessages]
          /\ msg' \in [Messages -> Message]
      BY <3>2, InsertRowTypes
    <3> QED
      BY <2>3, <3>3, <3>4 DEF SyncSent, TypeOK
  <2>4. CASE MarkExpireStarted(c)
    <3>1. caller' \in [Callers -> Caller]
      BY <2>4 DEF MarkExpireStarted, TypeOK, Caller
    <3>2. msg' \in [Messages -> Message]
      <4> DEFINE k == caller[c].key
                 old == msg[rows[k]]
                 new == [old EXCEPT !.started = StartOf(c),
                                    !.first = IF @ = 0 \/ StartOf(c) < @
                                              THEN StartOf(c) ELSE @]
      <4>1. StartOf(c) \in Nat /\ k \in Keys
        BY StartTypes
      <4>2. CASE ~Present(k)
        BY <2>4, <4>2 DEF MarkExpireStarted, TypeOK
      <4>3. CASE Present(k)
        <5>1. old \in Message
          BY <4>1, <4>3, TimerTypes DEF TypeOK
        <5>2. new \in Message
          BY <4>1, <5>1 DEF Message
        <5>3. msg' = [msg EXCEPT ![rows[k]] = new]
          BY <2>4, <4>3 DEF MarkExpireStarted, TypeOK
        <5> QED
          BY <5>2, <5>3 DEF TypeOK
      <4> QED
        BY <4>2, <4>3
    <3> QED
      BY <2>4, <3>1, <3>2 DEF MarkExpireStarted, TypeOK
  <2>5. CASE ScheduleDeletion(c)
    <3>1. refs' \subseteq Ref
      BY <2>5, StartTypes DEF ScheduleDeletion, TypeOK
    <3>2. loader' \in Loader
      BY <2>5 DEF ScheduleDeletion, TypeOK, Loader
    <3> QED
      BY <2>5, <3>1, <3>2 DEF ScheduleDeletion, TypeOK
  <2> QED
    BY <2>0, <2>1, <2>2, <2>3, <2>4, <2>5 DEF CallerStep
<1>4. CASE LoadTask
  <2>1. ASSUME NEW t \in BOOLEAN, LoadQuery(t) PROVE TypeOK'
    <3>1. {RefOf(k) : k \in {j \in Keys : j.mms = t /\ Started(j)}} \subseteq Ref
      BY TimerTypes DEF Started
    <3>2. loader' \in Loader
      BY <2>1, <3>1 DEF LoadQuery, TypeOK, Loader
    <3> QED
      BY <2>1, <3>2 DEF LoadQuery, TypeOK
  <2>2. ASSUME NEW r \in loader.found, LoadBegin(r) PROVE TypeOK'
    <3>1. loader' \in Loader
      <4>1. loader \in Loader
        BY DEF TypeOK
      <4> QED
        BY <2>2, <4>1 DEF LoadBegin, Loader
    <3> QED
      BY <2>2, <3>1 DEF LoadBegin, TypeOK
  <2>3. CASE LoadEnd
    <3>1. loader' \in Loader /\ loader.adding \subseteq Ref
      BY <2>3 DEF LoadEnd, TypeOK, Loader
    <3>2. refs' \subseteq Ref
      BY <2>3, <3>1 DEF LoadEnd, TypeOK
    <3> QED
      BY <2>3, <3>1, <3>2 DEF LoadEnd, TypeOK
  <2>4. CASE LoadDone
    BY <2>4 DEF LoadDone, TypeOK
  <2> QED
    BY <1>4, <2>1, <2>2, <2>3, <2>4 DEF LoadTask
<1>5. CASE ProcessTask
  <2>1. CASE WaitForReference
    BY <2>1 DEF WaitForReference, TypeOK
  <2>2. ASSUME NEW r \in refs, WaitForDeadline(r) PROVE TypeOK'
    <3>1. proc' \in Processor /\ alarm' \in Nat
      BY <2>2 DEF WaitForDeadline, TypeOK, Processor
    <3> QED
      BY <2>2, <3>1 DEF WaitForDeadline, TypeOK
  <2>3. ASSUME NEW r \in refs, TakeExpired(r) PROVE TypeOK'
    <3>1. proc' \in Processor
      BY <2>3 DEF TakeExpired, TypeOK, Processor
    <3> QED
      BY <2>3, <3>1 DEF TakeExpired, TypeOK
  <2>4. CASE DeleteExpired
    <3>0. 0 \in 0..MaxMessages
      BY MaxMessagesAssumption
    <3>1. rows' \in [Keys -> 0..MaxMessages]
      BY <2>4, <3>0 DEF DeleteExpired, TypeOK
    <3> QED
      BY <2>4, <3>1 DEF DeleteExpired, TypeOK
  <2> QED
    BY <1>5, <2>1, <2>2, <2>3, <2>4 DEF ProcessTask
<1>6. CASE WaitTimeout
  BY <1>6 DEF WaitTimeout, TypeOK
<1>7. CASE Start
  BY <1>7 DEF Start, TypeOK
<1>8. CASE AlarmFires
  BY <1>8 DEF AlarmFires, TypeOK
<1>9. CASE \E reboot \in BOOLEAN : Crash(reboot)
  <2>0. PICK reboot \in BOOLEAN : Crash(reboot)
    BY <1>9
  <2>1. caller' \in [Callers -> Caller]
    BY <2>0 DEF Crash
  <2>2. crashes' \in 0..MaxCrashes
    BY <2>0, CrashAssumption DEF Crash, TypeOK
  <2>3. alarm' \in Nat
    BY <2>0 DEF Crash, TypeOK
  <2> QED
    BY <2>0, <2>1, <2>2, <2>3 DEF Crash, TypeOK
<1>10. CASE Tick
  BY <1>10 DEF Tick, TypeOK
<1>11. CASE UNCHANGED vars
  BY <1>11 DEF vars, TypeOK
<1> QED
  BY <1>1, <1>2, <1>3, <1>4, <1>5, <1>6, <1>7, <1>8, <1>9, <1>10, <1>11 DEF Next

LEMMA TypeInitial == Init => TypeOK
<1> SUFFICES ASSUME Init PROVE TypeOK
  OBVIOUS
<1>1. 0 \in 0..MaxMessages /\ 0 \in 0..MaxCrashes /\ 0 \in 0..MaxDeletes
  BY MaxMessagesAssumption, CrashAssumption
<1>2. /\ msg \in [Messages -> Message]
      /\ rows \in [Keys -> 0..MaxMessages]
      /\ caller \in [Callers -> Caller]
  BY <1>1, Constants DEF Init
<1>3. loader \in Loader /\ proc \in Processor
  BY Constants DEF Init
<1> QED
  BY <1>1, <1>2, <1>3 DEF Init, TypeOK

(* Every variable of the manager, the tables and the callers has its type  *)
(* in every reachable state.                                               *)
THEOREM TypeCorrect == Spec => []TypeOK
<1>1. TypeOK /\ [Next]_vars => TypeOK'
  BY TypeInductive
<1> QED
  BY TypeInitial, <1>1, PTL DEF Spec

-----------------------------------------------------------------------------
(* No running timer is forgotten *)

(* A message is in at most one row, the one it was inserted at, and the    *)
(* rows hold inserted messages only: without this, marking one row could   *)
(* start the timer of another.                                             *)
RowsOwn ==
  \A k \in Keys : Present(k) => rows[k] <= inserted /\ msg[rows[k]].key = k

Inv == TypeOK /\ RowsOwn /\ Tracked

LEMMA RowsOwnInductive ==
  ASSUME TypeOK, RowsOwn, [Next]_vars
  PROVE  RowsOwn'
<1>1. ASSUME NEW k \in Keys, NEW out, NEW secs, InsertRow(k, out, secs)
      PROVE  RowsOwn'
  <2>1. inserted + 1 \in Messages /\ inserted \in Nat /\ inserted' = inserted + 1
    BY <1>1, MaxMessagesAssumption DEF InsertRow, TypeOK
  <2> SUFFICES ASSUME NEW j \in Keys, rows'[j] # 0
               PROVE  rows'[j] <= inserted' /\ msg'[rows'[j]].key = j
    BY DEF RowsOwn
  <2>2. CASE j = k
    <3>1. rows'[j] = inserted + 1
      BY <1>1, <2>2 DEF InsertRow, TypeOK
    <3>2. msg'[inserted + 1].key = k
      BY <1>1, <2>1 DEF InsertRow, TypeOK
    <3> QED
      BY <2>1, <2>2, <3>1, <3>2
  <2>3. CASE j # k
    <3>1. rows'[j] = rows[j] /\ rows[j] <= inserted /\ msg[rows[j]].key = j
      BY <1>1, <2>3 DEF InsertRow, TypeOK, RowsOwn
    <3>a. rows[j] \in 0..MaxMessages
      BY DEF TypeOK
    <3>2. rows[j] \in Nat /\ rows[j] # inserted + 1
      BY <2>1, <3>1, <3>a
    <3> QED
      BY <1>1, <2>1, <3>1, <3>2 DEF InsertRow, TypeOK
  <2> QED
    BY <2>2, <2>3
<1>2. ASSUME UNCHANGED <<msg, inserted>>,
             \A k \in Keys : rows'[k] \in {rows[k], 0}
      PROVE  RowsOwn'
  BY <1>2 DEF RowsOwn
<1>3. ASSUME NEW c \in Callers, MarkExpireStarted(c)
      PROVE  RowsOwn'
  <2>1. UNCHANGED <<rows, inserted>>
    BY <1>3 DEF MarkExpireStarted
  <2>2. ASSUME NEW m \in Messages PROVE msg'[m].key = msg[m].key
    BY <1>3, <2>2 DEF MarkExpireStarted, TypeOK, Message
  <2>3. \A k \in Keys : Present(k) => rows[k] \in Messages
    BY TimerTypes
  <2> QED
    BY <2>1, <2>2, <2>3 DEF RowsOwn
<1>4. CASE \E k \in Keys, out \in BOOLEAN, s \in Seconds : InsertMessage(k, out, s)
  BY <1>1, <1>4 DEF InsertMessage
<1>5. CASE \E c \in Callers : CallerStep(c)
  <2>0. PICK c \in Callers : CallerStep(c)
    BY <1>5
  <2>1. CASE \E k \in Keys : Seen(c, k) \/ Sent(c, k)
    BY <1>2, <2>1 DEF Seen, Sent
  <2>2. CASE \E k \in Keys, t \in 1..LastStart : SyncRead(c, k, t)
    BY <1>2, <2>2 DEF SyncRead
  <2>3. CASE \E k \in Keys, s \in Seconds, t \in 1..LastStart : SyncSent(c, k, s, t)
    BY <1>1, <2>3 DEF SyncSent
  <2>4. CASE ScheduleDeletion(c)
    BY <1>2, <2>4 DEF ScheduleDeletion
  <2> QED
    BY <1>3, <2>0, <2>1, <2>2, <2>3, <2>4 DEF CallerStep
<1>6. CASE \E k \in Keys : DeleteMessage(k)
  BY <1>2, <1>6 DEF DeleteMessage, TypeOK
<1>7. CASE ProcessTask
  BY <1>2, <1>7 DEF ProcessTask, WaitForReference, WaitForDeadline, TakeExpired,
     DeleteExpired, TypeOK
<1>8. CASE LoadTask
  BY <1>2, <1>8 DEF LoadTask, LoadQuery, LoadBegin, LoadEnd, LoadDone
<1>9. CASE WaitTimeout \/ Start \/ AlarmFires \/ Tick
           \/ (\E reboot \in BOOLEAN : Crash(reboot)) \/ UNCHANGED vars
  BY <1>2, <1>9 DEF WaitTimeout, Start, AlarmFires, Tick, Crash, vars
<1> QED
  BY <1>4, <1>5, <1>6, <1>7, <1>8, <1>9 DEF Next

(* A step that starts no timer, and after which everyone who owed a        *)
(* deletion still owes it, keeps the invariant.                            *)
LEMMA StillOwed ==
  ASSUME Inv,
         Up' => Up, corrupted' = corrupted,
         \A k \in Keys : Started(k)' => Started(k),
         \A k \in Keys : Owed(k) /\ Started(k)' => Owed(k)'
  PROVE  Tracked'
BY DEF Inv, Tracked

LEMMA TrackedInductive ==
  ASSUME Inv, [Next]_vars
  PROVE  Tracked'
<1> USE DEF Inv
<1>1. ASSUME NEW k \in Keys, NEW out, NEW secs, InsertRow(k, out, secs)
      PROVE  \A j \in Keys : Started(j)' => Started(j)
  <2>1. inserted + 1 \in Messages /\ inserted \in Nat
    BY <1>1, MaxMessagesAssumption DEF InsertRow, TypeOK
  <2> SUFFICES ASSUME NEW j \in Keys, Started(j)' PROVE Started(j)
    OBVIOUS
  <2>2. CASE j = k
    <3>1. rows'[k] = inserted + 1
      BY <1>1 DEF InsertRow, TypeOK
    <3>2. msg'[inserted + 1].started = 0
      BY <1>1, <2>1 DEF InsertRow, TypeOK
    <3> QED
      BY <2>2, <3>1, <3>2 DEF Started
  <2>3. CASE j # k
    <3>1. rows'[j] = rows[j] /\ rows[j] # 0 /\ rows[j] <= inserted
      BY <1>1, <2>3 DEF InsertRow, TypeOK, RowsOwn, Started
    <3>a. rows[j] \in 0..MaxMessages
      BY DEF TypeOK
    <3>2. rows[j] \in Nat /\ rows[j] # inserted + 1
      BY <2>1, <3>1, <3>a
    <3>3. msg'[rows[j]] = msg[rows[j]]
      BY <1>1, <3>1, <3>2, TimerTypes DEF InsertRow, TypeOK
    <3> QED
      BY <3>1, <3>3 DEF Started
  <2> QED
    BY <2>2, <2>3
<1>2. CASE \E k \in Keys, out \in BOOLEAN, s \in Seconds : InsertMessage(k, out, s)
  <2>1. PICK k \in Keys, out \in BOOLEAN, s \in Seconds : InsertMessage(k, out, s)
    BY <1>2
  <2>2. \A j \in Keys : Started(j)' => Started(j)
    BY <1>1, <2>1 DEF InsertMessage
  <2>3. \A j \in Keys : Owed(j) => Owed(j)'
    BY <2>1 DEF InsertMessage, Owed
  <2> QED
    BY <2>1, <2>2, <2>3, StillOwed DEF InsertMessage
<1>3. CASE \E k \in Keys : DeleteMessage(k)
  <2>1. PICK k \in Keys : DeleteMessage(k)
    BY <1>3
  <2>2. \A j \in Keys : Started(j)' => Started(j)
    BY <2>1 DEF DeleteMessage, Started, TypeOK
  <2>3. \A j \in Keys : Owed(j) => Owed(j)'
    BY <2>1 DEF DeleteMessage, Owed
  <2> QED
    BY <2>1, <2>2, <2>3, StillOwed DEF DeleteMessage
<1>4. CASE \E c \in Callers : CallerStep(c)
  <2>0. PICK c \in Callers : CallerStep(c)
    BY <1>4
  <2>1. ASSUME NEW k \in Keys, NEW start, NEW delay, Begin(c, k, start, delay),
               UNCHANGED <<refs, loader, proc>>
        PROVE  \A j \in Keys : Owed(j) => Owed(j)'
    <3> SUFFICES ASSUME NEW j \in Keys, Owed(j) PROVE Owed(j)'
      OBVIOUS
    <3>1. \A d \in Callers : caller[d].pc = "schedule" => caller'[d] = caller[d]
      BY <2>1 DEF Begin, TypeOK
    <3>2. CASE \E d \in Callers : caller[d].pc = "schedule" /\ caller[d].key = j
      BY <3>1, <3>2 DEF Owed
    <3>3. CASE ~\E d \in Callers : caller[d].pc = "schedule" /\ caller[d].key = j
      BY <2>1, <3>3 DEF Owed
    <3> QED
      BY <3>2, <3>3
  <2>2. ASSUME NEW k \in Keys, Seen(c, k) \/ Sent(c, k) PROVE Tracked'
    <3>1. \A j \in Keys : Owed(j) => Owed(j)'
      BY <2>1, <2>2 DEF Seen, Sent
    <3>2. UNCHANGED <<rows, msg, proc, corrupted>>
      BY <2>2 DEF Seen, Sent
    <3> QED
      BY <3>1, <3>2, StillOwed DEF Started
  <2>3. ASSUME NEW k \in Keys, NEW t \in 1..LastStart, SyncRead(c, k, t)
        PROVE  Tracked'
    <3>1. \A j \in Keys : Owed(j) => Owed(j)'
      BY <2>1, <2>3 DEF SyncRead
    <3>2. UNCHANGED <<rows, msg, proc, corrupted>>
      BY <2>3 DEF SyncRead
    <3> QED
      BY <3>1, <3>2, StillOwed DEF Started
  <2>4. ASSUME NEW k \in Keys, NEW s \in Seconds, NEW t \in 1..LastStart,
               SyncSent(c, k, s, t)
        PROVE  Tracked'
    <3>1. \A j \in Keys : Owed(j) => Owed(j)'
      BY <2>1, <2>4 DEF SyncSent
    <3>2. \A j \in Keys : Started(j)' => Started(j)
      BY <1>1, <2>4 DEF SyncSent
    <3> QED
      BY <2>4, <3>1, <3>2, StillOwed DEF SyncSent
  <2>5. CASE MarkExpireStarted(c)
    <3> SUFFICES ASSUME Up', ~corrupted', NEW j \in Keys, Started(j)'
                 PROVE  Owed(j)'
      BY DEF Tracked
    <3>1. UNCHANGED <<rows, refs, loader, proc, corrupted>>
      BY <2>5 DEF MarkExpireStarted
    <3>2. CASE j = caller[c].key
      <4>1. caller'[c].pc = "schedule" /\ caller'[c].key = j
        BY <2>5, <3>2 DEF MarkExpireStarted, TypeOK, Caller
      <4> QED
        BY <4>1 DEF Owed
    <3>3. CASE j # caller[c].key
      <4>1. rows[j] \in Messages /\ Present(j)
        BY <3>1, TimerTypes DEF Started
      <4>2. Present(caller[c].key) => rows[j] # rows[caller[c].key]
        BY <3>3, <4>1, StartTypes DEF RowsOwn
      <4>3. msg'[rows[j]] = msg[rows[j]]
        BY <2>5, <4>1, <4>2 DEF MarkExpireStarted, TypeOK
      <4>4. Owed(j)
        BY <3>1, <4>3 DEF Tracked, Started
      <4>5. \A d \in Callers : caller[d].pc = "schedule" => caller'[d] = caller[d]
        BY <2>5 DEF MarkExpireStarted, TypeOK
      <4>6. CASE \E d \in Callers : caller[d].pc = "schedule" /\ caller[d].key = j
        BY <4>5, <4>6 DEF Owed
      <4>7. CASE ~\E d \in Callers : caller[d].pc = "schedule" /\ caller[d].key = j
        BY <3>1, <4>4, <4>7 DEF Owed
      <4> QED
        BY <4>6, <4>7
    <3> QED
      BY <3>2, <3>3
  <2>6. CASE ScheduleDeletion(c)
    <3> DEFINE new == [key |-> caller[c].key, at |-> ExpiresAt(c)]
    <3>1. refs' = refs \cup {new} /\ UNCHANGED <<rows, msg, corrupted>>
      BY <2>6 DEF ScheduleDeletion
    <3>2. /\ loader'.tables = loader.tables
          /\ loader'.found = loader.found
          /\ loader'.adding = loader.adding
      BY <2>6 DEF ScheduleDeletion, TypeOK, Loader
    <3>3. /\ Up' => Up
          /\ proc.pc = "delete" => proc' = proc
      BY <2>6 DEF ScheduleDeletion, Notified, Waiting
    <3>4. \A d \in Callers : d # c => caller'[d] = caller[d]
      BY <2>6 DEF ScheduleDeletion, TypeOK
    <3>5. ASSUME NEW j \in Keys, Owed(j) PROVE Owed(j)'
      <4>1. CASE \E d \in Callers : caller[d].pc = "schedule" /\ caller[d].key = j
        <5>1. PICK d \in Callers : caller[d].pc = "schedule" /\ caller[d].key = j
          BY <4>1
        <5>2. CASE d = c
          <6>1. new \in refs' /\ new.key = j
            BY <3>1, <5>1, <5>2
          <6> QED
            BY <6>1 DEF Owed
        <5>3. CASE d # c
          BY <3>4, <5>1, <5>3 DEF Owed
        <5> QED
          BY <5>2, <5>3
      <4>2. CASE ~\E d \in Callers : caller[d].pc = "schedule" /\ caller[d].key = j
        BY <3>1, <3>2, <3>3, <3>5, <4>2 DEF Owed
      <4> QED
        BY <4>1, <4>2
    <3> QED
      BY <3>1, <3>3, <3>5, StillOwed DEF Started
  <2> QED
    BY <2>0, <2>2, <2>3, <2>4, <2>5, <2>6 DEF CallerStep
<1>5. CASE LoadTask
  <2>1. ASSUME NEW t \in BOOLEAN, LoadQuery(t) PROVE Tracked'
    <3>1. UNCHANGED <<rows, msg, proc, corrupted, refs, caller>>
      BY <2>1 DEF LoadQuery
    <3>2. /\ loader'.tables = loader.tables \ {t}
          /\ loader'.found = loader.found \cup
               {RefOf(k) : k \in {j \in Keys : j.mms = t /\ Started(j)}}
          /\ loader'.adding = loader.adding
      BY <2>1 DEF LoadQuery, TypeOK, Loader
    <3>3. ASSUME NEW j \in Keys, Owed(j), Started(j) PROVE Owed(j)'
      <4>1. CASE j.mms = t
        <5>1. RefOf(j) \in loader'.found /\ RefOf(j).key = j
          BY <3>2, <3>3, <4>1 DEF RefOf
        <5> QED
          BY <5>1 DEF Owed
      <4>2. CASE j.mms # t
        BY <3>1, <3>2, <3>3, <4>2 DEF Owed
      <4> QED
        BY <4>1, <4>2
    <3> QED
      BY <3>1, <3>3, StillOwed DEF Started
  <2>2. ASSUME NEW r \in loader.found, LoadBegin(r) PROVE Tracked'
    <3>1. UNCHANGED <<rows, msg, proc, corrupted, refs, caller>>
      BY <2>2 DEF LoadBegin
    <3>2. /\ loader'.tables = loader.tables
          /\ loader'.found \cup loader'.adding = loader.found \cup loader.adding
      BY <2>2 DEF LoadBegin, TypeOK, Loader
    <3>3. \A j \in Keys : Owed(j) => Owed(j)'
      BY <3>1, <3>2 DEF Owed
    <3> QED
      BY <3>1, <3>3, StillOwed DEF Started
  <2>3. CASE LoadEnd
    <3>0. CASE corrupted'
      BY <3>0 DEF Tracked
    <3>1. CASE ~corrupted'
      <4>1. /\ refs' = refs \cup loader.adding
            /\ UNCHANGED <<rows, msg, proc, corrupted, caller>>
        BY <2>3, <3>1 DEF LoadEnd
      <4>2. loader'.tables = loader.tables /\ loader'.found = loader.found
        BY <2>3 DEF LoadEnd, TypeOK, Loader
      <4>3. \A j \in Keys : Owed(j) => Owed(j)'
        BY <4>1, <4>2 DEF Owed
      <4> QED
        BY <4>1, <4>3, StillOwed DEF Started
    <3> QED
      BY <3>0, <3>1
  <2>4. CASE LoadDone
    <3>1. UNCHANGED <<rows, msg, corrupted, refs, caller, loader>>
      BY <2>4 DEF LoadDone
    <3>2. proc.pc = "load" /\ proc'.pc = "run"
      BY <2>4 DEF LoadDone, Waiting
    <3>3. \A j \in Keys : Owed(j) => Owed(j)'
      BY <3>1, <3>2 DEF Owed
    <3> QED
      BY <3>1, <3>2, <3>3, StillOwed DEF Started
  <2> QED
    BY <1>5, <2>1, <2>2, <2>3, <2>4 DEF LoadTask
<1>6. CASE ProcessTask
  <2>1. CASE WaitForReference \/ \E r \in refs : WaitForDeadline(r)
    <3>1. UNCHANGED <<rows, msg, corrupted, refs, caller, loader>>
      BY <2>1 DEF WaitForReference, WaitForDeadline
    <3>2. proc.pc = "run"
      BY <2>1 DEF WaitForReference, WaitForDeadline
    <3>3. \A j \in Keys : Owed(j) => Owed(j)'
      BY <3>1, <3>2 DEF Owed
    <3> QED
      BY <3>1, <3>2, <3>3, StillOwed DEF Started
  <2>2. ASSUME NEW r \in refs, TakeExpired(r) PROVE Tracked'
    <3>1. UNCHANGED <<rows, msg, corrupted, caller, loader>> /\ refs' = refs \ {r}
      BY <2>2 DEF TakeExpired
    <3>2. proc.pc = "run" /\ proc'.pc = "delete" /\ proc'.ref = r
      BY <2>2 DEF TakeExpired, Waiting
    <3>3. \A j \in Keys : Owed(j) => Owed(j)'
      BY <3>1, <3>2 DEF Owed
    <3> QED
      BY <3>1, <3>2, <3>3, StillOwed DEF Started
  <2>3. CASE DeleteExpired
    <3>1. UNCHANGED <<msg, corrupted, refs, caller, loader>>
      BY <2>3 DEF DeleteExpired
    <3>2. /\ rows' = [rows EXCEPT ![proc.ref.key] = 0]
          /\ proc.pc = "delete"
      BY <2>3 DEF DeleteExpired
    <3>3. ASSUME NEW j \in Keys, Started(j)' PROVE j # proc.ref.key /\ Started(j)
      BY <3>1, <3>2, <3>3 DEF Started, TypeOK
    <3>4. \A j \in Keys : Owed(j) /\ Started(j)' => Owed(j)'
      BY <3>1, <3>3 DEF Owed
    <3> QED
      BY <3>1, <3>2, <3>3, <3>4, StillOwed
  <2> QED
    BY <1>6, <2>1, <2>2, <2>3 DEF ProcessTask
<1>7. CASE WaitTimeout \/ Tick \/ UNCHANGED vars
  <2>1. UNCHANGED <<rows, msg, corrupted, refs, caller, loader>>
    BY <1>7 DEF WaitTimeout, Tick, vars
  <2>2. (Up' => Up) /\ (proc.pc = "delete" => proc' = proc)
    BY <1>7 DEF WaitTimeout, Tick, vars, Waiting
  <2>3. \A j \in Keys : Owed(j) => Owed(j)'
    BY <2>1, <2>2 DEF Owed
  <2> QED
    BY <2>1, <2>2, <2>3, StillOwed DEF Started
<1>8. CASE Start \/ AlarmFires
  <2>1. CASE ~Up
    <3>1. loader' = LoadBoth
      BY <1>8, <2>1 DEF Start, AlarmFires
    <3>2. \A k \in Keys : k.mms \in loader'.tables
      BY <3>1 DEF LoadBoth, NoLoad
    <3> QED
      BY <3>2 DEF Tracked, Owed
  <2>2. CASE Up
    <3>1. UNCHANGED <<rows, msg, corrupted, refs, caller, loader>>
      BY <1>8, <2>2 DEF Start, AlarmFires
    <3>2. proc.pc = "delete" => proc' = proc
      BY <1>8, <2>2 DEF Start, AlarmFires, Notified
    <3>3. \A j \in Keys : Owed(j) => Owed(j)'
      BY <3>1, <3>2 DEF Owed
    <3> QED
      BY <2>2, <3>1, <3>3, StillOwed DEF Started
  <2> QED
    BY <2>1, <2>2
<1>9. CASE \E reboot \in BOOLEAN : Crash(reboot)
  BY <1>9 DEF Crash, Waiting, Tracked
<1> QED
  BY <1>2, <1>3, <1>4, <1>5, <1>6, <1>7, <1>8, <1>9 DEF Next

(* While the process runs and its set is intact, every row whose timer     *)
(* runs has someone who will delete it: a reference, the processor, a      *)
(* caller on its way to scheduleDeletion, or LoadTask.                     *)
THEOREM TimersTracked == Spec => []Tracked
<1>1. Init => Inv
  <2> SUFFICES ASSUME Init PROVE Inv
    OBVIOUS
  <2>1. RowsOwn
    BY DEF Init, RowsOwn
  <2>2. Tracked
    BY DEF Init, Tracked, Started
  <2> QED
    BY <2>1, <2>2, TypeInitial DEF Inv
<1>2. Inv /\ [Next]_vars => Inv'
  BY TypeInductive, RowsOwnInductive, TrackedInductive DEF Inv
<1>3. Inv => Tracked
  BY DEF Inv
<1> QED
  BY <1>1, <1>2, <1>3, PTL DEF Spec

-----------------------------------------------------------------------------
(* ProcessTask never sleeps past a deadline *)

LEMMA OversleepInductive ==
  ASSUME TypeOK, NeverOversleeps, [Next]_vars
  PROVE  NeverOversleeps'
<1>1. ASSUME proc'.pc \notin {"empty", "timed"} PROVE NeverOversleeps'
  BY <1>1 DEF NeverOversleeps
<1>2. ASSUME UNCHANGED <<proc, refs, alarm>> PROVE NeverOversleeps'
  BY <1>2 DEF NeverOversleeps
<1>3. \A p : Notified(p).pc \notin {"empty", "timed"}
  BY DEF Notified, Waiting
<1>4. CASE \E k \in Keys, out \in BOOLEAN, s \in Seconds : InsertMessage(k, out, s)
  BY <1>2, <1>4 DEF InsertMessage
<1>5. CASE \E k \in Keys : DeleteMessage(k)
  BY <1>2, <1>5 DEF DeleteMessage
<1>6. CASE \E c \in Callers : CallerStep(c)
  BY <1>1, <1>2, <1>3, <1>6 DEF CallerStep, Seen, Sent, SyncRead, SyncSent,
     MarkExpireStarted, ScheduleDeletion
<1>7. CASE LoadTask
  <2>1. proc.pc = "load" /\ (proc' = proc \/ proc' = Waiting("run"))
    BY <1>7 DEF LoadTask, LoadQuery, LoadBegin, LoadEnd, LoadDone
  <2> QED
    BY <1>1, <2>1 DEF Waiting
<1>8. CASE WaitForReference
  BY <1>8 DEF WaitForReference, Waiting, NeverOversleeps
<1>9. ASSUME NEW r \in refs, WaitForDeadline(r) PROVE NeverOversleeps'
  <2>1. proc'.pc = "timed" /\ proc'.until = r.at /\ alarm' = r.at /\ refs' = refs
    BY <1>9 DEF WaitForDeadline, Waiting
  <2>a. \A s \in refs : s.at \in Nat
    BY DEF TypeOK
  <2>2. \A s \in refs : r.at <= s.at
    BY <1>9, <2>a DEF WaitForDeadline, IsFirst, Before
  <2> QED
    BY <2>1, <2>2 DEF NeverOversleeps
<1>10. CASE (\E r \in refs : TakeExpired(r)) \/ DeleteExpired \/ WaitTimeout
            \/ Start \/ \E reboot \in BOOLEAN : Crash(reboot)
  BY <1>1, <1>10 DEF TakeExpired, DeleteExpired, WaitTimeout, Start, Crash, Waiting
<1>11. CASE AlarmFires
  BY <1>1, <1>3, <1>11 DEF AlarmFires, Waiting
<1>12. CASE Tick \/ UNCHANGED vars
  BY <1>2, <1>12 DEF Tick, vars
<1> QED
  BY <1>4, <1>5, <1>6, <1>7, <1>8, <1>9, <1>10, <1>11, <1>12 DEF Next, ProcessTask

(* Whenever ProcessTask waits, it waits no longer than until the earliest  *)
(* reference is due, and the alarm for that time is pending.               *)
THEOREM NoOversleeping == Spec => []NeverOversleeps
<1>1. Init => TypeOK /\ NeverOversleeps
  BY TypeInitial DEF Init, Waiting, NeverOversleeps
<1>2. TypeOK /\ NeverOversleeps /\ [Next]_vars => (TypeOK /\ NeverOversleeps)'
  BY TypeInductive, OversleepInductive
<1> QED
  BY <1>1, <1>2, PTL DEF Spec

-----------------------------------------------------------------------------
(* A message alone on its id is kept until its timer has run out           *)

(* Every reference there is: in the set, in LoadTask's hands, or taken.    *)
AllRefs ==
  refs \cup loader.found \cup loader.adding
    \cup (IF proc.pc = "delete" THEN {proc.ref} ELSE {})

(* Some message was inserted under the key: references and callers carry   *)
(* no other keys, so the first message of a key inherits none of them.     *)
Known(k) == \E n \in 1..inserted : msg[n].key = k

(* The row of the key holds the only message the key was ever given to.    *)
Alone(k) == Present(k) /\ \A n \in 1..inserted : msg[n].key = k => n = rows[k]

(* A reference to such a message is not due before its timer has run out;  *)
(* a caller at work on it has its timer, and marked it before scheduling.  *)
RefTimed(r) ==
  /\ Known(r.key)
  /\ Alone(r.key) =>
       /\ msg[rows[r.key]].secs > 0
       /\ msg[rows[r.key]].first > 0
       /\ r.at >= msg[rows[r.key]].first + Millis(rows[r.key])

CallerTimed(c) ==
  caller[c].pc # "idle" =>
    /\ Known(caller[c].key)
    /\ Alone(caller[c].key) =>
         /\ msg[rows[caller[c].key]].secs > 0
         /\ caller[c].delay = Millis(rows[caller[c].key])
         /\ caller[c].pc = "schedule" =>
              /\ msg[rows[caller[c].key]].first > 0
              /\ msg[rows[caller[c].key]].first <= StartOf(c)

RowTimed(k) ==
  Alone(k) /\ Started(k) =>
    /\ msg[rows[k]].secs > 0
    /\ msg[rows[k]].first > 0
    /\ msg[rows[k]].first <= msg[rows[k]].started

Timed ==
  /\ now > 0
  /\ proc.pc = "delete" => proc.ref.at <= now
  /\ \A r \in AllRefs : RefTimed(r)
  /\ \A c \in Callers : CallerTimed(c)
  /\ \A k \in Keys : RowTimed(k)

TimedInv == TypeOK /\ RowsOwn /\ Timed

(* What every step grants a key that was known: it stays known, and if its *)
(* message is alone afterwards it was before, the same message with the    *)
(* same timer, and its first start has only moved to an earlier time.      *)
Calm(k) ==
  Known(k) =>
    /\ Known(k)'
    /\ Alone(k)' =>
         /\ Alone(k)
         /\ rows'[k] = rows[k]
         /\ msg'[rows[k]].secs = msg[rows[k]].secs
         /\ msg[rows[k]].first > 0 => /\ msg'[rows[k]].first > 0
                                      /\ msg'[rows[k]].first <= msg[rows[k]].first

LEMMA MessageTypes ==
  ASSUME TypeOK, NEW m \in Messages
  PROVE  /\ msg[m].key \in Keys
         /\ msg[m].secs \in Nat
         /\ msg[m].started \in Nat
         /\ msg[m].first \in Nat
         /\ Millis(m) \in Nat
<1>1. msg[m] \in Message
  BY DEF TypeOK
<1>2. \A s \in Seconds \cup {0} : s \in Nat
  BY SecondsAssumption
<1>3. msg[m].secs \in Nat
  BY <1>1, <1>2 DEF Message
<1> QED
  BY <1>1, <1>3, ScaleAssumption DEF Message, Millis

(* The row just inserted is the only one of its key when no message had    *)
(* the key before; the other keys are as they were.                        *)
LEMMA InsertCalm ==
  ASSUME TypeOK, RowsOwn, NEW k \in Keys, NEW out, NEW secs, InsertRow(k, out, secs)
  PROVE  /\ \A j \in Keys : Calm(j)
         /\ Known(k)'
         /\ \A j \in Keys : Alone(j)' /\ ~Known(j) => j = k
         /\ rows'[k] = inserted + 1
         /\ msg'[inserted + 1] = [key |-> k, out |-> out, secs |-> secs,
                                  started |-> 0, first |-> 0]
         /\ \A j \in Keys : j # k => rows'[j] = rows[j]
         /\ \A m \in 1..inserted : msg'[m] = msg[m]
<1>1. /\ inserted \in Nat /\ inserted + 1 \in Messages /\ inserted' = inserted + 1
      /\ 1..inserted \subseteq Messages
  BY MaxMessagesAssumption DEF InsertRow, TypeOK
<1>2. /\ rows'[k] = inserted + 1
      /\ \A j \in Keys : j # k => rows'[j] = rows[j]
  BY DEF InsertRow, TypeOK
<1>3. /\ msg'[inserted + 1] = [key |-> k, out |-> out, secs |-> secs,
                               started |-> 0, first |-> 0]
      /\ \A m \in 1..inserted : msg'[m] = msg[m]
  BY <1>1 DEF InsertRow, TypeOK
<1>4. 1..inserted' = 1..inserted \cup {inserted + 1}
  BY <1>1
<1>5. Known(k)' /\ \A j \in Keys : Known(j) => Known(j)'
  BY <1>3, <1>4 DEF Known
<1>6. ASSUME NEW j \in Keys, Known(j), Alone(j)'
      PROVE  j # k /\ Alone(j) /\ rows'[j] = rows[j] /\ rows[j] \in 1..inserted
  <2>1. PICK n \in 1..inserted : msg[n].key = j
    BY <1>6 DEF Known
  <2>2. n \in 1..inserted' /\ msg'[n].key = j
    BY <1>3, <1>4, <2>1
  <2>3. rows'[j] = n
    BY <1>6, <2>2 DEF Alone
  <2>4. j # k
    BY <1>1, <1>2, <2>1, <2>3
  <2>5. rows[j] = n
    BY <1>2, <2>3, <2>4
  <2>6. Present(j)
    BY <2>1, <2>5
  <2>7. ASSUME NEW i \in 1..inserted, msg[i].key = j PROVE i = rows[j]
    <3>1. i \in 1..inserted' /\ msg'[i].key = j
      BY <1>3, <1>4, <2>7
    <3> QED
      BY <1>6, <2>3, <2>5, <3>1 DEF Alone
  <2> QED
    BY <2>1, <2>3, <2>4, <2>5, <2>6, <2>7 DEF Alone
<1>7. ASSUME NEW j \in Keys PROVE Calm(j)
  <2> SUFFICES ASSUME Known(j), Alone(j)'
               PROVE  /\ Alone(j) /\ rows'[j] = rows[j]
                      /\ msg'[rows[j]] = msg[rows[j]]
                      /\ msg[rows[j]].first \in Nat
    BY <1>5 DEF Calm
  <2>1. Alone(j) /\ rows'[j] = rows[j] /\ rows[j] \in 1..inserted
    BY <1>6
  <2> QED
    BY <1>1, <1>3, <2>1, MessageTypes
<1>8. ASSUME NEW j \in Keys, Alone(j)', ~Known(j) PROVE j = k
  <2> SUFFICES ASSUME j # k PROVE FALSE
    OBVIOUS
  <2>1. rows[j] # 0
    BY <1>2, <1>8 DEF Alone
  <2>2. rows[j] <= inserted /\ msg[rows[j]].key = j /\ rows[j] \in 1..MaxMessages
    BY <2>1, TimerTypes DEF RowsOwn
  <2>3. rows[j] \in 1..inserted
    BY <1>1, <2>2, MaxMessagesAssumption
  <2> QED
    BY <1>8, <2>2, <2>3 DEF Known
<1> QED
  BY <1>2, <1>3, <1>5, <1>7, <1>8

(* Steps that leave the messages alone, and rows only for empty ones.      *)
LEMMA TableCalm ==
  ASSUME TypeOK, UNCHANGED <<msg, inserted>>,
         \A k \in Keys : rows'[k] \in {rows[k], 0}
  PROVE  \A k \in Keys : /\ Calm(k)
                         /\ Alone(k)' => Alone(k) /\ rows'[k] = rows[k]
<1> SUFFICES ASSUME NEW k \in Keys
             PROVE  Calm(k) /\ (Alone(k)' => Alone(k) /\ rows'[k] = rows[k])
  OBVIOUS
<1>1. Known(k)' <=> Known(k)
  BY DEF Known
<1>2. Alone(k)' => rows'[k] = rows[k] /\ Alone(k)
  BY DEF Alone
<1>3. Alone(k) => msg[rows[k]].first \in Nat
  BY TimerTypes, MessageTypes DEF Alone
<1> QED
  BY <1>1, <1>2, <1>3 DEF Calm

(* A reference that was timed still is after a calm step.                  *)
LEMMA RefKept ==
  ASSUME TypeOK, TypeOK', NEW r \in Ref, Calm(r.key), RefTimed(r)
  PROVE  RefTimed(r)'
<1> DEFINE k == r.key  m == rows[k]
<1>1. Known(k) /\ Known(k)'
  BY DEF RefTimed, Calm
<1> SUFFICES ASSUME Alone(k)'
             PROVE  /\ msg'[rows'[k]].secs > 0
                    /\ msg'[rows'[k]].first > 0
                    /\ r.at >= msg'[rows'[k]].first + Millis(rows[k])'
  BY <1>1 DEF RefTimed
<1>2. /\ Alone(k) /\ rows'[k] = m /\ msg'[m].secs = msg[m].secs
      /\ msg[m].first > 0 => msg'[m].first > 0 /\ msg'[m].first <= msg[m].first
  BY <1>1 DEF Calm
<1>3. msg[m].secs > 0 /\ msg[m].first > 0 /\ r.at >= msg[m].first + Millis(m)
  BY <1>2 DEF RefTimed
<1>4. Millis(rows[k])' = Millis(m)
  BY <1>2 DEF Millis
<1>5. m \in Messages /\ msg[m].first \in Nat /\ Millis(m) \in Nat /\ r.at \in Nat
  BY <1>2, TimerTypes, MessageTypes DEF Alone
<1>6. msg'[m].first \in Nat
  BY <1>5 DEF TypeOK, Message
<1> QED
  BY <1>2, <1>3, <1>4, <1>5, <1>6

(* So is a caller that did not move; its start is no earlier, as the clock *)
(* never goes back.                                                        *)
LEMMA CallerKept ==
  ASSUME TypeOK, TypeOK', now <= now', NEW c \in Callers, caller'[c] = caller[c],
         caller[c].pc # "idle" => Calm(caller[c].key), CallerTimed(c)
  PROVE  CallerTimed(c)'
<1> DEFINE k == caller[c].key  m == rows[k]
<1> SUFFICES ASSUME caller[c].pc # "idle"
             PROVE  /\ Known(k)'
                    /\ Alone(k)' =>
                         /\ msg'[rows'[k]].secs > 0
                         /\ caller[c].delay = Millis(rows[k])'
                         /\ caller[c].pc = "schedule" =>
                              /\ msg'[rows'[k]].first > 0
                              /\ msg'[rows'[k]].first <= StartOf(c)'
  BY DEF CallerTimed
<1>1. Known(k) /\ Known(k)'
  BY DEF CallerTimed, Calm
<1> SUFFICES ASSUME Alone(k)'
             PROVE  /\ msg'[rows'[k]].secs > 0
                    /\ caller[c].delay = Millis(rows[k])'
                    /\ caller[c].pc = "schedule" =>
                         /\ msg'[rows'[k]].first > 0
                         /\ msg'[rows'[k]].first <= StartOf(c)'
  BY <1>1
<1>2. /\ Alone(k) /\ rows'[k] = m /\ msg'[m].secs = msg[m].secs
      /\ msg[m].first > 0 => msg'[m].first > 0 /\ msg'[m].first <= msg[m].first
  BY <1>1 DEF Calm
<1>3. /\ msg[m].secs > 0 /\ caller[c].delay = Millis(m)
      /\ caller[c].pc = "schedule" => msg[m].first > 0 /\ msg[m].first <= StartOf(c)
  BY <1>2 DEF CallerTimed
<1>4. Millis(rows[k])' = Millis(m)
  BY <1>2 DEF Millis
<1>5. k \in Keys
  BY DEF TypeOK, Caller
<1>6. m \in Messages /\ msg[m].first \in Nat
  BY <1>2, <1>5, TimerTypes, MessageTypes DEF Alone
<1>7. msg'[m].first \in Nat
  BY <1>6 DEF TypeOK, Message
<1>8. StartOf(c) \in Nat /\ StartOf(c)' \in Nat /\ StartOf(c) <= StartOf(c)'
  BY DEF TypeOK, Caller, StartOf
<1> QED
  BY <1>2, <1>3, <1>4, <1>6, <1>7, <1>8

(* The rows' own starts after a step that starts no timer.                 *)
LEMMA RowKept ==
  ASSUME TypeOK, \A k \in Keys : RowTimed(k),
         \A k \in Keys : Alone(k)' /\ Started(k)' =>
            Alone(k) /\ rows'[k] = rows[k] /\ msg'[rows[k]] = msg[rows[k]]
  PROVE  \A k \in Keys : RowTimed(k)'
BY DEF RowTimed, Started

(* A step of the executor, the alarm, the clock or the user's deletion.    *)
LEMMA TablesTimed ==
  ASSUME TimedInv, TypeOK', now <= now',
         UNCHANGED <<msg, inserted>>,
         \A k \in Keys : rows'[k] \in {rows[k], 0},
         \A c \in Callers : caller'[c] \in {caller[c], Idle},
         \A r \in AllRefs' : r \in AllRefs \/ (r \in Ref /\ RefTimed(r)),
         proc'.pc = "delete" => proc'.ref.at <= now'
  PROVE  Timed'
<1>1. \A k \in Keys : Calm(k) /\ (Alone(k)' => Alone(k) /\ rows'[k] = rows[k])
  BY TableCalm DEF TimedInv
<1>2. \A r \in AllRefs : r \in Ref
  BY DEF TimedInv, TypeOK, AllRefs, Loader, Processor
<1>3. ASSUME NEW r \in AllRefs' PROVE RefTimed(r)'
  <2>1. r \in Ref /\ RefTimed(r)
    BY <1>2, <1>3 DEF TimedInv, Timed
  <2> QED
    BY <1>1, <2>1, RefKept DEF TimedInv
<1>4. ASSUME NEW c \in Callers PROVE CallerTimed(c)'
  <2>1. CASE caller'[c] = caller[c]
    <3>1. caller[c].key \in Keys
      BY DEF TimedInv, TypeOK, Caller
    <3>2. Calm(caller[c].key) /\ CallerTimed(c)
      BY <1>1, <3>1 DEF TimedInv, Timed
    <3> QED
      BY <2>1, <3>2, CallerKept DEF TimedInv
  <2>2. CASE caller'[c] = Idle
    BY <2>2 DEF CallerTimed, Idle
  <2> QED
    BY <2>1, <2>2
<1>5. \A k \in Keys : RowTimed(k)'
  BY <1>1, RowKept DEF TimedInv, Timed
<1>6. now' > 0
  BY DEF TimedInv, Timed, TypeOK
<1> QED
  BY <1>3, <1>4, <1>5, <1>6 DEF Timed

(* A caller takes up a message it found in the table, or a transcript's.   *)
LEMMA BeginTimed ==
  ASSUME TimedInv, TypeOK', NEW c \in Callers, NEW k \in Keys,
         NEW start \in Nat, NEW delay \in Nat, Begin(c, k, start, delay),
         UNCHANGED <<now, refs, loader, proc>>,
         \A j \in Keys : Calm(j),
         \A j \in Keys : RowTimed(j)',
         Known(k)',
         Alone(k)' => msg'[rows'[k]].secs > 0 /\ delay = Millis(rows[k])'
  PROVE  Timed'
<1>1. AllRefs' = AllRefs /\ \A r \in AllRefs : r \in Ref
  BY DEF TimedInv, TypeOK, AllRefs, Loader, Processor
<1>2. ASSUME NEW r \in AllRefs PROVE RefTimed(r)'
  BY <1>1, <1>2, RefKept DEF TimedInv, Timed
<1>3. ASSUME NEW d \in Callers PROVE CallerTimed(d)'
  <2>1. CASE d # c
    <3>1. caller'[d] = caller[d] /\ caller[d].key \in Keys
      BY <2>1 DEF Begin, TimedInv, TypeOK, Caller
    <3>2. Calm(caller[d].key) /\ CallerTimed(d)
      BY <3>1 DEF TimedInv, Timed
    <3>3. TypeOK /\ now <= now'
      BY DEF TimedInv, TypeOK
    <3> QED
      BY <3>1, <3>2, <3>3, CallerKept
  <2>2. CASE d = c
    <3>1. caller'[c] = [pc |-> "mark", key |-> k, start |-> start, delay |-> delay]
      BY DEF Begin, TimedInv, TypeOK
    <3> QED
      BY <2>2, <3>1 DEF CallerTimed
  <2> QED
    BY <2>1, <2>2
<1> QED
  BY <1>1, <1>2, <1>3 DEF Timed, TimedInv

(* MarkExpireStarted: the row that has the id now gets the start.          *)
LEMMA MarkTimed ==
  ASSUME TimedInv, TypeOK', NEW c \in Callers, MarkExpireStarted(c)
  PROVE  Timed'
<1> DEFINE k == caller[c].key  m == rows[k]
<1> USE DEF TimedInv
<1>1. /\ UNCHANGED <<now, rows, inserted, refs, loader, proc>>
      /\ caller[c].pc = "mark" /\ caller[c] \in Caller /\ k \in Keys
      /\ StartOf(c) \in Nat /\ StartOf(c) > 0
  <2>1. UNCHANGED <<now, rows, inserted, refs, loader, proc>> /\ caller[c].pc = "mark"
    BY DEF MarkExpireStarted
  <2>2. caller[c] \in Caller /\ now \in Nat /\ now > 0
    BY DEF TypeOK, Timed
  <2> QED
    BY <2>1, <2>2 DEF Caller, StartOf
<1>2. ASSUME NEW n \in Messages
      PROVE  /\ msg'[n].key = msg[n].key /\ msg'[n].secs = msg[n].secs
             /\ n # m => msg'[n] = msg[n]
  <2>1. CASE Present(k)
    <3>1. PICK r : r = [msg[m] EXCEPT !.started = StartOf(c),
                                      !.first = IF @ = 0 \/ StartOf(c) < @
                                                THEN StartOf(c) ELSE @]
      OBVIOUS
    <3>2. msg[m] \in Message
      BY <1>1, <2>1, TimerTypes DEF TypeOK
    <3>3. r.key = msg[m].key /\ r.secs = msg[m].secs
      BY <3>1, <3>2 DEF Message
    <3>4. msg' = [msg EXCEPT ![m] = r]
      BY <2>1, <3>1, TimerTypes DEF MarkExpireStarted, TypeOK
    <3> QED
      BY <3>3, <3>4 DEF TypeOK
  <2>2. CASE ~Present(k)
    BY <2>2 DEF MarkExpireStarted
  <2> QED
    BY <2>1, <2>2
<1>3. ASSUME Present(k)
      PROVE  /\ m \in Messages
             /\ msg'[m].started = StartOf(c)
             /\ msg'[m].first \in Nat /\ msg'[m].first > 0
             /\ msg'[m].first <= StartOf(c)
             /\ msg[m].first > 0 => msg'[m].first <= msg[m].first
  <2>1. m \in Messages
    BY <1>1, <1>3, TimerTypes
  <2>2. msg[m] \in Message /\ msg[m].first \in Nat
    BY <2>1 DEF TypeOK, Message
  <2>3. PICK f : f = (IF msg[m].first = 0 \/ StartOf(c) < msg[m].first
                      THEN StartOf(c) ELSE msg[m].first)
    OBVIOUS
  <2>4. msg'[m].started = StartOf(c) /\ msg'[m].first = f
    <3>1. PICK r : r = [msg[m] EXCEPT !.started = StartOf(c),
                                      !.first = IF @ = 0 \/ StartOf(c) < @
                                                THEN StartOf(c) ELSE @]
      OBVIOUS
    <3>2. msg' = [msg EXCEPT ![m] = r]
      BY <1>3, <3>1, TimerTypes DEF MarkExpireStarted, TypeOK
    <3>3. r.started = StartOf(c) /\ r.first = f
      BY <2>2, <2>3, <3>1 DEF Message
    <3> QED
      BY <2>1, <3>2, <3>3 DEF TypeOK
  <2>5. /\ f \in Nat /\ f > 0 /\ f <= StartOf(c)
        /\ msg[m].first > 0 => f <= msg[m].first
    BY <1>1, <2>2, <2>3
  <2> QED
    BY <2>1, <2>4, <2>5
<1>4. 1..inserted \subseteq Messages
  BY MaxMessagesAssumption DEF TypeOK
<1>5. \A j \in Keys : (Known(j)' <=> Known(j)) /\ (Alone(j)' <=> Alone(j))
  BY <1>1, <1>2, <1>4 DEF Known, Alone
<1>6. ASSUME NEW j \in Keys, Present(j), j # k PROVE msg'[rows[j]] = msg[rows[j]]
  <2>1. rows[j] \in Messages /\ msg[rows[j]].key = j
    BY <1>6, TimerTypes DEF RowsOwn
  <2>2. rows[j] # m
    BY <1>1, <1>6, <2>1 DEF RowsOwn
  <2> QED
    BY <1>2, <2>1, <2>2
<1>7. ASSUME NEW j \in Keys PROVE Calm(j)
  <2> SUFFICES ASSUME Known(j), Alone(j)
               PROVE  /\ msg'[rows[j]].secs = msg[rows[j]].secs
                      /\ msg[rows[j]].first > 0 =>
                           /\ msg'[rows[j]].first > 0
                           /\ msg'[rows[j]].first <= msg[rows[j]].first
    BY <1>1, <1>5 DEF Calm
  <2>1. rows[j] \in Messages /\ msg[rows[j]].first \in Nat
    BY TimerTypes, MessageTypes DEF Alone
  <2>2. CASE j = k
    BY <1>2, <1>3, <2>1, <2>2 DEF Alone
  <2>3. CASE j # k
    BY <1>6, <2>1, <2>3 DEF Alone
  <2> QED
    BY <2>2, <2>3
<1>8. AllRefs' = AllRefs /\ \A r \in AllRefs : r \in Ref
  BY <1>1 DEF TypeOK, AllRefs, Loader, Processor
<1>9. ASSUME NEW r \in AllRefs PROVE RefTimed(r)'
  BY <1>7, <1>8, <1>9, RefKept DEF Timed
<1>10. ASSUME NEW d \in Callers PROVE CallerTimed(d)'
  <2>1. CASE d # c
    <3>1. caller'[d] = caller[d] /\ caller[d].key \in Keys
      BY <2>1 DEF MarkExpireStarted, TypeOK, Caller
    <3>2. Calm(caller[d].key) /\ CallerTimed(d) /\ now <= now'
      BY <1>1, <1>7, <3>1 DEF Timed, TypeOK
    <3> QED
      BY <3>1, <3>2, CallerKept
  <2>2. CASE d = c
    <3>1. caller'[c].key = k /\ caller'[c].delay = caller[c].delay
          /\ caller'[c].start = caller[c].start
      BY <1>1 DEF MarkExpireStarted, TypeOK, Caller
    <3>2. StartOf(c)' = StartOf(c)
      BY <1>1, <3>1 DEF StartOf
    <3>3. CallerTimed(c)
      BY DEF Timed
    <3>4. Known(k)'
      BY <1>1, <1>5, <3>1, <3>3 DEF CallerTimed
    <3>5. ASSUME Alone(k)'
          PROVE  /\ msg'[rows'[k]].secs > 0
                 /\ caller[c].delay = Millis(rows[k])'
                 /\ msg'[rows'[k]].first > 0
                 /\ msg'[rows'[k]].first <= StartOf(c)
      <4>1. Alone(k) /\ Present(k)
        BY <1>1, <1>5, <3>1, <3>5 DEF Alone
      <4>2. msg[m].secs > 0 /\ caller[c].delay = Millis(m)
        BY <1>1, <3>3, <4>1 DEF CallerTimed
      <4> QED
        BY <1>1, <1>2, <1>3, <3>1, <4>1, <4>2 DEF Millis
    <3> QED
      BY <2>2, <3>1, <3>2, <3>4, <3>5 DEF CallerTimed
  <2> QED
    BY <2>1, <2>2
<1>11. ASSUME NEW j \in Keys PROVE RowTimed(j)'
  <2> SUFFICES ASSUME Alone(j)', Started(j)'
               PROVE  /\ msg'[rows'[j]].secs > 0
                      /\ msg'[rows'[j]].first > 0
                      /\ msg'[rows'[j]].first <= msg'[rows'[j]].started
    BY DEF RowTimed
  <2>1. Alone(j) /\ Present(j) /\ rows'[j] = rows[j] /\ rows[j] \in Messages
    BY <1>1, <1>5, TimerTypes DEF Alone
  <2>2. CASE j = k
    <3>1. CallerTimed(c)
      BY DEF Timed
    <3>2. msg[m].secs > 0
      BY <1>1, <2>1, <2>2, <3>1 DEF CallerTimed
    <3> QED
      BY <1>2, <1>3, <2>1, <2>2, <3>2
  <2>3. CASE j # k
    <3>1. msg'[rows'[j]] = msg[rows[j]]
      BY <1>6, <2>1, <2>3
    <3> QED
      BY <2>1, <3>1 DEF RowTimed, Timed, Started
  <2> QED
    BY <2>2, <2>3
<1>12. now' > 0 /\ (proc'.pc = "delete" => proc'.ref.at <= now')
  BY <1>1 DEF Timed
<1> QED
  BY <1>8, <1>9, <1>10, <1>11, <1>12 DEF Timed

(* ScheduleDeletion: the reference is for the start and the delay that     *)
(* belong to the message.                                                  *)
LEMMA ScheduleTimed ==
  ASSUME TimedInv, TypeOK', NEW c \in Callers, ScheduleDeletion(c)
  PROVE  Timed'
<1> DEFINE k == caller[c].key  new == [key |-> k, at |-> ExpiresAt(c)]
<1> USE DEF TimedInv
<1>1. new \in Ref /\ StartOf(c) \in Nat /\ caller[c].delay \in Nat
  BY StartTypes DEF TypeOK, Caller
<1>2. RefTimed(new)
  <2>1. CallerTimed(c) /\ caller[c].pc = "schedule"
    BY DEF Timed, ScheduleDeletion
  <2>2. Known(k)
    BY <2>1 DEF CallerTimed
  <2>3. ASSUME Alone(k)
        PROVE  /\ msg[rows[k]].secs > 0 /\ msg[rows[k]].first > 0
               /\ ExpiresAt(c) >= msg[rows[k]].first + Millis(rows[k])
    <3>1. /\ msg[rows[k]].secs > 0 /\ caller[c].delay = Millis(rows[k])
          /\ msg[rows[k]].first > 0 /\ msg[rows[k]].first <= StartOf(c)
      BY <2>1, <2>3 DEF CallerTimed
    <3>2. msg[rows[k]].first \in Nat
      BY <1>1, <2>3, TimerTypes, MessageTypes DEF Alone
    <3> QED
      BY <1>1, <3>1, <3>2 DEF ExpiresAt
  <2> QED
    BY <2>2, <2>3 DEF RefTimed
<1>3. refs' = refs \cup {new} /\ loader'.found = loader.found
      /\ loader'.adding = loader.adding
  BY DEF ScheduleDeletion, TypeOK, Loader
<1>4. proc'.pc = "delete" => proc' = proc
  BY DEF ScheduleDeletion, Notified, Waiting
<1>5. \A r \in AllRefs' : r \in AllRefs \/ r = new
  BY <1>3, <1>4 DEF AllRefs
<1>6. \A d \in Callers : caller'[d] \in {caller[d], Idle}
  BY DEF ScheduleDeletion, TypeOK
<1>7. now <= now' /\ (proc'.pc = "delete" => proc'.ref.at <= now')
  BY <1>4 DEF ScheduleDeletion, TypeOK, Timed
<1>8. UNCHANGED <<msg, inserted>> /\ \A j \in Keys : rows'[j] \in {rows[j], 0}
  BY DEF ScheduleDeletion
<1> HIDE DEF new
<1> QED
  BY <1>1, <1>2, <1>5, <1>6, <1>7, <1>8, TablesTimed

(* An insertion, by itself or with the transcript's caller: the new row    *)
(* has no start, the others keep theirs.                                   *)
LEMMA InsertTimed ==
  ASSUME TimedInv, TypeOK', NEW k \in Keys, NEW out, NEW secs,
         InsertRow(k, out, secs)
  PROVE  /\ \A j \in Keys : Calm(j)
         /\ \A j \in Keys : RowTimed(j)'
         /\ Known(k)'
         /\ msg'[rows'[k]].secs = secs
<1> USE DEF TimedInv
<1>1. /\ \A j \in Keys : Calm(j)
      /\ Known(k)'
      /\ \A j \in Keys : Alone(j)' /\ ~Known(j) => j = k
      /\ rows'[k] = inserted + 1
      /\ msg'[inserted + 1] = [key |-> k, out |-> out, secs |-> secs,
                               started |-> 0, first |-> 0]
      /\ \A j \in Keys : j # k => rows'[j] = rows[j]
      /\ \A m \in 1..inserted : msg'[m] = msg[m]
  BY InsertCalm
<1>2. ASSUME NEW j \in Keys, Alone(j)', Started(j)'
      PROVE  Alone(j) /\ rows'[j] = rows[j] /\ msg'[rows[j]] = msg[rows[j]]
  <2>1. j # k
    BY <1>1, <1>2 DEF Started
  <2>2. Known(j) /\ Alone(j)
    BY <1>1, <1>2, <2>1 DEF Calm
  <2>3. rows[j] \in 1..inserted
    <3>1. Present(j) /\ rows[j] <= inserted
      BY <2>2 DEF Alone, RowsOwn
    <3>2. rows[j] \in Messages
      BY <3>1, TimerTypes
    <3> QED
      BY <3>1, <3>2, InsertedNumber DEF Messages
  <2> QED
    BY <1>1, <2>1, <2>2, <2>3
<1>3. \A j \in Keys : RowTimed(j)'
  BY <1>2, RowKept DEF Timed
<1> QED
  BY <1>1, <1>3

LEMMA CallerStepTimed ==
  ASSUME TRUE \notin SyncedTables, TimedInv, TypeOK', NEW c \in Callers,
         CallerStep(c)
  PROVE  Timed'
<1> USE DEF TimedInv
<1>1. ASSUME NEW k \in Keys, NEW start \in Nat, Present(k), msg[rows[k]].secs > 0,
             Begin(c, k, start, Millis(rows[k])),
             UNCHANGED <<now, msg, inserted, rows, refs, loader, proc>>
      PROVE  Timed'
  <2>1. \A j \in Keys : Calm(j) /\ (Alone(j)' => Alone(j) /\ rows'[j] = rows[j])
    BY <1>1, TableCalm
  <2>2. \A j \in Keys : RowTimed(j)'
    BY <1>1, <2>1, RowKept DEF Timed
  <2>3. Known(k)'
    <3>1. rows[k] \in 1..inserted /\ msg[rows[k]].key = k
      BY <1>1, TimerTypes DEF RowsOwn, TypeOK
    <3> QED
      BY <1>1, <3>1 DEF Known
  <2>4. Millis(rows[k]) \in Nat /\ Millis(rows[k])' = Millis(rows[k])
    BY <1>1, TimerTypes DEF Millis
  <2>5. msg'[rows'[k]].secs > 0
    BY <1>1
  <2> QED
    BY <1>1, <2>1, <2>2, <2>3, <2>4, <2>5, BeginTimed
<1>2. CASE \E k \in Keys : Seen(c, k) \/ Sent(c, k)
  BY <1>1, <1>2 DEF Seen, Sent
<1>3. CASE \E k \in Keys, t \in 1..LastStart : SyncRead(c, k, t)
  BY <1>1, <1>3, TimeAssumption DEF SyncRead
<1>4. ASSUME NEW k \in Keys, NEW s \in Seconds, NEW t \in 1..LastStart,
             SyncSent(c, k, s, t)
      PROVE  Timed'
  <2>1. s \in Nat /\ s > 0 /\ t \in Nat /\ s * MillisPerSecond \in Nat
    BY <1>4, SecondsAssumption, ScaleAssumption, TimeAssumption DEF SyncSent
  <2>2. ~k.mms
    BY <1>4, SyncedAssumption DEF SyncSent
  <2>3. /\ Begin(c, k, t, s * MillisPerSecond) /\ InsertRow(k, TRUE, s)
        /\ UNCHANGED <<now, refs, loader, proc>>
    BY <1>4, <2>2 DEF SyncSent
  <2>4. /\ \A j \in Keys : Calm(j)
        /\ \A j \in Keys : RowTimed(j)'
        /\ Known(k)'
        /\ msg'[rows'[k]].secs = s
    BY <2>3, InsertTimed
  <2>5. Millis(rows[k])' = s * MillisPerSecond
    BY <2>4 DEF Millis
  <2> QED
    BY <2>1, <2>3, <2>4, <2>5, BeginTimed
<1> QED
  BY <1>2, <1>3, <1>4, MarkTimed, ScheduleTimed DEF CallerStep

LEMMA TimedInductive ==
  ASSUME TRUE \notin SyncedTables, TimedInv, [Next]_vars
  PROVE  TimedInv'
<1> USE DEF TimedInv
<1>1. TypeOK' /\ RowsOwn'
  BY TypeInductive, RowsOwnInductive
<1> SUFFICES Timed'
  BY <1>1
<1>2. now \in Nat /\ (proc.pc = "delete" => proc.ref.at <= now)
  BY DEF TypeOK, Timed
<1>3. CASE \E k \in Keys, out \in BOOLEAN, s \in Seconds : InsertMessage(k, out, s)
  <2>1. PICK k \in Keys, out \in BOOLEAN, s \in Seconds : InsertMessage(k, out, s)
    BY <1>3
  <2>2. InsertRow(k, out, s) /\ UNCHANGED <<now, caller, refs, loader, proc>>
    BY <2>1 DEF InsertMessage
  <2>3. \A j \in Keys : Calm(j) /\ RowTimed(j)'
    BY <1>1, <2>2, InsertTimed
  <2>4. AllRefs' = AllRefs /\ \A r \in AllRefs : r \in Ref
    BY <2>2 DEF TypeOK, AllRefs, Loader, Processor
  <2>5. ASSUME NEW r \in AllRefs PROVE RefTimed(r)'
    BY <1>1, <2>3, <2>4, <2>5, RefKept DEF Timed
  <2>6. ASSUME NEW c \in Callers PROVE CallerTimed(c)'
    <3>1. caller[c].key \in Keys /\ caller'[c] = caller[c] /\ now <= now'
      BY <1>2, <2>2 DEF TypeOK, Caller
    <3>2. Calm(caller[c].key) /\ CallerTimed(c)
      BY <2>3, <3>1 DEF Timed
    <3> QED
      BY <1>1, <3>1, <3>2, CallerKept
  <2> QED
    BY <2>2, <2>3, <2>4, <2>5, <2>6 DEF Timed
<1>4. CASE \E k \in Keys : DeleteMessage(k)
  <2>1. PICK k \in Keys : DeleteMessage(k)
    BY <1>4
  <2>2. AllRefs' = AllRefs /\ now <= now' /\ proc' = proc
    BY <1>2, <2>1 DEF DeleteMessage, AllRefs
  <2>3. \A j \in Keys : rows'[j] \in {rows[j], 0}
    BY <2>1 DEF DeleteMessage, TypeOK
  <2> QED
    BY <1>1, <1>2, <2>1, <2>2, <2>3, TablesTimed DEF DeleteMessage
<1>5. CASE \E c \in Callers : CallerStep(c)
  BY <1>1, <1>5, CallerStepTimed
<1>6. ASSUME UNCHANGED <<msg, inserted, rows, caller>>, now <= now',
             \A r \in AllRefs' : r \in AllRefs \/ (r \in Ref /\ RefTimed(r)),
             proc'.pc = "delete" => proc'.ref.at <= now'
      PROVE  Timed'
  BY <1>1, <1>6, TablesTimed
<1>7. ASSUME UNCHANGED <<msg, inserted, rows, caller, now>>,
             refs' \subseteq refs \cup loader.adding,
             loader'.found \cup loader'.adding \subseteq loader.found \cup loader.adding,
             proc'.pc = "delete" => proc' = proc
      PROVE  Timed'
  <2>1. \A r \in AllRefs' : r \in AllRefs
    BY <1>7 DEF AllRefs
  <2> QED
    BY <1>2, <1>6, <1>7, <2>1
<1>8. CASE LoadTask
  <2>1. ASSUME NEW t \in BOOLEAN, LoadQuery(t) PROVE Timed'
    <3> DEFINE new == {RefOf(k) : k \in {j \in Keys : j.mms = t /\ Started(j)}}
    <3>1. /\ loader'.found = loader.found \cup new
          /\ loader'.adding = loader.adding
          /\ UNCHANGED <<now, msg, inserted, rows, caller, refs, proc>>
      BY <2>1 DEF LoadQuery, TypeOK, Loader
    <3>2. ASSUME NEW r \in new PROVE r \in Ref /\ RefTimed(r)
      <4>1. PICK k \in Keys : Started(k) /\ r = RefOf(k)
        BY <3>2
      <4>2. /\ rows[k] \in 1..inserted /\ rows[k] \in Messages
            /\ msg[rows[k]].key = k /\ r \in Ref
        BY <4>1, TimerTypes DEF RowsOwn, TypeOK, Started
      <4>3. Known(k)
        BY <4>2 DEF Known
      <4>4. r.key = k /\ r.at = msg[rows[k]].started + Millis(rows[k])
        BY <4>1 DEF RefOf
      <4>5. RowTimed(k)
        BY DEF Timed
      <4>6. ASSUME Alone(k)
            PROVE  /\ msg[rows[k]].secs > 0 /\ msg[rows[k]].first > 0
                   /\ r.at >= msg[rows[k]].first + Millis(rows[k])
        <5>1. /\ msg[rows[k]].secs > 0 /\ msg[rows[k]].first > 0
              /\ msg[rows[k]].first <= msg[rows[k]].started
          BY <4>1, <4>5, <4>6 DEF RowTimed
        <5> QED
          BY <4>2, <4>4, <5>1, MessageTypes
      <4> QED
        BY <4>2, <4>3, <4>4, <4>6 DEF RefTimed
    <3> HIDE DEF new
    <3>3. \A r \in AllRefs' : r \in AllRefs \/ r \in new
      BY <3>1 DEF AllRefs
    <3> QED
      BY <1>2, <1>6, <3>1, <3>2, <3>3
  <2>2. ASSUME NEW r \in loader.found, LoadBegin(r) PROVE Timed'
    <3>1. loader'.found = loader.found \ {r} /\ loader'.adding = {r}
      BY <2>2 DEF LoadBegin, TypeOK, Loader
    <3> QED
      BY <1>7, <2>2, <3>1 DEF LoadBegin
  <2>3. CASE LoadEnd
    <3>1. loader'.found = loader.found /\ loader'.adding = {}
      BY <2>3 DEF LoadEnd, TypeOK, Loader
    <3>2. refs' \subseteq refs \cup loader.adding
      BY <2>3 DEF LoadEnd
    <3> QED
      BY <1>7, <2>3, <3>1, <3>2 DEF LoadEnd
  <2>4. CASE LoadDone
    BY <1>7, <2>4 DEF LoadDone, Waiting
  <2> QED
    BY <1>8, <2>1, <2>2, <2>3, <2>4 DEF LoadTask
<1>9. CASE ProcessTask
  <2>1. CASE WaitForReference
    BY <1>7, <2>1 DEF WaitForReference, Waiting
  <2>2. ASSUME NEW r \in refs, WaitForDeadline(r) PROVE Timed'
    BY <1>7, <2>2 DEF WaitForDeadline, Waiting
  <2>3. ASSUME NEW r \in refs, TakeExpired(r) PROVE Timed'
    <3>1. /\ UNCHANGED <<now, msg, inserted, rows, caller, loader>>
          /\ refs' = refs \ {r} /\ proc'.ref = r /\ r.at <= now
      BY <2>3 DEF TakeExpired, Waiting
    <3>2. \A s \in AllRefs' : s \in AllRefs
      BY <3>1 DEF AllRefs
    <3> QED
      BY <1>2, <1>6, <3>1, <3>2
  <2>4. CASE DeleteExpired
    <3>1. AllRefs' \subseteq AllRefs /\ now <= now' /\ proc'.pc # "delete"
      BY <1>2, <2>4 DEF DeleteExpired, AllRefs, Waiting
    <3>2. \A j \in Keys : rows'[j] \in {rows[j], 0}
      BY <2>4 DEF DeleteExpired, TypeOK
    <3> QED
      BY <1>1, <2>4, <3>1, <3>2, TablesTimed DEF DeleteExpired
  <2> QED
    BY <1>9, <2>1, <2>2, <2>3, <2>4 DEF ProcessTask
<1>10. CASE WaitTimeout \/ UNCHANGED vars
  BY <1>7, <1>10 DEF WaitTimeout, Waiting, vars
<1>11. CASE Start \/ AlarmFires
  BY <1>7, <1>11 DEF Start, AlarmFires, Notified, Waiting, LoadBoth, NoLoad
<1>12. CASE \E reboot \in BOOLEAN : Crash(reboot)
  <2>1. AllRefs' = {} /\ now <= now' /\ proc'.pc # "delete"
    BY <1>2, <1>12 DEF Crash, AllRefs, Waiting, NoLoad
  <2>2. \A c \in Callers : caller'[c] \in {caller[c], Idle}
    BY <1>12 DEF Crash
  <2> QED
    BY <1>1, <1>12, <2>1, <2>2, TablesTimed DEF Crash
<1>13. CASE Tick
  <2>1. AllRefs' = AllRefs /\ now' = now + 1 /\ proc' = proc
    BY <1>13 DEF Tick, AllRefs
  <2>2. proc.ref.at \in Nat
    BY DEF TypeOK, Processor
  <2>3. now <= now' /\ (proc'.pc = "delete" => proc'.ref.at <= now')
    BY <1>2, <2>1, <2>2
  <2> QED
    BY <1>6, <1>13, <2>1, <2>3 DEF Tick
<1> QED
  BY <1>3, <1>4, <1>5, <1>8, <1>9, <1>10, <1>11, <1>12, <1>13 DEF Next

(* Only DeleteExpired leaves "delete" for "run".                           *)
LEMMA DeletionsDue ==
  ASSUME TimedInv, [Next]_vars, NEW m \in Messages, ManagerDeletes(m),
         ~SharesKey(m)
  PROVE  /\ msg[m].secs > 0
         /\ msg[m].first > 0
         /\ now >= msg[m].first + Millis(m)
<1> USE DEF TimedInv
<1>1. proc.pc = "delete" /\ proc'.pc = "run"
  BY DEF ManagerDeletes
<1>2. PICK k \in Keys : rows[k] = m /\ rows'[k] = 0
  BY DEF ManagerDeletes
<1>3. m # 0 /\ m \in Nat
  BY MaxMessagesAssumption
<1>4. DeleteExpired
  <2>1. ~LoadTask
    BY <1>1 DEF LoadTask, LoadQuery, LoadBegin, LoadEnd, LoadDone
  <2>2. ~(\E c \in Callers : CallerStep(c))
    BY <1>1 DEF CallerStep, Seen, Sent, SyncRead, SyncSent, MarkExpireStarted,
       ScheduleDeletion, Notified
  <2>3. ~(\E j \in Keys, out \in BOOLEAN, s \in Seconds : InsertMessage(j, out, s))
        /\ ~(\E j \in Keys : DeleteMessage(j))
    BY <1>1 DEF InsertMessage, DeleteMessage
  <2>4. ~WaitTimeout /\ ~Start /\ ~Tick /\ ~UNCHANGED vars
    BY <1>1 DEF WaitTimeout, Start, Tick, vars
  <2>5. ~AlarmFires /\ ~(\E reboot \in BOOLEAN : Crash(reboot))
    BY <1>1 DEF AlarmFires, Crash, Notified, Waiting
  <2>6. ProcessTask
    BY <2>1, <2>2, <2>3, <2>4, <2>5 DEF Next
  <2> QED
    BY <1>1, <2>6 DEF ProcessTask, WaitForReference, WaitForDeadline, TakeExpired
<1>5. proc.ref.key = k
  BY <1>2, <1>3, <1>4 DEF DeleteExpired, TypeOK
<1>6. Alone(k)
  <2>1. msg[m].key = k
    BY <1>2, <1>3 DEF RowsOwn
  <2> QED
    BY <1>2, <1>3, <2>1 DEF Alone, SharesKey
<1>7. RefTimed(proc.ref) /\ proc.ref.at <= now /\ proc.ref \in Ref
  BY <1>1 DEF Timed, AllRefs, TypeOK, Processor
<1>8. /\ msg[m].secs > 0 /\ msg[m].first > 0
      /\ proc.ref.at >= msg[m].first + Millis(m)
  BY <1>2, <1>5, <1>6, <1>7 DEF RefTimed
<1>9. msg[m].first + Millis(m) \in Nat /\ now \in Nat /\ proc.ref.at \in Nat
  BY <1>7, MessageTypes DEF TypeOK
<1> QED
  BY <1>7, <1>8, <1>9

(* Where the other devices' transcripts are text messages only (a media    *)
(* transcript is scheduled with its seconds taken for milliseconds), the   *)
(* manager removes a message that never shared its id only when it has a   *)
(* timer and the timer, counted from its first start, has run out: a       *)
(* second start, a restart that loads the timers from the tables again,    *)
(* and the update by id between read and schedule bring it no earlier.     *)
THEOREM KeptUntilExpiry ==
  ASSUME TRUE \notin SyncedTables
  PROVE  Spec => KeptUntilDue
<1>1. Init => TimedInv
  <2> SUFFICES ASSUME Init PROVE TimedInv
    OBVIOUS
  <2>1. RowsOwn
    BY DEF Init, RowsOwn
  <2>2. AllRefs = {} /\ now > 0 /\ proc.pc # "delete"
    BY DEF Init, AllRefs, Waiting, NoLoad
  <2>3. \A c \in Callers : CallerTimed(c)
    BY DEF Init, CallerTimed, Idle
  <2>4. \A k \in Keys : RowTimed(k)
    BY DEF Init, RowTimed, Started
  <2> QED
    BY <2>1, <2>2, <2>3, <2>4, TypeInitial DEF TimedInv, Timed
<1>2. TimedInv /\ [Next]_vars => TimedInv'
  BY TimedInductive
<1>3. TimedInv /\ [Next]_vars =>
        [\A m \in Messages : ManagerDeletes(m) /\ ~SharesKey(m) =>
           /\ msg[m].secs > 0
           /\ msg[m].first > 0
           /\ now >= msg[m].first + Millis(m)]_vars
  BY DeletionsDue
<1> QED
  BY <1>1, <1>2, <1>3, PTL DEF Spec, KeptUntilDue
=============================================================================
