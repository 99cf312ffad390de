-------------------------- MODULE ExpiringMessages --------------------------
(***************************************************************************)
(* Disappearing messages: the rows of the sms and mms tables, the callers  *)
(* that start a message's timer and schedule its deletion, and the        *)
(* ExpiringMessageManager, whose executor thread first loads the timers    *)
(* that were already running (LoadTask) and then deletes what is due       *)
(* (ProcessTask), woken by notifyAll, by its own timed wait or by the      *)
(* alarm of the ExpirationListener.                                        *)
(*                                                                         *)
(* A row is addressed by (mms, id) only, and the tables reuse the largest  *)
(* id after its row is deleted ("integer PRIMARY KEY" without              *)
(* AUTOINCREMENT), so a message is a number of its own in the model and    *)
(* the table says which message a key holds at the moment.                 *)
(***************************************************************************)
EXTENDS Integers, FiniteSets

CONSTANTS
  Callers,          \* threads that start timers: jobs, AsyncTasks, receivers
  MaxId,            \* ids 1..MaxId of each table
  MaxMessages,      \* bound: messages inserted over the whole behaviour
  Seconds,          \* timer settings of a conversation, 0 = messages stay
  MillisPerSecond,  \* scale of the clock; the code's 1000
  LastStart,        \* bound: no timer is started after this time
  MaxTime,          \* bound: the clock stops here
  MaxDeletes,       \* bound: deletions by the user or by thread trimming
  MaxCrashes,       \* bound: deaths of the process
  SyncedTables      \* the tables (mms = TRUE/FALSE) sent transcripts arrive in

ASSUME MaxIdAssumption      == MaxId \in Nat \ {0}
ASSUME MaxMessagesAssumption == MaxMessages \in Nat \ {0}
ASSUME SecondsAssumption    == Seconds \subseteq Nat
ASSUME ScaleAssumption      == MillisPerSecond \in Nat \ {0}
ASSUME TimeAssumption       == MaxTime \in Nat /\ LastStart \in Nat
ASSUME SyncedAssumption     == SyncedTables \subseteq BOOLEAN
ASSUME CrashAssumption      == MaxCrashes \in Nat /\ MaxDeletes \in Nat

VARIABLES
  now,        \* System.currentTimeMillis()
  msg,        \* message -> its columns, kept after its row is gone
  inserted,   \* how many messages were ever inserted
  rows,       \* key -> the message in that row, 0 when there is none
  caller,     \* the threads that start timers
  refs,       \* expiringMessageReferences
  loader,     \* LoadTask
  proc,       \* ProcessTask, or "down" while there is no process
  alarm,      \* the pending alarm of ExpirationListener, 0 when none
  corrupted,  \* ghost: the racing insertions have lost a reference
  crashes,    \* bound counter
  deletes     \* bound counter

vars == <<now, msg, inserted, rows, caller, refs, loader, proc, alarm,
          corrupted, crashes, deletes>>

-----------------------------------------------------------------------------
(* Types and helpers *)

Messages == 1..MaxMessages
Keys     == [mms : BOOLEAN, id : 1..MaxId]
Ref      == [key : Keys, at : Nat]

(* EXPIRES_IN and EXPIRE_STARTED of a row; first (ghost) is the earliest   *)
(* start the message was ever given, key (ghost) where it was inserted.    *)
Message == [key : Keys, out : BOOLEAN, secs : Seconds \cup {0},
            started : Nat, first : Nat]

SomeKey  == [mms |-> FALSE, id |-> 1]
NoMsg    == [key |-> SomeKey, out |-> FALSE, secs |-> 0,
             started |-> 0, first |-> 0]
Idle     == [pc |-> "idle", key |-> SomeKey, start |-> 0, delay |-> 0]
Caller   == [pc : {"idle", "mark", "schedule"}, key : Keys,
             start : Nat, delay : Nat]
NoLoad   == [tables |-> {}, found |-> {}, adding |-> {}, overlapped |-> FALSE]
Loader   == [tables : SUBSET BOOLEAN, found : SUBSET Ref,
             adding : SUBSET Ref, overlapped : BOOLEAN]
Waiting(pc)   == [pc |-> pc, until |-> 0, ref |-> [key |-> SomeKey, at |-> 0]]
Processor     == [pc : {"down", "load", "run", "empty", "timed", "delete"},
                  until : Nat, ref : Ref]

Millis(m)   == msg[m].secs * MillisPerSecond
Present(k)  == rows[k] # 0
Started(k)  == Present(k) /\ msg[rows[k]].started > 0
Up          == proc.pc # "down"

(* Mutant: LoadTask forgets getExpiresIn().                                *)
RefOfStart(k) == [key |-> k, at |-> msg[rows[k]].started]

RefOf(k) == [key |-> k, at |-> msg[rows[k]].started + Millis(rows[k])]

(* The rowid SQLite gives to the next row: one more than the largest.      *)
NextId(k) ==
  /\ \A j \in Keys : j.mms = k.mms /\ Present(j) => j.id < k.id
  /\ k.id > 1 => Present([k EXCEPT !.id = @ - 1])

(* ExpiringMessageComparator *)
Before(r, s) ==
  \/ r.at < s.at
  \/ r.at = s.at /\ r.key.id < s.key.id
  \/ r.at = s.at /\ r.key.id = s.key.id /\ ~r.key.mms /\ s.key.mms

IsFirst(r) == \A s \in refs \ {r} : Before(r, s)

(* Mutant: scheduleDeletion and checkSchedule forget notifyAll.            *)
NotNotified(p) == p

(* notifyAll on the monitor: a waiting ProcessTask looks again.            *)
Notified(p) == IF p.pc \in {"empty", "timed"} THEN Waiting("run") ELSE p

-----------------------------------------------------------------------------
Init ==
  /\ now = 1
  /\ msg = [m \in Messages |-> NoMsg]
  /\ inserted = 0
  /\ rows = [k \in Keys |-> 0]
  /\ caller = [c \in Callers |-> Idle]
  /\ refs = {}
  /\ loader = NoLoad
  /\ proc = Waiting("down")
  /\ alarm = 0
  /\ corrupted = FALSE
  /\ crashes = 0
  /\ deletes = 0

-----------------------------------------------------------------------------
(* The tables *)

InsertRow(k, out, secs) ==
  /\ inserted < MaxMessages
  /\ NextId(k)
  /\ inserted' = inserted + 1
  /\ rows' = [rows EXCEPT ![k] = inserted + 1]
  /\ msg' = [msg EXCEPT ![inserted + 1] =
               [key |-> k, out |-> out, secs |-> secs,
                started |-> 0, first |-> 0]]

(* insertMessageInbox / insertMessageOutbox: EXPIRES_IN comes from the     *)
(* conversation's setting, EXPIRE_STARTED defaults to 0.                   *)
InsertMessage(k, out, secs) ==
  /\ Up
  /\ InsertRow(k, out, secs)
  /\ UNCHANGED <<now, caller, refs, loader, proc, alarm, corrupted,
                 crashes, deletes>>

(* The user deletes a message, or TrimThreadJob trims the thread: the row  *)
(* goes, the manager is not told.                                          *)
DeleteMessage(k) ==
  /\ Up
  /\ Present(k)
  /\ deletes < MaxDeletes
  /\ rows' = [rows EXCEPT ![k] = 0]
  /\ deletes' = deletes + 1
  /\ UNCHANGED <<now, msg, inserted, caller, refs, loader, proc, alarm,
                 corrupted, crashes>>

-----------------------------------------------------------------------------
(* The threads that start a timer: read the record, mark EXPIRE_STARTED,   *)
(* schedule the deletion.  Other threads run between any two of the steps. *)

Begin(c, k, start, delay) ==
  /\ Up
  /\ caller[c].pc = "idle"
  /\ now <= LastStart
  /\ caller' = [caller EXCEPT ![c] = [pc |-> "mark", key |-> k,
                                      start |-> start, delay |-> delay]]

(* An incoming message is displayed (ConversationItem.setExpiration) or    *)
(* marked as read (MarkReadReceiver.scheduleDeletion).                     *)
Seen(c, k) ==
  /\ Present(k)
  /\ ~msg[rows[k]].out
  /\ msg[rows[k]].secs > 0
  /\ msg[rows[k]].started = 0
  /\ Begin(c, k, 0, Millis(rows[k]))
  /\ UNCHANGED <<now, msg, inserted, rows, refs, loader, proc, alarm,
                 corrupted, crashes, deletes>>

(* A send job has delivered the message (its record was read before).      *)
Sent(c, k) ==
  /\ Present(k)
  /\ msg[rows[k]].out
  /\ msg[rows[k]].secs > 0
  /\ Begin(c, k, 0, Millis(rows[k]))
  /\ UNCHANGED <<now, msg, inserted, rows, refs, loader, proc, alarm,
                 corrupted, crashes, deletes>>

(* Another device has read the message: the envelope's timestamp is the    *)
(* start, whatever EXPIRE_STARTED says.                                    *)
SyncRead(c, k, t) ==
  /\ Present(k)
  /\ ~msg[rows[k]].out
  /\ msg[rows[k]].secs > 0
  /\ t <= now
  /\ Begin(c, k, t, Millis(rows[k]))
  /\ UNCHANGED <<now, msg, inserted, rows, refs, loader, proc, alarm,
                 corrupted, crashes, deletes>>

(* A transcript of a message another device sent.  For text the delay is   *)
(* in milliseconds; for media the code passes getExpiresInSeconds().       *)
SyncSent(c, k, secs, t) ==
  /\ k.mms \in SyncedTables
  /\ secs > 0
  /\ t <= now
  /\ Begin(c, k, t, IF k.mms THEN secs ELSE secs * MillisPerSecond)
  /\ InsertRow(k, TRUE, secs)
  /\ UNCHANGED <<now, refs, loader, proc, alarm, corrupted, crashes, deletes>>

StartOf(c) == IF caller[c].start = 0 THEN now ELSE caller[c].start

(* markExpireStarted: an update by id; it hits whatever row has the id.    *)
MarkExpireStarted(c) ==
  LET k == caller[c].key IN
  /\ caller[c].pc = "mark"
  /\ caller' = [caller EXCEPT ![c].pc = "schedule"]
  /\ msg' = IF Present(k)
            THEN [msg EXCEPT ![rows[k]].started = StartOf(c),
                             ![rows[k]].first =
                                IF @ = 0 \/ StartOf(c) < @ THEN StartOf(c) ELSE @]
            ELSE msg
  /\ UNCHANGED <<now, inserted, rows, refs, loader, proc, alarm, corrupted,
                 crashes, deletes>>

(* Mutant: the sign of startedAtTimestamp + expiresInMillis.               *)
ExpiresBefore(c) == StartOf(c) - caller[c].delay

ExpiresAt(c) == StartOf(c) + caller[c].delay

(* scheduleDeletion: add under the lock and notifyAll.  The lock does not  *)
(* exclude LoadTask, which inserts without it.                             *)
ScheduleDeletion(c) ==
  /\ caller[c].pc = "schedule"
  /\ refs' = refs \cup {[key |-> caller[c].key, at |-> ExpiresAt(c)]}
  /\ loader' = [loader EXCEPT !.overlapped = loader.adding # {} \/ @]
  /\ proc' = Notified(proc)
  /\ caller' = [caller EXCEPT ![c] = Idle]
  /\ UNCHANGED <<now, msg, inserted, rows, alarm, corrupted, crashes, deletes>>

-----------------------------------------------------------------------------
(* The manager's executor thread: LoadTask, then ProcessTask *)

(* The cursor over a table's started messages is filled.                   *)
LoadQuery(t) ==
  /\ proc.pc = "load"
  /\ t \in loader.tables
  /\ loader' = [loader EXCEPT
                  !.tables = @ \ {t},
                  !.found = @ \cup {RefOf(k) : k \in {j \in Keys : j.mms = t /\ Started(j)}}]
  /\ UNCHANGED <<now, msg, inserted, rows, caller, refs, proc, alarm, corrupted,
                 crashes, deletes>>

(* TreeSet.add without the lock looks for the place of the new node ...    *)
LoadBegin(r) ==
  /\ proc.pc = "load"
  /\ loader.adding = {}
  /\ r \in loader.found
  /\ loader' = [loader EXCEPT !.found = @ \ {r}, !.adding = {r},
                              !.overlapped = FALSE]
  /\ UNCHANGED <<now, msg, inserted, rows, caller, refs, proc, alarm, corrupted,
                 crashes, deletes>>

(* ... and links it in.  When another insertion ran meanwhile, the race    *)
(* may leave any part of the tree out, but not all of it.                  *)
LoadEnd ==
  /\ proc.pc = "load"
  /\ loader.adding # {}
  /\ \/ refs' = refs \cup loader.adding /\ UNCHANGED corrupted
     \/ /\ loader.overlapped
        /\ refs' \in SUBSET (refs \cup loader.adding) \ {{}}
        /\ corrupted' = TRUE
  /\ loader' = [loader EXCEPT !.adding = {}, !.overlapped = FALSE]
  /\ UNCHANGED <<now, msg, inserted, rows, caller, proc, alarm, crashes, deletes>>

LoadDone ==
  /\ proc.pc = "load"
  /\ loader.tables = {} /\ loader.found = {} /\ loader.adding = {}
  /\ proc' = Waiting("run")
  /\ UNCHANGED <<now, msg, inserted, rows, caller, refs, loader, alarm,
                 corrupted, crashes, deletes>>

(* One turn of ProcessTask's loop inside the synchronized block.           *)
WaitForReference ==
  /\ proc.pc = "run"
  /\ refs = {}
  /\ proc' = Waiting("empty")
  /\ UNCHANGED <<now, msg, inserted, rows, caller, refs, loader, alarm,
                 corrupted, crashes, deletes>>

(* Mutant: setAlarm is not called.                                         *)
WaitWithoutAlarm(r) ==
  /\ proc.pc = "run"
  /\ IsFirst(r)
  /\ r.at > now
  /\ proc' = [Waiting("timed") EXCEPT !.until = r.at]
  /\ UNCHANGED <<now, msg, inserted, rows, caller, refs, loader, alarm,
                 corrupted, crashes, deletes>>

WaitForDeadline(r) ==
  /\ proc.pc = "run"
  /\ IsFirst(r)
  /\ r.at > now
  /\ alarm' = r.at
  /\ proc' = [Waiting("timed") EXCEPT !.until = r.at]
  /\ UNCHANGED <<now, msg, inserted, rows, caller, refs, loader, corrupted,
                 crashes, deletes>>

TakeExpired(r) ==
  /\ proc.pc = "run"
  /\ IsFirst(r)
  /\ r.at <= now
  /\ refs' = refs \ {r}
  /\ proc' = [Waiting("delete") EXCEPT !.ref = r]
  /\ UNCHANGED <<now, msg, inserted, rows, caller, loader, alarm, corrupted,
                 crashes, deletes>>

(* Outside the lock: delete the row with the reference's id.               *)
DeleteExpired ==
  /\ proc.pc = "delete"
  /\ rows' = [rows EXCEPT ![proc.ref.key] = 0]
  /\ proc' = Waiting("run")
  /\ UNCHANGED <<now, msg, inserted, caller, refs, loader, alarm, corrupted,
                 crashes, deletes>>

ProcessTask ==
  \/ WaitForReference
  \/ \E r \in refs : WaitForDeadline(r) \/ TakeExpired(r)
  \/ DeleteExpired

(* wait(waitTime) returns by itself.                                       *)
WaitTimeout ==
  /\ proc.pc = "timed"
  /\ now >= proc.until
  /\ proc' = Waiting("run")
  /\ UNCHANGED <<now, msg, inserted, rows, caller, refs, loader, alarm,
                 corrupted, crashes, deletes>>

-----------------------------------------------------------------------------
(* Process, alarm and clock *)

(* Mutant: LoadTask reads the sms table only.                              *)
LoadSmsOnly == [NoLoad EXCEPT !.tables = {FALSE}]

LoadBoth == [NoLoad EXCEPT !.tables = BOOLEAN]

(* ApplicationContext.onCreate: a new manager with its two tasks queued.   *)
Start ==
  /\ ~Up
  /\ proc' = Waiting("load")
  /\ loader' = LoadBoth
  /\ UNCHANGED <<now, msg, inserted, rows, caller, refs, alarm, corrupted,
                 crashes, deletes>>

(* The alarm is delivered, late or on time; the broadcast starts the       *)
(* process when there is none, and onReceive calls checkSchedule.          *)
AlarmFires ==
  /\ alarm # 0
  /\ now >= alarm
  /\ alarm' = 0
  /\ IF Up THEN proc' = Notified(proc) /\ UNCHANGED loader
           ELSE proc' = Waiting("load") /\ loader' = LoadBoth
  /\ UNCHANGED <<now, msg, inserted, rows, caller, refs, corrupted, crashes,
                 deletes>>

(* The process dies (the alarm stays) or the phone reboots (it is lost):   *)
(* what is in memory goes, the tables stay.                                *)
Crash(reboot) ==
  /\ Up
  /\ crashes < MaxCrashes
  /\ crashes' = crashes + 1
  /\ proc' = Waiting("down")
  /\ loader' = NoLoad
  /\ refs' = {}
  /\ corrupted' = FALSE
  /\ caller' = [c \in Callers |-> Idle]
  /\ alarm' = IF reboot THEN 0 ELSE alarm
  /\ UNCHANGED <<now, msg, inserted, rows, deletes>>

(* Time passes; after LastStart only once the callers have finished.       *)
Tick ==
  /\ now < MaxTime
  /\ now < LastStart \/ \A c \in Callers : caller[c].pc = "idle"
  /\ now' = now + 1
  /\ UNCHANGED <<msg, inserted, rows, caller, refs, loader, proc, alarm,
                 corrupted, crashes, deletes>>

-----------------------------------------------------------------------------
CallerStep(c) ==
  \/ \E k \in Keys : Seen(c, k) \/ Sent(c, k)
  \/ \E k \in Keys, t \in 1..LastStart : SyncRead(c, k, t)
  \/ \E k \in Keys, s \in Seconds, t \in 1..LastStart : SyncSent(c, k, s, t)
  \/ MarkExpireStarted(c)
  \/ ScheduleDeletion(c)

LoadTask ==
  \/ \E t \in BOOLEAN : LoadQuery(t)
  \/ \E r \in loader.found : LoadBegin(r)
  \/ LoadEnd
  \/ LoadDone

Next ==
  \/ \E k \in Keys, out \in BOOLEAN, s \in Seconds : InsertMessage(k, out, s)
  \/ \E k \in Keys : DeleteMessage(k)
  \/ \E c \in Callers : CallerStep(c)
  \/ LoadTask
  \/ ProcessTask
  \/ WaitTimeout
  \/ Start
  \/ AlarmFires
  \/ \E reboot \in BOOLEAN : Crash(reboot)
  \/ Tick

Spec == Init /\ [][Next]_vars

(* A caller that has marked a message goes on to schedule it, the executor *)
(* thread runs, alarms are delivered, and the process is started again     *)
(* (alarm, boot receiver, push or user).  Nothing is assumed of wait's own *)
(* timeout: its clock stands still while the phone sleeps.                 *)
Fairness ==
  /\ \A c \in Callers : WF_vars(MarkExpireStarted(c) \/ ScheduleDeletion(c))
  /\ WF_vars(LoadTask)
  /\ WF_vars(ProcessTask)
  /\ WF_vars(AlarmFires)
  /\ WF_vars(Start)
  /\ WF_vars(Tick)

FairSpec == Spec /\ Fairness

-----------------------------------------------------------------------------
(* Properties *)

TypeOK ==
  /\ now \in Nat
  /\ msg \in [Messages -> Message]
  /\ inserted \in 0..MaxMessages
  /\ rows \in [Keys -> 0..MaxMessages]
  /\ caller \in [Callers -> Caller]
  /\ refs \subseteq Ref
  /\ loader \in Loader
  /\ proc \in Processor
  /\ alarm \in Nat
  /\ corrupted \in BOOLEAN
  /\ crashes \in 0..MaxCrashes
  /\ deletes \in 0..MaxDeletes

(* Someone still has to delete the row: the set holds a reference, the     *)
(* processor is about to delete it, a caller is about to schedule it, or   *)
(* LoadTask has yet to find or to insert it.                               *)
Owed(k) ==
  \/ \E r \in refs : r.key = k
  \/ proc.pc = "delete" /\ proc.ref.key = k
  \/ \E c \in Callers : caller[c].pc = "schedule" /\ caller[c].key = k
  \/ k.mms \in loader.tables
  \/ \E r \in loader.found \cup loader.adding : r.key = k

(* While the process runs and no insertion was lost to the race, no        *)
(* message whose timer is running has been forgotten: markExpireStarted    *)
(* (database) and scheduleDeletion (memory) are two steps, LoadTask reads  *)
(* the tables in between, and a restart forgets all references.            *)
Tracked == Up /\ ~corrupted => \A k \in Keys : Started(k) => Owed(k)

(* ProcessTask never sleeps past a deadline: nothing is in the set when it *)
(* waits without a limit, its timed wait ends with the earliest reference, *)
(* and the alarm that wakes the phone for it is pending unless that time   *)
(* has come.                                                               *)
NeverOversleeps ==
  /\ proc.pc = "empty" => refs = {}
  /\ proc.pc = "timed" => /\ \A r \in refs : proc.until <= r.at
                          /\ alarm = proc.until

(* The manager removes the row of message m in this step.                  *)
ManagerDeletes(m) ==
  /\ proc.pc = "delete" /\ proc'.pc = "run"
  /\ \E k \in Keys : rows[k] = m /\ rows'[k] = 0

(* Another message was given the same row id.                              *)
SharesKey(m) ==
  \E n \in 1..inserted : n # m /\ msg[n].key = msg[m].key

(* A message alone on its id is removed by the manager only when it has a  *)
(* timer and the timer, counted from its first start, has run out          *)
(* (ProcessTask compares the reference, never the row).                    *)
KeptUntilDue ==
  [][\A m \in Messages : ManagerDeletes(m) /\ ~SharesKey(m) =>
       /\ msg[m].secs > 0
       /\ msg[m].first > 0
       /\ now >= msg[m].first + Millis(m)]_vars

(* "Your messages will not expire": the manager never removes a message of *)
(* a conversation without a timer.                                         *)
NonExpiringKept ==
  [][\A m \in Messages : ManagerDeletes(m) => msg[m].secs > 0]_vars

Shown(m)   == \E k \in Keys : rows[k] = m
Overdue(m) == Shown(m) /\ msg[m].started > 0 /\ now >= msg[m].started + Millis(m)

(* "Messages ... will disappear after they have been seen": a message whose*)
(* timer has run out is eventually removed.                                *)
EveryStartedExpires ==
  \A m \in Messages : Overdue(m) ~> ~Shown(m)

(* The same while no reference is lost to the unlocked insertion.          *)
ExpiresUnlessCorrupted == <>[]~corrupted => EveryStartedExpires
=============================================================================
