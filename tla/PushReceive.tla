----------------------------- MODULE PushReceive -----------------------------
(***************************************************************************)
(* The way of an envelope into the phone.  The push server keeps an        *)
(* envelope until it is acknowledged.  The thread of the                   *)
(* MessageRetrievalService reads them from a websocket while an activity   *)
(* is in front; a GCM notification starts PushNotificationReceiveJob,      *)
(* which fetches a list; an older GCM message carries the envelope itself, *)
(* which PushContentReceiveJob handles.  All three store the envelope in   *)
(* the push table and queue a PushDecryptJob for its row; that job         *)
(* decrypts, inserts the message in the inbox and deletes the row.         *)
(*                                                                         *)
(* Envelopes are numbered in the order the server takes them.  The server, *)
(* the cipher and the JobManager are external and modelled from how the    *)
(* code uses them.  Registration is over, the identity key exists.         *)
(***************************************************************************)
EXTENDS Integers, Sequences, SequencesExt, FiniteSets, FiniteSetsExt

CONSTANTS
  MaxEnvelopes,     \* bound: envelopes sent to this phone
  Direct,           \* envelopes carried by a GCM message
  Corrupt,          \* envelopes the cipher rejects: a placeholder is shown
  Blocking,         \* answers Recipients.isBlocked may give
  Consumers,        \* consumer threads of the JobManager
  FetchRetries,     \* retry count of PushNotificationReceiveJob
  ReceiptRetries,   \* retry count of DeliveryReceiptJob (50 in the code)
  MaxNotifications, \* bound: GCM notifications
  MaxVisits,        \* bound: times an activity comes to the front
  MaxLostAcks,      \* bound: acknowledgements or answers that get lost
  MaxOutages,       \* bound: losses of the network
  MaxCrashes        \* bound: deaths of the process

Envelopes == 1..MaxEnvelopes
Service   == "service"
Threads   == Consumers \cup {Service}

ASSUME EnvelopesAssumption == MaxEnvelopes \in Nat
ASSUME KindsAssumption     == Direct \subseteq Envelopes /\ Corrupt \subseteq Envelopes
ASSUME BlockingAssumption  == Blocking \subseteq BOOLEAN /\ Blocking # {}
ASSUME ConsumersAssumption == Service \notin Consumers
ASSUME ReceiveBoundsAssumption ==
  {FetchRetries, ReceiptRetries, MaxNotifications, MaxVisits, MaxLostAcks,
   MaxOutages, MaxCrashes} \subseteq Nat

VARIABLES
  arrived,   \* how many envelopes were sent to this phone
  server,    \* those the server still holds
  push,      \* the push table: row id -> envelope
  session,   \* envelopes whose message key the session has used up
  inbox,     \* the rows inserted in the message tables, in order
  adding,    \* jobs given to JobManager.add, not yet stored
  stored,    \* the JobManager's persistent storage, in order of job id
  queue,     \* its in-memory queue
  lastId,    \* the last job id given
  thread,    \* the consumer threads and the service's thread
  active,    \* activeActivities
  network,   \* whether the network requirement is present
  log,       \* ghosts: envelopes dropped (sender blocked), lost with a GCM message,
             \* orphaned (their decrypt job was lost), receipted, and gone astray
             \* (decrypted by a job that was queued for another)
  used       \* bound counters

vars == <<arrived, server, push, session, inbox, adding, stored, queue, lastId, thread,
          active, network, log, used>>

jobVars  == <<adding, stored, queue, lastId>>
dataVars == <<arrived, server, push, session, inbox>>
restVars == <<active, network, log, used>>

-----------------------------------------------------------------------------
(* Jobs *)

(* row is set for a decrypt job, e for a content or a receipt job; a       *)
(* decrypt job has it as a ghost, the envelope it was queued for.          *)
Job == [id : Nat, kind : {"decrypt", "fetch", "content", "receipt", "none"},
        row : Nat, e : 0..MaxEnvelopes, group : {"none", "decrypt", "fetch"},
        persistent : BOOLEAN, iter : Nat]

NoJob == [id |-> 0, kind |-> "none", row |-> 0, e |-> 0, group |-> "none",
          persistent |-> FALSE, iter |-> 0]

(* Mutant: PushDecryptJob without a group id.                              *)
DecryptUngrouped(row, e) ==
  [NoJob EXCEPT !.kind = "decrypt", !.row = row, !.e = e, !.persistent = TRUE]

(* Mutant: PushDecryptJob without persistence.                             *)
DecryptVolatile(row, e) ==
  [NoJob EXCEPT !.kind = "decrypt", !.row = row, !.e = e, !.group = "decrypt"]

PushDecryptJob(row, e) ==
  [NoJob EXCEPT !.kind = "decrypt", !.row = row, !.e = e, !.group = "decrypt",
                !.persistent = TRUE]
PushNotificationReceiveJob == [NoJob EXCEPT !.kind = "fetch", !.group = "fetch"]
PushContentReceiveJob(e)   == [NoJob EXCEPT !.kind = "content", !.e = e, !.persistent = TRUE]
DeliveryReceiptJob(e)      == [NoJob EXCEPT !.kind = "receipt", !.e = e, !.persistent = TRUE]

NeedsNetwork(j) == j.kind \in {"fetch", "receipt"}
Retries(j)      == CASE j.kind = "fetch" -> FetchRetries
                     [] j.kind = "receipt" -> ReceiptRetries
                     [] OTHER -> 1

(* A thread: where it is, its job, the envelope it handles, the push row   *)
(* of that envelope, the rest of the list a fetch works through.           *)
Rest      == [pc |-> "idle", job |-> NoJob, e |-> 0, row |-> 0, todo |-> <<>>]
Start     == [Rest EXCEPT !.pc = "check"]
Goto(t, pc) == thread' = [thread EXCEPT ![t].pc = pc]

Running      == {thread[c].job : c \in {d \in Consumers : thread[d].pc # "idle"}}
GroupFree(g) == g = "none" \/ \A j \in Running : j.group # g

Init ==
  /\ arrived = 0
  /\ server = {}
  /\ push = <<>>
  /\ session = {}
  /\ inbox = <<>>
  /\ adding = <<>> /\ stored = <<>> /\ queue = <<>> /\ lastId = 0
  /\ thread = [t \in Threads |-> IF t = Service THEN Start ELSE Rest]
  /\ active = 0
  /\ network = TRUE
  /\ log = [dropped |-> {}, lost |-> {}, orphans |-> {}, receipts |-> {},
            astray |-> {}]
  /\ used = [notifications |-> 0, visits |-> 0, lostAcks |-> 0, outages |-> 0, crashes |-> 0]

-----------------------------------------------------------------------------
(* The server, GCM and the activities *)

(* The next envelope is sent: to the server's queue ...                    *)
Arrive ==
  /\ arrived + 1 \in Envelopes \ Direct
  /\ arrived' = arrived + 1
  /\ server' = server \cup {arrived + 1}
  /\ UNCHANGED <<push, session, inbox, jobVars, thread, restVars>>

(* ... or in a GCM message (GcmBroadcastReceiver.handleReceivedMessage).    *)
ReceivedMessage ==
  /\ arrived + 1 \in Envelopes \cap Direct
  /\ arrived' = arrived + 1
  /\ adding' = Append(adding, PushContentReceiveJob(arrived + 1))
  /\ UNCHANGED <<server, push, session, inbox, stored, queue, lastId, thread, restVars>>

(* handleReceivedNotification                                              *)
ReceivedNotification ==
  /\ used.notifications < MaxNotifications
  /\ adding' = Append(adding, PushNotificationReceiveJob)
  /\ used' = [used EXCEPT !.notifications = @ + 1]
  /\ UNCHANGED <<dataVars, stored, queue, lastId, thread, active, network, log>>

(* notifyAll wakes the service's thread from wait().                       *)
NotifyAll == thread' = [thread EXCEPT ![Service].pc = IF @ = "wait" THEN "check" ELSE @]

(* Mutant: the count goes up without notifyAll.                            *)
ActiveUnnoticed ==
  /\ active = 0
  /\ used.visits < MaxVisits
  /\ active' = active + 1
  /\ used' = [used EXCEPT !.visits = @ + 1]
  /\ UNCHANGED <<dataVars, jobVars, thread, network, log>>

(* onResume; one activity pauses before the next resumes.                  *)
IncrementActive ==
  /\ active = 0
  /\ used.visits < MaxVisits
  /\ active' = active + 1
  /\ NotifyAll
  /\ used' = [used EXCEPT !.visits = @ + 1]
  /\ UNCHANGED <<dataVars, jobVars, network, log>>

DecrementActive ==
  /\ active > 0
  /\ active' = active - 1
  /\ NotifyAll
  /\ UNCHANGED <<dataVars, jobVars, network, log, used>>

LoseNetwork ==
  /\ network
  /\ used.outages < MaxOutages
  /\ network' = FALSE
  /\ used' = [used EXCEPT !.outages = @ + 1]
  /\ UNCHANGED <<dataVars, jobVars, thread, active, log>>

(* onRequirementStatusChanged                                              *)
RegainNetwork ==
  /\ ~network
  /\ network' = TRUE
  /\ NotifyAll
  /\ UNCHANGED <<dataVars, jobVars, active, log, used>>

-----------------------------------------------------------------------------
(* The JobManager (external) *)

(* add's executor gives the job an id, stores it if it is persistent, and  *)
(* queues it.                                                              *)
StoreJob ==
  /\ adding # <<>>
  /\ LET j == [Head(adding) EXCEPT !.id = lastId + 1] IN
       /\ stored' = IF j.persistent THEN Append(stored, j) ELSE stored
       /\ queue' = Append(queue, j)
  /\ adding' = Tail(adding)
  /\ lastId' = lastId + 1
  /\ UNCHANGED <<dataVars, thread, restVars>>

Eligible(i) == (NeedsNetwork(queue[i]) => network) /\ GroupFree(queue[i].group)

(* Mutant: a stored job is forgotten when a thread takes it.               *)
TakeForgetting(c) ==
  /\ thread[c].pc = "idle"
  /\ \E i \in DOMAIN queue :
       /\ Eligible(i)
       /\ \A k \in 1..(i - 1) : ~Eligible(k)
       /\ thread' = [thread EXCEPT ![c] = [Rest EXCEPT !.pc = "run", !.job = queue[i]]]
       /\ queue' = RemoveAt(queue, i)
       /\ stored' = SelectSeq(stored, LAMBDA j : j.id # queue[i].id)
  /\ UNCHANGED <<dataVars, adding, lastId, restVars>>

TakeJob(c) ==
  /\ thread[c].pc = "idle"
  /\ \E i \in DOMAIN queue :
       /\ Eligible(i)
       /\ \A k \in 1..(i - 1) : ~Eligible(k)
       /\ thread' = [thread EXCEPT ![c] = [Rest EXCEPT !.pc = "run", !.job = queue[i]]]
       /\ queue' = RemoveAt(queue, i)
  /\ UNCHANGED <<dataVars, adding, stored, lastId, restVars>>

(* An exception onShouldRetry says yes to: at once while the network is    *)
(* there, else later; never more than the retry count.                     *)
RetryLater(c) ==
  LET j == [thread[c].job EXCEPT !.iter = @ + 1] IN
  \/ /\ ~network
     /\ queue' = <<j>> \o queue
     /\ thread' = [thread EXCEPT ![c] = Rest]
  \/ /\ network
     /\ thread' = [thread EXCEPT ![c] = [Rest EXCEPT
                     !.job = j, !.pc = IF j.iter < Retries(j) THEN "run" ELSE "done"]]
     /\ UNCHANGED queue

(* The job ended, or was given up; it is forgotten before its group is free.*)
FinishJob(c) ==
  /\ \/ thread[c].pc = "done"
     \/ thread[c].pc = "run" /\ thread[c].job.iter >= Retries(thread[c].job)
  /\ \/ \E i \in DOMAIN stored :
            stored[i].id = thread[c].job.id /\ stored' = RemoveAt(stored, i)
     \/ /\ \A i \in DOMAIN stored : stored[i].id # thread[c].job.id
        /\ UNCHANGED stored
  /\ thread' = [thread EXCEPT ![c] = Rest]
  /\ UNCHANGED <<dataVars, adding, queue, lastId, restVars>>

Run(c, kind) ==
  /\ thread[c].pc = "run"
  /\ thread[c].job.kind = kind
  /\ thread[c].job.iter < Retries(thread[c].job)

-----------------------------------------------------------------------------
(* PushReceivedJob.handle: by the service's thread, a fetch or content job *)

RowsOf(e) == {i \in DOMAIN push : push[i] = e}

(* Mutant: ids from 0.                                                     *)
NewRowFromZero == IF DOMAIN push = {} THEN 0 ELSE Max(DOMAIN push) + 1

(* SQLite: the largest id plus one, so that an id is given again.          *)
NewRow == IF DOMAIN push = {} THEN 1 ELSE Max(DOMAIN push) + 1

(* What follows the message's part of handle: an explicit receipt, or the  *)
(* return to the reader, which acknowledges.                               *)
Handled(t) == IF thread[t].job.kind = "content" THEN "receipt" ELSE "ack"

(* Mutant: an envelope that has a row needs no other job.                  *)
FindKnownIgnored(t, blocked) ==
  LET e == thread[t].e IN
  /\ thread[t].pc = "find"
  /\ log' = [log EXCEPT !.dropped = IF blocked THEN @ \cup {e} ELSE @]
  /\ Goto(t, IF blocked \/ RowsOf(e) # {} THEN Handled(t) ELSE "insert")
  /\ UNCHANGED <<dataVars, jobVars, active, network, used>>

(* handleMessage ignores a blocked sender; PushDatabase.insert looks for   *)
(* an equal row first ...                                                  *)
Find(t, blocked) ==
  LET e == thread[t].e IN
  /\ thread[t].pc = "find"
  /\ \/ /\ blocked
        /\ log' = [log EXCEPT !.dropped = @ \cup {e}]
        /\ Goto(t, Handled(t))
     \/ /\ ~blocked /\ RowsOf(e) = {}
        /\ Goto(t, "insert") /\ UNCHANGED log
     \/ /\ ~blocked /\ RowsOf(e) # {}
        /\ thread' = [thread EXCEPT ![t].pc = "add", ![t].row = Min(RowsOf(e))]
        /\ UNCHANGED log
  /\ UNCHANGED <<dataVars, jobVars, active, network, used>>

(* ... and inserts one when there was none then.                           *)
InsertRow(t) ==
  /\ thread[t].pc = "insert"
  /\ push' = [i \in DOMAIN push \cup {NewRow} |-> IF i = NewRow THEN thread[t].e ELSE push[i]]
  /\ thread' = [thread EXCEPT ![t].pc = "add", ![t].row = NewRow]
  /\ UNCHANGED <<arrived, server, session, inbox, jobVars, restVars>>

AddDecryptJob(t) ==
  /\ thread[t].pc = "add"
  /\ adding' = Append(adding, PushDecryptJob(thread[t].row, thread[t].e))
  /\ Goto(t, Handled(t))
  /\ UNCHANGED <<dataVars, stored, queue, lastId, restVars>>

AddReceiptJob(t) ==
  /\ thread[t].pc = "receipt"
  /\ adding' = Append(adding, DeliveryReceiptJob(thread[t].e))
  /\ Goto(t, "done")
  /\ UNCHANGED <<dataVars, stored, queue, lastId, restVars>>

(* After the callback the library acknowledges.  The service's thread goes *)
(* on to look whether the connection is still needed, a fetch to the next  *)
(* envelope of its list.                                                   *)
Acknowledge(t) ==
  /\ thread[t].pc = "ack"
  /\ network
  /\ server' = server \ {thread[t].e}
  /\ \/ /\ t = Service
        /\ thread' = [thread EXCEPT ![t] = Start]
     \/ /\ t # Service /\ thread[t].todo = <<>>
        /\ Goto(t, "done")
     \/ /\ t # Service /\ thread[t].todo # <<>>
        /\ thread' = [thread EXCEPT ![t].pc = "find", ![t].e = Head(thread[t].todo),
                                    ![t].todo = Tail(@)]
  /\ UNCHANGED <<arrived, push, session, inbox, jobVars, restVars>>

(* The exchange with the server fails.                                     *)
Failing == /\ network => used.lostAcks < MaxLostAcks
           /\ used' = [used EXCEPT !.lostAcks = IF network THEN @ + 1 ELSE @]

(* The acknowledgement or its answer is lost: a new connection, or the     *)
(* PushNetworkException is retried with a new list.                        *)
LoseAck(t) ==
  /\ thread[t].pc = "ack"
  /\ Failing
  /\ server' \in {server, server \ {thread[t].e}}
  /\ \/ /\ t = Service
        /\ thread' = [thread EXCEPT ![t] = Start] /\ UNCHANGED queue
     \/ /\ t # Service
        /\ RetryLater(t)
  /\ UNCHANGED <<arrived, push, session, inbox, adding, stored, lastId, active, network, log>>

-----------------------------------------------------------------------------
(* The service's thread *)

IsConnectionNecessary == active > 0 /\ network

(* waitForConnectionNecessary, and the condition of the reading loop.      *)
CheckConnection ==
  /\ thread[Service].pc = "check"
  /\ Goto(Service, IF IsConnectionNecessary THEN "read" ELSE "wait")
  /\ UNCHANGED <<dataVars, jobVars, restVars>>

(* pipe.read: the server sends what it holds in order.                     *)
Read ==
  /\ thread[Service].pc = "read"
  /\ network /\ server # {}
  /\ thread' = [thread EXCEPT ![Service].pc = "find", ![Service].e = Min(server)]
  /\ UNCHANGED <<dataVars, jobVars, restVars>>

(* TimeoutException, or the connection broke.                              *)
ReadEnds ==
  /\ thread[Service].pc = "read"
  /\ ~network \/ server = {}
  /\ Goto(Service, "check")
  /\ UNCHANGED <<dataVars, jobVars, restVars>>

-----------------------------------------------------------------------------
(* The jobs: onRun *)

(* The members of a set in ascending order.                                *)
InOrder(S) == {s \in [1..Cardinality(S) -> S] :
                 ToSet(s) = S /\ \A i, k \in DOMAIN s : i < k => s[i] < s[k]}

(* retrieveMessages gets the list of what the server holds.                *)
RetrieveMessages(c) ==
  /\ Run(c, "fetch")
  /\ network
  /\ \E list \in InOrder(server) :
     \/ /\ list = <<>>
        /\ Goto(c, "done")
     \/ /\ list # <<>>
        /\ thread' = [thread EXCEPT ![c].pc = "find", ![c].e = Head(list),
                                    ![c].todo = Tail(list)]
  /\ UNCHANGED <<dataVars, jobVars, restVars>>

RetrieveFails(c) ==
  /\ Run(c, "fetch")
  /\ Failing
  /\ RetryLater(c)
  /\ UNCHANGED <<dataVars, adding, stored, lastId, active, network, log>>

ReadContent(c) ==
  /\ Run(c, "content")
  /\ thread' = [thread EXCEPT ![c].pc = "find", ![c].e = thread[c].job.e]
  /\ UNCHANGED <<dataVars, jobVars, restVars>>

SendReceipt(c) ==
  /\ Run(c, "receipt")
  /\ network
  /\ log' = [log EXCEPT !.receipts = @ \cup {thread[c].job.e}]
  /\ Goto(c, "done")
  /\ UNCHANGED <<dataVars, jobVars, active, network, used>>

ReceiptFails(c) ==
  /\ Run(c, "receipt")
  /\ Failing
  /\ log' \in {log, [log EXCEPT !.receipts = @ \cup {thread[c].job.e}]}
  /\ RetryLater(c)
  /\ UNCHANGED <<dataVars, adding, stored, lastId, active, network>>

(* Mutant: the row is taken out of the table when it is read.              *)
GetRowAway(c) ==
  /\ Run(c, "decrypt")
  /\ LET row == thread[c].job.row IN
     IF row \in DOMAIN push
     THEN /\ thread' = [thread EXCEPT ![c].pc = "decrypt", ![c].row = row, ![c].e = push[row]]
          /\ push' = [i \in DOMAIN push \ {row} |-> push[i]]
     ELSE Goto(c, "done") /\ UNCHANGED push
  /\ UNCHANGED <<arrived, server, session, inbox, jobVars, restVars>>

(* PushDecryptJob: PushDatabase.get; without the row the job is over       *)
(* (NoSuchMessageException, not retried).  The row of an envelope stored   *)
(* twice may have been deleted and given to another envelope meanwhile.    *)
GetRow(c) ==
  /\ Run(c, "decrypt")
  /\ LET j == thread[c].job IN
     \/ /\ j.row \in DOMAIN push
        /\ thread' = [thread EXCEPT ![c].pc = "decrypt", ![c].row = j.row, ![c].e = push[j.row]]
        /\ log' = [log EXCEPT !.astray = @ \cup ({push[j.row]} \ {j.e})]
     \/ /\ j.row \notin DOMAIN push
        /\ Goto(c, "done") /\ UNCHANGED log
  /\ UNCHANGED <<dataVars, jobVars, active, network, used>>

(* Mutant: a duplicate is shown.                                           *)
DecryptAnyway(c) ==
  /\ thread[c].pc = "decrypt"
  /\ session' = session \cup ({thread[c].e} \ Corrupt)
  /\ Goto(c, "show")
  /\ UNCHANGED <<arrived, server, push, inbox, jobVars, restVars>>

(* cipher.decrypt: the session is stored before the message is returned; a *)
(* key used before gives DuplicateMessageException, which is ignored; a    *)
(* rejected envelope leaves the session and is shown as a placeholder.     *)
Decrypt(c) ==
  LET e == thread[c].e IN
  /\ thread[c].pc = "decrypt"
  /\ \/ /\ e \in Corrupt
        /\ Goto(c, "show") /\ UNCHANGED session
     \/ /\ e \notin Corrupt /\ e \in session
        /\ Goto(c, "delete") /\ UNCHANGED session
     \/ /\ e \notin Corrupt /\ e \notin session
        /\ session' = session \cup {e}
        /\ Goto(c, "show")
  /\ UNCHANGED <<arrived, server, push, inbox, jobVars, restVars>>

InsertMessageInbox(c) ==
  /\ thread[c].pc = "show"
  /\ inbox' = Append(inbox, thread[c].e)
  /\ Goto(c, "delete")
  /\ UNCHANGED <<arrived, server, push, session, jobVars, restVars>>

DeleteRow(c) ==
  /\ thread[c].pc = "delete"
  /\ push' = [i \in DOMAIN push \ {thread[c].row} |-> push[i]]
  /\ Goto(c, "done")
  /\ UNCHANGED <<arrived, server, session, inbox, jobVars, restVars>>

-----------------------------------------------------------------------------
InAdding(kind) == {j \in ToSet(adding) : j.kind = kind}

(* The process dies and is started again; the stored jobs are queued in    *)
(* order of id.  What was only given to add is lost: a GCM message, or the *)
(* decrypt job of a row that was acknowledged or will be.                  *)
Crash ==
  /\ used.crashes < MaxCrashes
  /\ adding' = <<>>
  /\ queue' = stored
  /\ thread' = [t \in Threads |-> IF t = Service THEN Start ELSE Rest]
  /\ active' = 0
  /\ log' = [log EXCEPT
       !.lost    = @ \cup {j.e : j \in InAdding("content")},
       !.orphans = @ \cup {push[i] : i \in {j.row : j \in InAdding("decrypt")} \cap DOMAIN push}]
  /\ used' = [used EXCEPT !.crashes = @ + 1]
  /\ UNCHANGED <<dataVars, stored, lastId, network>>

HandleStep(t) ==
  \/ \E blocked \in Blocking : Find(t, blocked)
  \/ InsertRow(t) \/ AddDecryptJob(t) \/ AddReceiptJob(t)
  \/ Acknowledge(t) \/ LoseAck(t)

ServiceStep == CheckConnection \/ Read \/ ReadEnds

JobStep(c) ==
  \/ RetrieveMessages(c) \/ RetrieveFails(c) \/ ReadContent(c)
  \/ SendReceipt(c) \/ ReceiptFails(c)
  \/ GetRow(c) \/ Decrypt(c) \/ InsertMessageInbox(c) \/ DeleteRow(c)
  \/ FinishJob(c)

Next ==
  \/ Arrive \/ ReceivedMessage \/ ReceivedNotification
  \/ IncrementActive \/ DecrementActive \/ LoseNetwork \/ RegainNetwork
  \/ StoreJob
  \/ \E t \in Threads : HandleStep(t)
  \/ ServiceStep
  \/ \E c \in Consumers : TakeJob(c) \/ JobStep(c)
  \/ Crash

Spec == Init /\ [][Next]_vars

(* The executor and the threads run; nothing is assumed of the user, the   *)
(* network or GCM.                                                         *)
Fairness ==
  /\ WF_vars(StoreJob)
  /\ WF_vars(ServiceStep)
  /\ \A t \in Threads : WF_vars(HandleStep(t))
  /\ \A c \in Consumers : WF_vars(TakeJob(c)) /\ WF_vars(JobStep(c))

FairSpec == Spec /\ Fairness

-----------------------------------------------------------------------------
(* Properties *)

Thread == [pc : {"idle", "check", "wait", "read", "run", "find", "insert", "add", "receipt",
                 "ack", "decrypt", "show", "delete", "done"},
           job : Job, e : 0..MaxEnvelopes, row : Nat, todo : Seq(Envelopes)]

TypeOK ==
  /\ arrived \in 0..MaxEnvelopes
  /\ server \subseteq Envelopes
  /\ DOMAIN push \subseteq Nat \ {0} /\ Range(push) \subseteq Envelopes
  /\ session \subseteq Envelopes
  /\ inbox \in Seq(Envelopes)
  /\ adding \in Seq(Job) /\ stored \in Seq(Job) /\ queue \in Seq(Job)
  /\ lastId \in Nat
  /\ thread \in [Threads -> Thread]
  /\ active \in 0..1
  /\ network \in BOOLEAN

Shown   == ToSet(inbox)
Showing == {thread[c].e : c \in {d \in Consumers : thread[d].pc = "show"}}

(* Whatever channels deliver it, and however often, a message is shown     *)
(* once: PushDatabase.insert finds an equal row, and the session knows the *)
(* message when the row is gone already.                                   *)
ShownOnce ==
  \A i, k \in DOMAIN inbox : inbox[i] = inbox[k] /\ inbox[i] \notin Corrupt => i = k

(* Messages the server queued are shown in the order it took them, though  *)
(* two channels store them and every crash reads the jobs again.  Not so a *)
(* message that went astray: an envelope delivered twice leaves a second   *)
(* job for its row, which shows ahead of its turn what the row holds then. *)
ShownInOrder ==
  \A i, k \in DOMAIN inbox :
    /\ i < k
    /\ {inbox[i], inbox[k]} \cap (Corrupt \cup Direct \cup log.dropped \cup log.astray) = {}
    => inbox[i] <= inbox[k]

(* A message decrypted by a process that died before it was inserted: the  *)
(* next run of the job takes it for a duplicate.                           *)
Swallowed == session \ (Shown \cup Showing)

ContentJobs == {j.e : j \in {k \in ToSet(stored \o adding) : k.kind = "content"}}

(* An envelope the server has let go is shown, stored, or lost in one of   *)
(* three known ways; a death of the process swallows at most one message.  *)
NoneVanishes ==
  /\ \A e \in 1..arrived :
       \/ e \in server \cup Shown \cup Range(push) \cup ContentJobs
       \/ e \in log.dropped \cup log.lost \cup Swallowed \cup Showing
  /\ Cardinality(Swallowed) <= used.crashes

Finished == {thread[c].job.id : c \in {d \in Consumers : thread[d].pc = "done"}}

HasJob(i) == \E j \in ToSet(stored \o adding) :
               j.kind = "decrypt" /\ j.row = i /\ j.id \notin Finished

(* An envelope in the push table was shown (a row inserted twice may stay  *)
(* behind), or one of its rows has a decrypt job or is about to get one;   *)
(* only a crash that caught the job in JobManager.add strands it.          *)
StoredHasJob ==
  \A e \in Range(push) :
    \/ e \in Shown \cup Showing \cup Swallowed
    \/ e \in server \cup ContentJobs \cup log.orphans \cup log.dropped
    \/ \E i \in RowsOf(e) : HasJob(i) \/ \E t \in Threads : thread[t].pc = "add" /\ thread[t].row = i

(* A delivery receipt goes out only for a message the phone will show: its *)
(* decrypt job was stored first.                                           *)
ReceiptMeansStored ==
  \A e \in log.receipts :
    \/ e \in Shown \cup Showing \cup Swallowed \cup log.dropped
    \/ \E i \in RowsOf(e) : HasJob(i)

Settled(e) == e \in Shown \cup log.dropped \cup log.lost \cup log.orphans \cup Swallowed

(* While an activity stays in front and the network stays, every envelope  *)
(* the server takes is fetched and settled: no wake-up of the service's    *)
(* thread is lost.                                                         *)
Drained ==
  <>[](active > 0 /\ network) => <>[](server = {} /\ \A e \in 1..arrived : Settled(e))

(* The envelopes' messages are those of a mailbox: whatever the channels,  *)
(* the table and the jobs do is nothing, or one of its steps.              *)
Mail == INSTANCE Mailbox WITH
          Unreadable <- Corrupt,
          excused    <- Direct \cup log.dropped \cup log.astray,
          opened     <- session,
          inHand     <- Showing,
          shown      <- inbox,
          deaths     <- used.crashes
ImplementsMailbox == Mail!Spec

(* The persistent jobs are those of a job queue.                           *)
Ticket(j) == [id |-> j.id, kind |-> j.kind, group |-> j.group]
Queue == INSTANCE JobQueue WITH
           jobs    <- {Ticket(j) : j \in ToSet(stored)},
           running <- {Ticket(j) : j \in {k \in Running : k.persistent}}
ImplementsJobQueue == Queue!Spec
=============================================================================
