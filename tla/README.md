# TLA+ models of Signal-Android

This directory holds TLA+ specifications of the parts of the application whose
correctness depends on interleavings, crashes, order or time, the TLC
configurations that check them on small instances, and TLAPS proofs of what holds
for every instance. `PROJECT.json` maps each definition to the lines it models, and
lists the hazards, the properties that would notice them, and for each property a
mutated definition under which it fails.

    tlc -workers 2 -config ExpiringTimers.cfg   MCExpiringMessages.tla
    tlc -workers 2 -config SendResend.cfg       MCMessageSend.tla
    tlc -workers 2 -config ReceiveSafety.cfg    MCPushReceive.tla
    tlc -workers 2 -config DeliveryReceipts.cfg MCDeliveryReceipts.tla
    tlc -workers 2 -config CallMedia.cfg        MCCallMedia.tla
    tlc -workers 2 -config CallLife.cfg         MCRedPhoneCall.tla
    tlapm ExpiringMessagesProofs.tla    # and the other *Proofs.tla

## 1. Inventory of the system

The program is an Android application (Java, `src/src/org/thoughtcrime`), with
native audio code for calls (`src/jni/redphone`). Vendored code (OpenSSL, Speex,
WebRTC, drawables, `ws/com/google/android/mms`) carries none of its logic.

| Component | State | Operations | Hard behaviour | What makes it correct |
|---|---|---|---|---|
| Disappearing messages (`ExpiringMessageManager`, `ExpirationListener`) | sorted set of references in memory; EXPIRES_IN and EXPIRE_STARTED in the sms and mms tables; one alarm | mark started, schedule, load, wait, delete | threads against the loading thread; a restart forgets the set; row ids are used again | nothing with a running timer is forgotten; nothing goes early; everything goes in the end |
| Sending text (`MessageSender`, `PushTextSendJob`, `SmsSendJob`, `SmsSentJob`) | the row's type bits; stored and queued jobs; SMS results outstanding | compose, route, run, retry, cancel, report, resend, approve, delete | several consumer threads; deferral and retry; crash between two updates; lost answers; a job whose row id was given to another message | no clear text unasked; order; no message left "sending"; the timer of a sent message runs |
| Message tables (`SmsDatabase`, `MmsDatabase`) | rows | insert, update by id, delete | an update or a read by id hits whatever has the id | see the rows above |
| Receiving push (`MessageRetrievalService`, `PushReceivedJob`, `PushDecryptJob`, `PushDatabase`) | activity count, push table, session state, stored and queued jobs | activity start and stop, GCM, read, fetch, store, decrypt, show, delete | two channels at once; copies after a lost acknowledgement; crash between store, job, decrypt, show and delete | each message is shown once and in order; none vanishes or is stranded; the socket is open when needed |
| Delivery receipts (`EarlyReceiptCache`, `incrementDeliveryReceiptCount`) | a counter per row; a cache of 100 early receipts per table | look for rows, count, keep in the cache; look in the cache, insert | a receipt before or while the row is inserted; repeated receipts; a full cache; two rows with one timestamp | no receipt is counted twice; a message whose receipt came is shown as delivered |
| Calls (`RedPhoneService`, `CallManager` and subclasses, `SignalManager`) | service state, current call manager and its flags, the listener's queue | intents on threads of their own, reports of call threads, listeners, delayed hang-up | the end of a call against its set-up; late reports; calls crossing each other | the end of a call returns and is told; an ended call is silent; no call is lost under another |
| ZRTP (`crypto/zrtp`) | two handshake machines, retransmission | hello, commit, DH, confirm, close | loss, repetition, order, timeout; close against a running handler | both sides advance in turns, whatever a close undoes; every negotiation ends |
| RTP (`SequenceCounter`, `RtpAudioSender`, `RtpAudioReceiver`, `SrtpStream`) | the sender's number; the receiver's last short and long number | send, extend 16 bits, authenticate, decrypt | wraparound with loss, reordering and foreign datagrams | the extended number is the sent one while packets stray less than 2^15 |
| Call audio (`CallAudioManager`, `MicrophoneReader`, `AudioPlayer`) | running, finished, devices, mute | start, stop, delete, callbacks | stop against start; a callback while its device goes | nothing touches a deleted object; no device stays on |
| Prekeys (`PreKeyUtil`, `RefreshPreKeysJob`, `CreateSignedPreKeyJob`, `RotateSignedPreKeyJob`, `CleanPreKeysJob`) | key files, next id, active id, flags | generate, upload, activate, clean | ids modulo the range; crash between the steps; failed upload | the key the server has is on disk; no key in use is cleaned |
| Key cache (`KeyCachingService`) | master secret, activity count, timeout | set, clear, activity start and stop | alarm against activity | no secret after the timeout |
| Group and media sending, groups, attachments, registration | rows, jobs, group records | per-recipient results, membership updates | partial failure, order | see section 7 |
| Threads, notifications, directory, linked devices, recipients, import and export, local encryption, views | tables, caches | queries, rendering, conversion | little | not modelled: queries, layout, I/O or cryptographic functions |

How they interact: the user interface and the receivers call the databases
directly and hand jobs to the **JobManager** (a library: jobs are stored, queued,
grouped, retried). Jobs run on five consumer threads and update rows one field at
a time; no transaction spans two updates. Jobs and views tell the
**ExpiringMessageManager** which rows to delete and when. What is in memory goes
when the process dies; tables and stored jobs stay; alarms survive the process but
not a reboot.

A call has a thread of its own, which negotiates and then stays inside the native
`start()`; its listener is an executor with one thread; the service ends calls under
its lock, on a thread per intent or on whichever of those threads asked for it. The
handshake and the audio share one UDP socket, first one, then the other.

## 2. How the modules fit

| Module | Models | Uses | Proofs |
|---|---|---|---|
| `ExpiringMessages` | disappearing messages | | `ExpiringMessagesProofs` |
| `MessageSend` | sending a text | implements `JobQueue` | `MessageSendProofs` |
| `PushReceive` | receiving push | implements `Mailbox` and `JobQueue` | `PushReceiveProofs` |
| `DeliveryReceipts` | counters and early receipts | | `DeliveryReceiptsProofs` |
| `ZrtpHandshake` | both ends of the handshake | implements `KeyAgreement` | `ZrtpHandshakeProofs` |
| `RtpStream` | one direction of the audio | implements `NumberedChannel` | `RtpStreamProofs` |
| `CallMedia` | a call on the wire | composes `ZrtpHandshake` and `RtpStream` | `CallMediaProofs` |
| `CallAudio` | the native audio object | | `RedPhoneCallProofs` |
| `SignalManager` | the listener of a call | | |
| `RedPhoneCall` | the service and its calls | composes `CallAudio` and `SignalManager` | `RedPhoneCallProofs` |

`KeyAgreement` and `NumberedChannel` are abstract: what the handshake and the audio
promise over any network, without a packet, a timer or a short number in them. They
are instantiated in the modules that implement them and checked as properties of the
composition, so that what holds of each part alone also holds when they share a
socket. `Mailbox` and `JobQueue` are abstract too. A mailbox opens each message that was
sent once, one at a time and in its turn, and shows it next; only a death of the
process comes between, and no channel, table or job is in it. A job queue runs a stored
job again until it is finished and never after that, one of a group at a time, and of
those of one group and kind the oldest first; what a job does is not in it. The send
and the receive path each have their own copy of the JobManager's rules, and both are
shown to implement the one queue. `RedPhoneCall` takes the handshake as one step with its possible results, and
`CallMedia` takes the end of a call as the two steps that matter to it; that is where
the two compositions meet. The modules of messages are not composed with each other:
they share tables, but no row is written by two of them in a way a property of either
reads. The modules MC* hold the bounds of the instances. No module declares a
RECURSIVE operator.

## 3. Modules

### ExpiringMessages

State and code:

| Variable | Code |
|---|---|
| `rows`, `msg` | the two tables: which message a row id holds, and its EXPIRES_IN and EXPIRE_STARTED. `first` and `key` of a message are ghosts |
| `refs` | `expiringMessageReferences`, the TreeSet |
| `proc` | the executor's thread: loading, running, waiting with or without limit, deleting |
| `loader` | LoadTask's cursors and the insertion it is in |
| `caller` | the threads that start timers: views, MarkReadReceiver, send jobs, PushDecryptJob |
| `alarm` | the pending alarm of ExpirationListener |
| `now` | `System.currentTimeMillis()` |
| `corrupted` | ghost: two unsynchronised insertions met and a part of the tree was lost |

Actions: `InsertMessage`, `DeleteMessage`; `Seen`, `Sent`, `SyncRead`, `SyncSent`
begin what `MarkExpireStarted` (the row) and `ScheduleDeletion` (the set) finish;
`LoadQuery`, `LoadBegin`, `LoadEnd`, `LoadDone` are LoadTask; `WaitForReference`,
`WaitForDeadline`, `TakeExpired`, `DeleteExpired` are ProcessTask, the last one
outside the lock as in the code; `WaitTimeout`, `AlarmFires`, `Start`, `Crash`,
`Tick`. Row ids follow SQLite: the largest plus one, so an id is given again after
its row was deleted. The race on the TreeSet is undefined in Java; the model lets
an overlapped insertion leave any nonempty part of the set.

### MessageSend, with JobQueue

| Variable | Code |
|---|---|
| `row` | by id: the message, its base type and the bits secure, push, forced SMS, and whether EXPIRE_STARTED is set |
| `sender`, `approver` | the AsyncTask of `send` or `resend`; the approval dialog |
| `adding`, `stored`, `queue`, `consumer`, `lastId` | the JobManager: its executor, storage, queue, threads, ids |
| `met` | requirements present: master secret, network, service |
| `radio` | by row id, SMS parts whose result is outstanding (the broadcast reaches a new process too) |
| `log`, `used` | ghosts and bounds |

Each update of the row is an action of its own; so are the delivery and its
answer. `BeginRun` takes the snapshot of the record's secure flag that
`SmsSendJob.deliver` tests. The JobManager's rules come from how the jobs use it:
first job in the queue whose requirements are met and whose group is free; a
retried job runs again at once, or goes to the front of the queue when a
requirement is missing; a finished job leaves the storage before its group is
freed; a new process queues stored jobs in order of id. For the abstract queue a job
is its `Ticket`: id, kind and group, without its count of retries and its row.

A job, the dialog and the radio's results hold a row id and nothing else
(`PushTextSendJob`:41), and `BeginRun` reads whatever message has the id then
(`PushTextSendJob`:55). `Compose` takes any id above those of the rows there are, as
the table is shared with other conversations; the id of a deleted newest row is among
them. A message composed under an id that something still named is in `log.heirs`,
and one that was made insecure because the user approved another under its id in
`log.mistaken`. The properties state what such a message is exposed to: an old job
may send it a second time (`RepeatsExplained`), an old thread or SMS result may mark it
(`SentTimerRuns`), an old approval may clear its secure bit (`ClearOnlyIfChosen`).

`SmsSendJob.onCanceled` of a row that was deleted (`CancelJob`) looks for the
recipients of a thread that is not there and fails on the null it gets
(`MessageNotifier`:114). The model lets the job end; in the code the process dies with
the job still stored, which no property here speaks of.

Not in it: messages to oneself, key exchange, SMS delivery reports, the MMS and
media jobs, the option to send SMS over wifi, and the fallback that hands the
parts of an SMS over one by one.

### PushReceive, with Mailbox and JobQueue

| Variable | Code |
|---|---|
| `arrived`, `server` | the push server: envelopes taken, envelopes not acknowledged (external) |
| `push` | the push table |
| `session` | which messages the stored session has used the key of (the library's DuplicateMessageException) |
| `inbox` | the rows inserted in the sms and mms tables, in order |
| `adding`, `stored`, `queue`, `lastId` | the JobManager as in `MessageSend` |
| `thread` | the consumer threads, and the thread of `MessageRetrievalService` |
| `active`, `network` | `activeActivities`; the network requirement |
| `log`, `used` | ghosts and bounds |

`PushReceivedJob.handle` is one sequence of actions whatever thread runs it:
`Find` and `InsertRow` are the two halves of `PushDatabase.insert`, which takes no
transaction, then `AddDecryptJob`, and `AddReceiptJob` for an envelope that came by
GCM. The two channels that hold a list at the server go on with `Acknowledge` or
`LoseAck`. `CheckConnection`, `Read` and `ReadEnds` are the service's loop;
`NotifyAll` wakes it. `GetRow`, `Decrypt`, `InsertMessageInbox` and `DeleteRow` are
`PushDecryptJob`; the session is stored inside `Decrypt`, before the message is
inserted. Row ids follow SQLite and are given again: a second job for a row, which a
lost acknowledgement leaves, may find another envelope there. A decrypt job therefore
carries as a ghost the envelope it was queued for (`e`), and `GetRow` notes in
`log.astray` an envelope that a job for another one has read.

As a `Mailbox`, the session is what was opened, a message decrypted and not yet
inserted is the one in hand, and those excused from their turn are carried by GCM,
dropped for a blocked sender, or gone astray. Only persistent jobs are in the
`JobQueue`; a fetch job takes an id and leaves no trace there.

`pushPending` of the service is left out: no code sends ACTION_PUSH_RECEIVED, so the
list is always empty. Also not in it: the directory update for an unknown sender,
what each kind of content does beyond a row in the inbox, receipt envelopes,
acceptance of a changed identity (its envelope is one of `Corrupt`, shown as a
placeholder), the time before the identity key exists, and the upgrade from old
versions, which queues stored envelopes again.

What the model shows of the code and no comment promises: a crash after the session
was stored and before the message was inserted loses the message, since the next run
takes it for a duplicate; and a crash while the decrypt job is still in
`JobManager.add` leaves an acknowledged envelope in the table with no job. The
properties state exactly these exceptions: `NoneVanishes` bounds the first by the
number of crashes, `StoredHasJob` names the second. The third exception is to
`ShownInOrder`, and takes four envelopes: the acknowledgement of 2 is lost, so that 2
has two jobs; 1 and 2 are shown and their rows deleted; 3 and 4 get the ids again; the
stale job for the row of 2 shows 4, ahead of 3. `log.astray` names such envelopes.

### DeliveryReceipts

| Variable | Code |
|---|---|
| `row`, `count` | the rows of own messages in both tables and RECEIPT_COUNT; "taken" is between `earlyReceiptCache.remove` and the INSERT |
| `cache`, `order` | the `EarlyReceiptCache` of each table: counts, and the order of the LRU map that drops the eldest |
| `handler` | a thread in `PushReceivedJob.handleReceipt`: the query, each row of the cursor, or the cache, first for sms, then for mms |
| `deliveries` | how often each receipt was handed over by the server (external) |
| `counted`, `missed` | ghosts: rows a receipt was dealt with for; rows a receipt of which is excused |

`LookUp` and `InsertRow` are the two halves of both tables' `insertMessageOutbox`,
which removes early receipts and inserts without a lock around the two; `FindRows`,
`UpdateRow`, `CacheReceipt` are those of `incrementDeliveryReceiptCount`. A
transcript of a linked device that brings another timer inserts a media row of its own
with the same timestamp first (`Awaits`). A crash empties the caches; what is left of
a transcript then never comes, as the session has used its key.

### ZrtpHandshake, with KeyAgreement

Packets are their types, since a phone makes one packet of each type and sends that
one again; `sent` is what may arrive, again, in any order, or never. The tables
`InitiatorAnswers` and `ResponderAnswers` are the dispatch in
`ZRTPInitiatorSocket.negotiateStart`, `negotiateFinish` and the responder's: the state
a packet is taken in, the state its handler sets, its reply. `ReceivePacket` and
`Handle` are two steps, as a `close` may come between them; the handler then puts its
own state over TERMINATED, as in the code. `ResendIfDue`, `TimerElapses` and
`SocketFault` are the ways `receive` ends without a packet the state takes. A datagram
without the ZRTP prefix has the type of ConfAck, so that the first audio stands for a
lost one. `progress` is a ghost: how many packets each side has answered.

`CallManager.run` looks at `terminated` before each of its steps and does nothing to
keep it so: `LeaveLoop` is the look before the report, `NotifyCallConnected` the
report, `CheckTerminated` the look before the audio. A call that is ended between the
first two is reported as connected all the same, so that no property says otherwise.

Of the datagrams that are not ZRTP only the responder's audio is modelled. The answer
of the relay to `NetworkConnector`'s probe goes to the same local port, and a copy of
it, made by the network and delayed until the initiator waits for the acknowledgement,
would be taken for one as well. `InitiatorLast` and the refinement assume that there
is none.

### RtpStream, with NumberedChannel

A datagram is its true place in the stream, of which only the remainder travels, and
whether the MAC accepts it. `Delta` and `MoveCounter` are `SequenceCounter.convertNext`;
`Receive` moves the counter before the MAC is looked at, as `RtpAudioReceiver` does,
so that foreign datagrams move it as well. A payload decrypted under another number is
`Noise`. `InReach` is the one assumption about the network: two datagrams that arrive
one after the other are less than half the numbers apart, which is 22 minutes of
audio. `position` is a ghost, the place of the last datagram.

### CallMedia

The steps of both parts, with what they share: `TakeAudioForAck` receives a datagram
of the stream as the acknowledgement, `Speak` sends audio that may be taken for one,
`Straggle` is a packet of the responder's handshake that arrives among the audio.

### CallAudio

One record per call. `start` is where the call thread is in `CallAudioManager::start`
and its loop, `stop` where the ending thread is in `stop()` and the destructor, `on`
and `calling` the OpenSL ES devices that run and those inside their callback.
`hurried` (stop() came before the loop was reached) and `misused` (a deleted object
was touched) are ghosts. Destroying a device while `start()` sets it up, and touching
a deleted object, are undefined; the model goes no further after either.

### SignalManager

`task`, `queue` and `interrupted` are the executor's thread, its queue and the flag of
`SignalManager`. The listener queues itself again after each signal; `QueueHangup` and
`Interrupt` are the two steps of `terminate`, on another thread. What the server sends
is a free choice. `waitForSignal` sets a timeout of 1500 ms and removes it again, so
that two reads wait without one: that of a signal whose first bytes have come
(`BeginSignal` to `Signal`) and that of the answer to the hang-up (`SendHangup` to
`HangupAnswered`). The thread may stay in either for ever.

### RedPhoneCall

| Variable | Code |
|---|---|
| `state`, `currentCallManager` | the fields of `RedPhoneService` |
| `endStep`, `ender` | how far `terminate` is, with the lock held, and for whom |
| `thread` | the call thread: `CallManager.run` of either subclass, then `runAudio` |
| `terminated`, `socket`, `answer`, `muteEnabled` | the fields of the call manager |
| `muteParameter` | the value `runAudio` was called with |
| `busyTimers` | the delayed hang-ups on the service's handler |
| `missed`, `toggled`, `used` | ghosts and bounds |

Handlers take the lock (`LockFree`). Reports of the call thread do not:
`NotifyCallConnected` and `Fail` set `state` at any time, whatever call is current by
then. `EndAudio` to `EndClear` are the lines of `CallManager.terminate` and
`RedPhoneService.terminate` in their order. `CheckTerminated` and `CreateAudio` are
two steps, and between them `callAudioManager` is still null. Sounds, notifications,
wake locks and the views are left out.

What the models of sending, calls and receipts show of the code, where no comment or document
promises otherwise; the properties name exactly these exceptions:

- `SmsSentJob.onCanceled` is empty. If the job runs out of retries (each run without the
  master secret uses one up), nobody notes the radio's result, and the message shows
  as being sent for ever (`log.lost` in `NoOrphan`). The proof of `NoOrphan` failed on
  this case, which needs more outages than the run that checks `NoOrphan` has.
- A hang-up that overtakes `start()`, or one after a `start()` that failed, waits in
  `stop()` for ever with the service's lock held (`StopsInVain`).
- A hang-up between the thread's last look at `terminated` and the assignment of
  `callAudioManager` leaves the audio of an ended call running (`missed` in `Quiet`).
- Mute switched between `runAudio`'s reading of it and the native call is lost
  (`toggled` in `MuteObeyed`).
- A message composed under the row id of a deleted one whose job is still stored is sent
  by that job and by its own (`log.heirs` in `RepeatsExplained`). Offline it takes
  three steps of the user: send, delete, send.
- The server that stops in the middle of a signal keeps the hang-up waiting on the
  listener's thread (the premise of `HangupTold`).
- The hang-up after a busy tone ends whatever call is current when it fires.
- A receipt that arrives while its row is being inserted is kept in the cache for
  good; the row of a timer change takes the early receipt of the message that follows
  it; an early receipt for a message to a group is never found again; and each receipt
  leaves an entry in the cache of the other table, so that a hundred ordinary receipts
  push out an early one (`missed` in `DeliveryShown`).

## 4. Runs

| Run | Instance | Shows |
|---|---|---|
| `expiring_timers` | 2 callers, 2 messages sharing one row id, times to 3 with 2 ms to a second, 1 deletion, 1 crash or reboot, text transcripts | `TypeOK`, `Tracked`, `NeverOversleeps`, `KeptUntilDue`, `ExpiresUnlessCorrupted` |
| `expiring_race` | 2 callers, no crash | violated: `EveryStartedExpires` |
| `expiring_media_transcript` | media transcripts allowed | violated: `KeptUntilDue` |
| `expiring_reuse` | 2 messages on one id, 1 deletion | violated: `NonExpiringKept` |
| `send_order` | 2 messages, 2 consumers, an outage of the master secret, which every job needs, `SmsSentJob` tried once, two row ids, a deletion after which an id is given again | `PushInOrder`, `RepeatsExplained`, `ImplementsJobQueue` |
| `send_resend` | 1 message in 2 SMS parts, 1 consumer, a crash, a resend, an approval, one lack of service | `TypeOK`, `ClearOnlyIfChosen`, `NoOrphan`, `SentTimerRuns`, `RepeatsExplained`, `Settles` |
| `send_timer_sms` | 1 message by SMS | violated: `SentTimerStarted` |
| `receive_safety` | 2 envelopes, websocket and one notification job tried once, 2 consumers, a lost acknowledgement, a crash, sender blocked or not | `ShownOnce`, `ShownInOrder`, `NoneVanishes`, `StoredHasJob`, `ImplementsMailbox` |
| `receive_liveness` | 1 rejected envelope, 1 carried by GCM, 1 consumer, 2 visits, an outage, a crash | `TypeOK`, `ReceiptMeansStored`, `Drained`, `ImplementsJobQueue` |
| `delivery_receipts` | a text, a media message of a linked device with a timer change, one to a group of a linked device; 2 threads, a cache of 1, one receipt that comes twice, a crash | `TypeOK`, `CountedOnce`, `DeliveryShown` |
| `call_media` | numbers of 2 bits, 5 audio packets, 2 in the network, foreign datagrams at places 1 to 6, each packet sent again once, one call ended, one socket error | `TypeOK`, `InitiatorLast`, `InStep`, `NoNoise`, `ImplementsKeyAgreement`, `ImplementsChannel`, `Ends` |
| `call_life` | an outgoing and an incoming call, both may connect, callbacks of both devices, one act of the user or signal of the other side | `TypeOK`, `SafeTeardown`, `Quiet`, `MuteObeyed`, `DisplacedOnlyByFailure`, `HangupReturns`, `HangupTold` |

The bounds. Two messages on one id are needed for an id to be used again; one deletion
frees it. Two callers and LoadTask are the least that races. A second is two ticks so
that seconds and milliseconds differ. Retry counts of 1 and 2 (5 and 15 in the code)
let a job be retried and also run out; the count of `SmsSentJob` is the library's
default, 3, in two runs and 1 in `send_order`, so that a job given up there has to
leave the queue of jobs as well. The notification job of `receive_safety` is tried
once, which keeps two envelopes within reach: a second try reads again what the server
holds, as the websocket thread does anyway. The proofs hold for any count. `RepeatsExplained`
is checked in two runs, one with a deletion and one with a crash and a resend, since
each cause needs steps of its own; `log.mistaken`, and heirs with a timer, are beyond
both and rest on the proofs. `ImplementsMailbox` is checked where two consumers could
open two readable envelopes at once or in the wrong order. In `send_order` the master
secret is what fails, since all three kinds of job wait for it; an outage of the network
or of the service does to one kind what that does to all, and the proofs cover each. Two
messages are needed for order, two consumers for jobs at once, one crash can fall between
any two steps. Two visits, so that an activity can come back after the crash. A cache of
one is full at once, so that every receipt kept in it drops another; two threads are
the least that can hold the same receipt, and the three messages are the three ways a
row looks for its early receipts. Five packets with numbers of two bits go past the
last number, and the foreign places lie on both sides of the stream;
`MaxRetransmitCount` 0 sends a packet again and also gives up. Two calls are the least
that can displace each other; a single event can fall between any two steps of either
call, and everything else in `RedPhoneCall` (failures, the reports of both threads,
the end of each call they ask for) happens without one. The largest runs have 4.6
million distinct states (`receive_safety`), 4.4 million (`send_order`) and 2.7 million
(`delivery_receipts`). Symmetry, of consumers, threads and messages without a timer, is
used only in runs without a liveness property.

CHECK_DEADLOCK is FALSE throughout because these systems do stop: when the messages
of an instance are used up, a call is over, or a wait never ends (which `StopsInVain`,
`Settles` and `Drained` are about).

The violated runs are disagreements with what the dialog for disappearing
messages tells the user (`strings.xml` 482 and 483); `PROJECT.json` quotes them.

## 5. Fairness

`ExpiringMessages`: a caller that marked a message goes on to schedule it (same
method); the executor's thread runs; alarms are delivered; time passes; a dead
process is started again some day. Nothing is assumed of the timed wait, whose
clock stops while the phone sleeps: the alarm must do. `MessageSend`: threads run,
the radio reports each part, requirements that were lost return; nothing is
assumed of the user, so a dialog may stay open. Lack of service is bounded by
`MaxNoService`: with service failing for ever a message stays in sending, as it
should. Outages are bounded likewise. `PushReceive`: the executor and the threads
run; nothing is assumed of the user, the network or GCM, and `Drained` only speaks of
behaviours in which an activity stays in front and the network stays.

`CallMedia`: the call threads go through their loops and the retransmit interval ends.
Nothing is assumed of the network; `Ends` holds because the retransmissions are
counted. `RedPhoneCall`: call threads, listeners and the thread that ends a call go
on, and a callback of a device ends. `recv` returns after 5 s without a packet
(`getFileDescriptor` sets the timeout) and `waitForSignal` after 1500 ms, so that a
thread in either does not wait for the other side. Nothing is assumed of the user, the
server or the other phone: a call thread that talks to the server (`Connect`,
`StartSignals`), a listener that reads a signal and one that waits for the answer to its
hang-up may stay there. `HangupTold` therefore speaks of calls whose listener is not
stuck in a signal, says that the hang-up is sent, and nothing of its answer; that a
write of a few bytes to the socket returns (`SendHangup`, the reply to a signal) is the
one thing it takes from the kernel. `DeliveryReceipts` states no fairness: its properties are of
safety, and a receipt handled by a thread that dies is one the crash action covers.

## 6. Proofs

`ExpiringMessagesProofs` proves, for any number of callers, ids, messages, times
and crashes, under the assumptions on the constants that `ExpiringMessages` names:

- `TypeCorrect`: `Spec => []TypeOK`;
- `TimersTracked`: `Spec => []Tracked`;
- `NoOversleeping`: `Spec => []NeverOversleeps`;
- `KeptUntilExpiry`: `Spec => KeptUntilDue`, if `TRUE` is not in `SyncedTables`. With
  transcripts of media messages the property is false, as their seconds are taken for
  milliseconds (`expiring_media_transcript`).

`Tracked` is not inductive by itself: a step that finds a row by its key must know
that the row's message has that key and was inserted. `RowsOwn` says so, and `Inv ==
TypeOK /\ RowsOwn /\ Tracked` is inductive. `NeverOversleeps` is proved from the
types: an insertion wakes the processor in the same step, and only the processor
removes references. `KeptUntilDue` says that the manager deletes no message early
unless its id was shared, so its invariant `Timed` is about the keys of messages that
had their id to themselves (`Alone`): whatever carries such a key, a reference
(`RefTimed`), a caller between mark and schedule (`CallerTimed`) or the row
(`RowTimed`), carries a time no earlier than the first start plus the timer.
References outlive their rows, so it also says that all of them carry keys some
message was inserted under (`Known`): the first message of a key inherits none. `Calm`
is what every step leaves of a known key: its message, its timer, a first start that
is no later. Each proof has one step per action.

`MessageSendProofs` proves, for any number of messages, row ids, consumer threads, SMS
parts, retries, resends, deletions, outages and crashes:

- `SendTypeCorrect`: `Spec => []TypeOK`;
- `NeverClearUnasked`: `Spec => []ClearOnlyIfChosen`, clear text only for a message
  composed as an SMS or approved as one, or found under the id of one approved;
- `PushKeepsOrder`: `Spec => PushInOrder`;
- `NoneOrphaned`, `TimersOfSentRun`: `[]NoOrphan`, `[]SentTimerRuns`;
- `RepeatsHaveCauses`: `Spec => []RepeatsExplained`;
- `SendIsJobQueue`: `Spec => ImplementsJobQueue`.

Since jobs name ids, every argument about a message first has to say where the
message is. `Placed` does: a message is composed once (`Known`), so it is in one row
(`RowsApart`), and a thread holds it only for the id of that row (`Home`). A step that
gives an id again puts a message there that is in no other row and that no thread holds
(`FreshRow`).

The check in `SmsSendJob.deliver` looks at the record read at the start of the run,
not at the row, so the argument must show that what was read is still good.
`SecureRows`: the row of a guarded message (composed as secure, neither approved nor
mistaken for one approved) has its secure bit. `Snapshots`: a thread that is delivering
has not read the record of a guarded message as insecure; the bit is cleared only in
the step that records the approval, and an approval is never taken back. `ClearInv` is
these two with the property.

The others rest on `Jobs`, what the JobManager keeps: jobs have the form of their
kind and ids up to `lastId` (`JobsFormed`, `Numbered`), the storage is in order of id
(`JobsStored`), no job waits or runs twice (`JobsApart`), a persistent job that waits or
runs is stored (`JobsKept`), and the jobs of one group and kind wait in order of id
behind the one that runs (`LinesInTurn`). Since every job takes one of six kinds of step (`Kinds`: it is
stored, taken, put back, finished, struck by a crash, or goes on), each layer is
preserved by six lemmas and not by one per action.

- The queue: each of the six kinds of step is one of `JobQueue`. That a job is not begun
  twice is `JobsApart`, that none is forgotten `JobsKept`, and that the oldest of a line
  is begun `LinesInTurn`: the JobManager takes the first job that may run, so the jobs
  of a line must stay in order while others are put back before and behind them.
- Order: `LastBehind`, no push job that is stored is older than the last that reached
  the server.
- `NoOrphan` and `SentTimerRuns` ask for a stored job of the row. That is not
  inductive: the job may have made its last update, and then leaves. `Charged` and
  `TimerCharged` ask for one that is still going to (`Settling`). The timer is about a
  message and not its row, so that it also needs that a message composed under an id
  nothing named has the id for itself: the threads and the radio results of the id are
  its own (`Own`).
- `RepeatsExplained` counts deliveries. `Due` are those still to come under an id: its
  push jobs that are stored and not answered, those about to be stored, and the sender
  that will queue one. `DueFor` a message are those due under the id of its row and those
  in a thread that holds it, as its row may be gone by then. `Bounded` counts the
  deliveries made and due together: a step moves one from due to made or adds one of
  either with its cause. A message composed under an id that is still named takes over
  what is due there, so `IdsBounded` says how much that can be: one more for each
  deletion, of which an id without a row has one in hand for the message to come.

`PushReceiveProofs` proves, for any number of envelopes, threads, channels, repeated
deliveries and crashes:

- `ReceiveTypeCorrect`: `Spec => []TypeOK`;
- `NeverShownTwice`: `Spec => []ShownOnce`;
- `StoredEnvelopesHaveJobs`: `Spec => []StoredHasJob`;
- `ReceiptsComeAfterStorage`: `Spec => []ReceiptMeansStored`;
- `NothingVanishes`: `Spec => []NoneVanishes`;
- `MessagesShownInOrder`: `Spec => []ShownInOrder`;
- `ReceiveIsMailbox`: `Spec => ImplementsMailbox`;
- `ReceiveIsJobQueue`: `Spec => ImplementsJobQueue`.

For `ShownOnce` the push table is no part of the argument: it only saves work. What
counts is that the key of a message is used up in the step that decides to show it.
`KeysUsed`: a message that is in the inbox, or that a thread is about to insert, has
used its key. `NotYetShown`: a message about to be inserted is not in the inbox and is
with one thread only. With the shape of the variables they make `ShownOnce` inductive;
every action but `Decrypt` and `InsertMessageInbox` is `Quiet`.

The others are proved in layers, each inductive relative to those below:

- `Jobs`: as in `MessageSendProofs`, and `DecryptsInTurn`: one decrypt job runs at a
  time, the oldest first.
- `Rows`: the row an envelope was stored in holds it until its message is shown or
  known to the session (`RowsHeld`, the reason why ids that are given again do no
  harm); a message that came by GCM takes no other way (`Channels`, `LostUnseen`).
- `Kept`: each envelope the server took is with the server, in a job of its own, or
  dealt with (`AllFound`); who acknowledges an envelope or ends its job has seen to
  that (`HandledSafely`); the receipt is behind the decrypt job (`ReceiptsBehind`).
- `SwallowedFew`: at most one message per crash was decrypted and is not shown, since
  one decrypt job runs at a time.
- `Order`: of the envelopes the server queued, those before the one at hand are over
  or have a job (`TakenInOrder`), jobs are stored in that order (`JobsInOrder`) and
  decrypted in it (`DecryptedInOrder`). An envelope is `Over` once it has used its key
  or no channel and no job will bring it again (`Gone`).
- The job queue: as in `MessageSendProofs`. The decrypt jobs are the only line
  (`DecryptsInTurn`); fetch jobs, which run and are put back without being stored, move
  among them.
- The mailbox: `Order` says that no message is decrypted before an earlier one that
  is not excused, so a message decrypted comes after all that were (`DecryptLast`). That
  no other is in hand is `DecryptsInTurn`. `RejectedStay` says that the session never
  uses the key of a rejected envelope, so that those are not opened.

`RtpStreamProofs` proves, for any width of the numbers, any number of packets and any
foreign datagrams, under `InReach`:

- `StreamTypeCorrect`: `StreamTypeOK`;
- `AlwaysInStep`, `NeverNoise`: `InStep` and `NoNoise`;
- `StreamImplementsChannel`: the stream implements `NumberedChannel`.

`DeltaIsExact` is the arithmetic: for a gap of less than half the range, the branch
taken on the difference of remainders gives the gap (`RemainderGap` says that the two
differ by a multiple of the range). `StreamInv` adds that the short number is the
remainder of the place, and that what travels authenticated was sent.

`ZrtpHandshakeProofs` proves, for any number of retransmissions, terminations and
faults:

- `HandshakeTypeCorrect`: `HandshakeTypeOK`;
- `ResponderConfirmsFirst`: `InitiatorLast`;
- `HandshakeTakesTurns`: the handshake implements `KeyAgreement`.

The invariant reads progress off what each side has sent (`SentMeans`), the state it
is in (`StateMeans`), the packet it handles (`HandlingMeans`) and that it goes on to
report (`AgreedMeans`): a packet shows that its sender is at least so far, a state says how
far its owner is exactly, so whoever takes a packet is one step behind or level.
TERMINATED says nothing of progress, but only ended calls are in it
(`TerminatedMeans`), and those leave the loop without a report, as the flag is looked at
there and not only the state. The types need the
invariant too, as no side answers more often than its protocol has steps; `PacketsTyped`
adds the packets and the count of retransmissions.

`CallMediaProofs` proves that each step of the call is a step of the stream or leaves
it alone, and likewise of the handshake: `CallImplementsStream`,
`CallImplementsHandshake`. `CallKeepsItsPromises` and `CallTypeCorrect` then take
over all that was proved of the two parts.

`RedPhoneCallProofs` proves, for any number of calls and events:

- `CallsKeepToAudio`: the service and the call threads use the audio object only as
  `AudioSpec` lets them (built once, started after that, stopped once, not muted after);
- `ServiceTypeCorrect`: `TypeOK`;
- `TeardownIsSafe`: `SafeTeardown`;
- `EndedCallsAreQuiet`: `Quiet`;
- `OnlyFailureDisplaces`: `DisplacedOnlyByFailure`;
- `MuteIsObeyed`: `MuteObeyed`.

`Sound` is the invariant of one audio object: as long as its end did not overtake its
start, the flag `finished` tells the truth from before the engine to after the loop,
so that past the wait `start()` has returned, past each device nothing of it runs, and
past the sleep no callback does. `Slept` assumes what the code's comment does: a
callback that runs when its device is stopped ends within the 40 ms. `ServiceInv`
joins the object to the call thread and to the service (an object is stopped only for
the current call, by one thread). `QuietInv` follows the flag from `terminated` to the
last look at it. `IdleFails` says that a service with a call and a free lock is IDLE
only while some call thread waits to end it. `Muted` follows the user's wish from
`muteEnabled` to what the thread was told, and from there to the object. For the
types, `EndTyped` says who may be ending a call and how far, and `Budget` that no more
delayed hang-ups wait than busy signals came. All of these but the types say nothing
of a process after it has touched a deleted object (`Defined`).

`DeliveryReceiptsProofs` proves, for any number of messages, threads, repetitions and
crashes and any size of the cache:

- `ReceiptsTypeCorrect`: `Spec => []TypeOK`;
- `NeverCountedTwice`: `Spec => []CountedOnce`;
- `ReceivedIsShown`: `Spec => []DeliveryShown`.

A receipt is owed by a thread (`Owers`), held by the cache, or counted by the row; each
step moves it along these three or drops it, and only a delivery adds one. So the sum
(`Covered`) never exceeds the deliveries. Which entry a full cache drops does not
matter for this.

That a cache holds no more than `CacheSize` entries does need its order: `Ordered` says
that the order has each of its keys once and that these are the keys with an entry, so
that there are as many entries as places (`KeptCount`). The lemmas say what the LRU map's
three operations, removal of a key, appending one and dropping the eldest, do to such
a sequence.

For `DeliveryShown`, `Shown` says what each state of the row asks for: before the
insertion a receipt dealt with is in the cache, after it the count shows it, and
otherwise it is among those excused. What makes it inductive is `Honest`: a thread
caches a receipt of a message of this phone only when that message's row is gone
already, since the message was sent after its row was inserted, and updates only rows it has
found. `UpdatesFirst` says that the row of a timer change comes before that of its
message.

Every safety property of every passing run is stated by a theorem, and so are the
refinements. Liveness is out of the prover's reach and stays with TLC:
`ExpiresUnlessCorrupted`, `Settles`, `Drained`, `Ends`, `HangupReturns`, `HangupTold`.
The properties of the four violated runs are false of the code.

## 7. Not modelled

- Prekeys: the ids are local arithmetic and the steps of a signed prekey a short
  sequence on one thread, repeated until it has succeeded; which key the server then
  has is not in the repository.
- Key cache: one secret behind one monitor and one alarm, small and sequential.
- Group and media sending: the path of `MessageSend` with more recipients. What would
  be special to it is the list of failures the service library reports, which is not
  in the repository. Groups, identity keys: tables updated one envelope at a time by
  the jobs of `PushReceive`.
- Attachments, registration, SMS and MMS reception: transfers and server or carrier
  calls in a fixed order. Import, export and migration: one-off conversions.
- Threads, notifications, contact directory, linked devices, recipients, views:
  queries, caches of a server's reply, layout. Where they change a message's state
  (trimming, marking as read, transcripts, the directory's answer) the modules above
  have it as an action.
- Local encryption, and the cryptography of ZRTP and SRTP: functions, of which the
  models keep who could have computed what (a MAC accepts what its stream sent; a
  packet of a type is sent after the one it answers).
- Codec and jitter buffer: signal processing inside WebRTC. The bits of an RTP header
  other than the number.
- In receipts: the transcript of a text to a group, which goes into the sms table
  under the group's id, so that no receipt of a member is ever counted for it.

By lines, nearly all C and C++ under `src/jni` is OpenSSL, WebRTC and Speex, copied
into the tree and used through a few calls. The application's own native code is
`src/jni/redphone`, about 25 small files, of which those that keep state between calls
are modelled; the rest of the application is Java. A model of the vendored libraries
would say nothing of this program.
