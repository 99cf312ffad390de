----------------------------- MODULE MessageSend -----------------------------
(***************************************************************************)
(* The way of a text message out of one conversation: composing inserts a  *)
(* row in the sms table and queues a send job; consumer threads of the     *)
(* JobManager run PushTextSendJob, SmsSendJob and SmsSentJob against the   *)
(* row; the user may send a failed message again, and is asked before a    *)
(* message that could not go out encrypted is sent as plain SMS.  Every    *)
(* update of the row is a step of its own, and the process may die between *)
(* any two: jobs are stored, what the threads were doing is not.           *)
(*                                                                         *)
(* A job names its row by id alone and reads the message when it runs.     *)
(* The id is an INTEGER PRIMARY KEY without AUTOINCREMENT: once the newest *)
(* row is deleted its id is given again, and what still names it finds     *)
(* another message there.                                                  *)
(*                                                                         *)
(* One recipient, another than the user.  The JobManager, the push server  *)
(* and the radio are external and modelled from how the jobs use them.     *)
(***************************************************************************)
EXTENDS Integers, Sequences, SequencesExt, FiniteSets

CONSTANTS
  Messages,      \* the messages the user may compose
  Expiring,      \* those composed while the conversation has a timer
  Consumers,     \* consumer threads of the JobManager (5 in the code)
  PushRetries,   \* retry count of PushTextSendJob (5 in the code)
  SmsRetries,    \* retry count of SmsSendJob (15 in the code)
  SentRetries,   \* retry count of SmsSentJob (the library's default)
  Parts,         \* parts an SMS is divided into
  Unsteady,      \* requirements that may fail for a while
  MaxRows,       \* bound: the largest id of a row
  MaxOutages,    \* bound: how often a requirement fails
  MaxCrashes,    \* bound: deaths of the process
  MaxResends,    \* bound: times the user sends a failed message again
  MaxNoService,  \* bound: results RESULT_ERROR_NO_SERVICE or _RADIO_OFF
  MaxDeletes     \* bound: messages the user deletes

Ids == 1..MaxRows
NoMessage == "none"   \* what a row that is not there holds

Requirements == {"secret", "network", "service"}

ASSUME ExpiringAssumption == Expiring \subseteq Messages
ASSUME NoMessageAssumption == NoMessage \notin Messages
ASSUME RetriesAssumption  == {PushRetries, SmsRetries, SentRetries} \subseteq Nat \ {0}
ASSUME PartsAssumption    == Parts \in Nat \ {0}
ASSUME UnsteadyAssumption == Unsteady \subseteq Requirements
ASSUME BoundsAssumption   ==
  {MaxRows, MaxOutages, MaxCrashes, MaxResends, MaxNoService, MaxDeletes}
    \subseteq Nat

VARIABLES
  row,        \* the sms table: id -> message, type and EXPIRE_STARTED
  sender,     \* the AsyncTask running MessageSender.send / resend
  approver,   \* the dialog of handleMessageApproval
  adding,     \* jobs given to JobManager.add, not yet stored
  stored,     \* the JobManager's persistent storage, in order of job id
  queue,      \* its in-memory queue
  consumer,   \* its consumer threads
  lastId,     \* the last job id given
  met,        \* the requirements present now
  radio,      \* per row id, SMS parts whose result is outstanding
  log,        \* ghosts: see Log
  used        \* bound counters

vars == <<row, sender, approver, adding, stored, queue, consumer, lastId, met,
          radio, log, used>>

-----------------------------------------------------------------------------
(* Types *)

BaseTypes == {"sending", "outbox", "sent", "failed", "fallback"}
Row       == [m : Messages, base : BaseTypes, secure : BOOLEAN, push : BOOLEAN,
              forced : BOOLEAN, started : BOOLEAN]
NoRow     == [m |-> NoMessage, base |-> "none", secure |-> FALSE, push |-> FALSE,
              forced |-> FALSE, started |-> FALSE]

Results == {"none", "ok", "noservice", "error"}
Job     == [id : Nat, kind : {"push", "sms", "sent"}, row : Ids,
            group : {"none", "name", "number"}, iter : Nat, result : Results]

Idle == [pc |-> "idle"]

Retries(j)  == CASE j.kind = "push" -> PushRetries
                 [] j.kind = "sms"  -> SmsRetries
                 [] j.kind = "sent" -> SentRetries

Requires(j) == CASE j.kind = "push" -> {"secret", "network"}
                 [] j.kind = "sms"  -> {"secret", "service"}
                 [] j.kind = "sent" -> {"secret"}

(* Mutant: PushTextSendJob without a group id.                             *)
PushJobUngrouped(i) == [id |-> 0, kind |-> "push", row |-> i, group |-> "none",
                        iter |-> 0, result |-> "none"]

(* Group ids: PushTextSendJob and a repeated SmsSendJob use the number, a  *)
(* first SmsSendJob the recipient's name, SmsSentJob none.                 *)
PushJob(i)       == [id |-> 0, kind |-> "push", row |-> i, group |-> "number",
                     iter |-> 0, result |-> "none"]
SmsJob(i, group) == [id |-> 0, kind |-> "sms", row |-> i, group |-> group,
                     iter |-> 0, result |-> "none"]
SentJob(i, res)  == [id |-> 0, kind |-> "sent", row |-> i, group |-> "none",
                     iter |-> 0, result |-> res]

Running      == {consumer[c].job : c \in {d \in Consumers : consumer[d].pc # "idle"}}
GroupFree(g) == g = "none" \/ \A j \in Running : j.group # g

Present(i) == row[i].base # "none"

(* An update by id does nothing when the row is gone.                      *)
Update(i, r) == row' = IF Present(i) THEN [row EXCEPT ![i] = r] ELSE row

-----------------------------------------------------------------------------
(* log: what happened outside the row.                                     *)
(*   composed  messages composed; secure those composed as secure          *)
(*   heirs     messages composed under an id that something still named    *)
(*   approved  messages the user agreed to send unencrypted                *)
(*   mistaken  messages found under the id of one the user agreed to       *)
(*   clear     messages handed to the radio                                *)
(*   copies    how often the push server accepted each message             *)
(*   last      the job that made the last push delivery                    *)
(*   lost      messages separated by a crash from their job, or whose      *)
(*             SmsSentJob was given up                                     *)
(*   lostAcks  answers of the push server that were lost                   *)
Log == [composed : SUBSET Messages, secure : SUBSET Messages,
        heirs : SUBSET Messages, approved : SUBSET Messages,
        mistaken : SUBSET Messages, clear : SUBSET Messages, copies : [Messages -> Nat], last : Nat,
        lost : SUBSET Messages, lostAcks : Nat]

Init ==
  /\ row = [i \in Ids |-> NoRow]
  /\ sender = Idle
  /\ approver = Idle
  /\ adding = <<>>
  /\ stored = <<>>
  /\ queue = <<>>
  /\ consumer = [c \in Consumers |-> Idle]
  /\ lastId = 0
  /\ met = Requirements
  /\ radio = [i \in Ids |-> 0]
  /\ log = [composed |-> {}, secure |-> {}, heirs |-> {}, approved |-> {},
            mistaken |-> {}, clear |-> {},
            copies |-> [m \in Messages |-> 0], last |-> 0, lost |-> {},
            lostAcks |-> 0]
  /\ used = [outages |-> 0, crashes |-> 0, resends |-> 0, noService |-> 0,
             deletes |-> 0]

-----------------------------------------------------------------------------
(* The user *)

(* What a thread, a job or the radio will still do names the row by id.    *)
Named(i) ==
  \/ \E k \in DOMAIN adding : adding[k].row = i
  \/ \E k \in DOMAIN stored : stored[k].row = i
  \/ approver.pc # "idle" /\ approver.row = i
  \/ radio[i] > 0

(* ConversationActivity.sendTextMessage, insertMessageOutbox: secure when  *)
(* the conversation is and SMS was not chosen by hand (force).  SQLite     *)
(* gives an id above those of the rows there are, of this conversation and *)
(* of the others.                                                          *)
Compose(m, i, secure, force) ==
  /\ sender.pc = "idle"
  /\ m \notin log.composed
  /\ \A k \in i..MaxRows : ~Present(k)
  /\ ~(secure /\ force)
  /\ row' = [row EXCEPT ![i] = [m |-> m, base |-> "sending", secure |-> secure,
                                push |-> secure, forced |-> force, started |-> FALSE]]
  /\ sender' = [pc |-> "route", row |-> i, force |-> force]
  /\ log' = [log EXCEPT !.composed = @ \cup {m},
                        !.secure = IF secure THEN @ \cup {m} ELSE @,
                        !.heirs = IF Named(i) THEN @ \cup {m} ELSE @]
  /\ UNCHANGED <<approver, adding, stored, queue, consumer, lastId, met, radio, used>>

(* "Resend" is offered for failed messages; the row keeps its type.        *)
Resend(i) ==
  /\ sender.pc = "idle"
  /\ row[i].base = "failed"
  /\ used.resends < MaxResends
  /\ sender' = [pc |-> "route", row |-> i, force |-> row[i].forced]
  /\ used' = [used EXCEPT !.resends = @ + 1]
  /\ UNCHANGED <<row, approver, adding, stored, queue, consumer, lastId, met,
                 radio, log>>

(* Mutant: the job is added twice.                                         *)
RouteTwice(isPush) ==
  /\ sender.pc = "route"
  /\ LET j == IF ~sender.force /\ isPush
              THEN PushJob(sender.row) ELSE SmsJob(sender.row, "name") IN
       adding' = adding \o <<j, j>>
  /\ sender' = Idle
  /\ UNCHANGED <<row, approver, stored, queue, consumer, lastId, met, radio, log, used>>

(* sendTextMessage; isPush is what the directory answers for the number.   *)
RouteMessage(isPush) ==
  /\ sender.pc = "route"
  /\ adding' = Append(adding, IF ~sender.force /\ isPush
                              THEN PushJob(sender.row) ELSE SmsJob(sender.row, "name"))
  /\ sender' = Idle
  /\ UNCHANGED <<row, approver, stored, queue, consumer, lastId, met, radio, log, used>>

(* deleteMessage: the row goes, its jobs stay.                             *)
DeleteMessage(i) ==
  /\ Present(i)
  /\ used.deletes < MaxDeletes
  /\ row' = [row EXCEPT ![i] = NoRow]
  /\ used' = [used EXCEPT !.deletes = @ + 1]
  /\ UNCHANGED <<sender, approver, adding, stored, queue, consumer, lastId, met,
                 radio, log>>

(* handleMessageApproval: the dialog is opened on a row that waits for     *)
(* approval and shows its message; what the answer does does not look at   *)
(* the row again.                                                          *)
AskApproval(i) ==
  /\ approver.pc = "idle"
  /\ row[i].base = "fallback"
  /\ approver' = [pc |-> "asked", row |-> i, m |-> row[i].m]
  /\ UNCHANGED <<row, sender, adding, stored, queue, consumer, lastId, met, radio,
                 log, used>>

Refuse ==
  /\ approver.pc = "asked"
  /\ Update(approver.row, [row[approver.row] EXCEPT !.base = "failed"])
  /\ approver' = Idle
  /\ UNCHANGED <<sender, adding, stored, queue, consumer, lastId, met, radio, log, used>>

MarkAsInsecure ==
  /\ approver.pc = "asked"
  /\ Update(approver.row, [row[approver.row] EXCEPT !.secure = FALSE])
  /\ log' = [log EXCEPT !.approved = @ \cup {approver.m},
                        !.mistaken = @ \cup ({row[approver.row].m}
                                             \ {approver.m, NoMessage})]
  /\ approver' = [approver EXCEPT !.pc = "outbox"]
  /\ UNCHANGED <<sender, adding, stored, queue, consumer, lastId, met, radio, used>>

MarkAsOutbox ==
  /\ approver.pc = "outbox"
  /\ Update(approver.row, [row[approver.row] EXCEPT !.base = "outbox"])
  /\ approver' = [approver EXCEPT !.pc = "forced"]
  /\ UNCHANGED <<sender, adding, stored, queue, consumer, lastId, met, radio, log, used>>

MarkAsForcedSms ==
  /\ approver.pc = "forced"
  /\ Update(approver.row, [row[approver.row] EXCEPT !.forced = TRUE, !.push = FALSE])
  /\ approver' = [approver EXCEPT !.pc = "add"]
  /\ UNCHANGED <<sender, adding, stored, queue, consumer, lastId, met, radio, log, used>>

AddApprovedJob ==
  /\ approver.pc = "add"
  /\ adding' = Append(adding, SmsJob(approver.row, "number"))
  /\ approver' = Idle
  /\ UNCHANGED <<row, sender, stored, queue, consumer, lastId, met, radio, log, used>>

Approval == MarkAsInsecure \/ MarkAsOutbox \/ MarkAsForcedSms \/ AddApprovedJob

-----------------------------------------------------------------------------
(* The JobManager (external) *)

(* add's executor: store the job, then enqueue it.                         *)
StoreJob ==
  /\ adding # <<>>
  /\ LET j == [Head(adding) EXCEPT !.id = lastId + 1] IN
       /\ stored' = Append(stored, j)
       /\ queue' = Append(queue, j)
  /\ adding' = Tail(adding)
  /\ lastId' = lastId + 1
  /\ UNCHANGED <<row, sender, approver, consumer, met, radio, log, used>>

Eligible(i) == Requires(queue[i]) \subseteq met /\ GroupFree(queue[i].group)

(* A free consumer takes the first job that can run.                       *)
TakeJob(c) ==
  /\ consumer[c].pc = "idle"
  /\ \E i \in DOMAIN queue :
       /\ Eligible(i)
       /\ \A k \in 1..(i - 1) : ~Eligible(k)
       /\ consumer' = [consumer EXCEPT ![c] = [pc |-> "run", job |-> queue[i],
                                               secure |-> FALSE, m |-> NoMessage]]
       /\ queue' = RemoveAt(queue, i)
  /\ UNCHANGED <<row, sender, approver, adding, stored, lastId, met, radio, log, used>>

Goto(c, pc) == consumer' = [consumer EXCEPT ![c].pc = pc]

(* Mutant: the job that is put back goes on running here.                  *)
RetryTwice(c) ==
  LET j == [consumer[c].job EXCEPT !.iter = @ + 1] IN
  /\ consumer' = [consumer EXCEPT ![c].job = j,
                                  ![c].pc = IF j.iter < Retries(j) THEN "run" ELSE "cancel"]
  /\ IF Requires(j) \subseteq met THEN UNCHANGED queue ELSE queue' = <<j>> \o queue

(* Mutant: the job that is put back goes to the end of the queue.          *)
RetryBehind(c) ==
  LET j == [consumer[c].job EXCEPT !.iter = @ + 1] IN
  IF ~(Requires(j) \subseteq met)
  THEN /\ queue' = Append(queue, j)
       /\ consumer' = [consumer EXCEPT ![c] = Idle]
  ELSE /\ consumer' = [consumer EXCEPT ![c].job = j,
                                       ![c].pc = IF j.iter < Retries(j) THEN "run" ELSE "cancel"]
       /\ UNCHANGED queue

(* Mutant: the runs are counted down from nothing.                         *)
RetryCountingDown(c) ==
  LET j == [consumer[c].job EXCEPT !.iter = @ - 1] IN
  /\ consumer' = [consumer EXCEPT ![c].job = j, ![c].pc = "run"]
  /\ UNCHANGED queue

(* onShouldRetry said yes: run again at once while the requirements are    *)
(* there, else put the job back in front; give up after retryCount runs.   *)
RetryLater(c) ==
  LET j == [consumer[c].job EXCEPT !.iter = @ + 1] IN
  IF ~(Requires(j) \subseteq met)
  THEN /\ queue' = <<j>> \o queue
       /\ consumer' = [consumer EXCEPT ![c] = Idle]
  ELSE /\ consumer' = [consumer EXCEPT ![c].job = j,
                                       ![c].pc = IF j.iter < Retries(j) THEN "run" ELSE "cancel"]
       /\ UNCHANGED queue

(* The job is over: forget it, then free its group.                        *)
FinishJob(c) ==
  /\ consumer[c].pc = "done"
  /\ \E i \in DOMAIN stored :
        stored[i].id = consumer[c].job.id /\ stored' = RemoveAt(stored, i)
  /\ consumer' = [consumer EXCEPT ![c] = Idle]
  /\ UNCHANGED <<row, sender, approver, adding, queue, lastId, met, radio, log, used>>

(* Mutant: onCanceled does not mark the row failed.                        *)
CancelSilently(c) ==
  /\ consumer[c].pc = "cancel"
  /\ Goto(c, "done")
  /\ UNCHANGED <<row, sender, approver, adding, stored, queue, lastId, met, radio,
                 log, used>>

(* onCanceled of the send jobs marks the row failed; SmsSentJob's is empty.*)
CancelJob(c) ==
  /\ consumer[c].pc = "cancel"
  /\ LET j == consumer[c].job IN
       IF j.kind = "sent"
       THEN /\ UNCHANGED row
            /\ log' = [log EXCEPT !.lost = @ \cup ({row[j.row].m} \ {NoMessage})]
       ELSE Update(j.row, [row[j.row] EXCEPT !.base = "failed"]) /\ UNCHANGED log
  /\ Goto(c, "done")
  /\ UNCHANGED <<sender, approver, adding, stored, queue, lastId, met, radio, used>>

-----------------------------------------------------------------------------
(* The jobs: onRun *)

(* MasterSecretJob, SendJob, PushSendJob and getMessage: without the       *)
(* master secret the run is repeated; an expired build, too many failed    *)
(* signed prekey rotations or a deleted row end the job.                   *)
BeginRun(c) ==
  LET j == consumer[c].job IN
  /\ consumer[c].pc = "run"
  /\ \/ /\ j.iter >= Retries(j)
        /\ Goto(c, "cancel") /\ UNCHANGED queue
     \/ /\ j.iter < Retries(j) /\ "secret" \notin met
        /\ RetryLater(c)
     \/ /\ j.iter < Retries(j) /\ "secret" \in met
        /\ j.kind # "sent"
        /\ Goto(c, "cancel") /\ UNCHANGED queue
     \/ /\ j.iter < Retries(j) /\ "secret" \in met
        /\ ~Present(j.row)
        /\ Goto(c, IF j.kind = "sent" THEN "done" ELSE "cancel") /\ UNCHANGED queue
     \/ /\ j.iter < Retries(j) /\ "secret" \in met
        /\ Present(j.row)
        /\ consumer' = [consumer EXCEPT ![c].pc = "deliver",
                                        ![c].secure = row[j.row].secure,
                                        ![c].m = row[j.row].m]
        /\ UNCHANGED queue
  /\ UNCHANGED <<row, sender, approver, adding, stored, lastId, met, radio, log, used>>

Delivering(c, kind) == consumer[c].pc = "deliver" /\ consumer[c].job.kind = kind

(* PushTextSendJob.deliver: the server takes the message and answers ...   *)
Accepted(c) == [log EXCEPT !.copies[consumer[c].m] = @ + 1,
                           !.last = consumer[c].job.id]

PushDelivered(c) ==
  /\ Delivering(c, "push")
  /\ log' = Accepted(c)
  /\ Goto(c, "marksent")
  /\ UNCHANGED <<row, sender, approver, adding, stored, queue, lastId, met, radio, used>>

(* Mutant: the IOException is logged and the job ends.                     *)
PushIOIgnored(c) ==
  /\ Delivering(c, "push")
  /\ Goto(c, "done")
  /\ UNCHANGED <<row, sender, approver, adding, stored, queue, lastId, met, radio, log, used>>

(* ... or the answer is lost, or nothing gets through (IOException).       *)
PushIOException(c) ==
  /\ Delivering(c, "push")
  /\ \/ UNCHANGED log
     \/ log' = [Accepted(c) EXCEPT !.lostAcks = @ + 1]
  /\ RetryLater(c)
  /\ UNCHANGED <<row, sender, approver, adding, stored, lastId, met, radio, used>>

(* UnregisteredUserException, InvalidNumberException: ask the user.        *)
PushUnregistered(c) ==
  /\ Delivering(c, "push")
  /\ LET i == consumer[c].job.row IN Update(i, [row[i] EXCEPT !.base = "fallback"])
  /\ Goto(c, "done")
  /\ UNCHANGED <<sender, approver, adding, stored, queue, lastId, met, radio, log, used>>

(* UntrustedIdentityException: failed, then marked as push.                *)
PushUntrusted(c) ==
  /\ Delivering(c, "push")
  /\ LET i == consumer[c].job.row IN Update(i, [row[i] EXCEPT !.base = "failed"])
  /\ Goto(c, "markpush")
  /\ UNCHANGED <<sender, approver, adding, stored, queue, lastId, met, radio, log, used>>

MarkAsPush(c) ==
  /\ consumer[c].pc = "markpush"
  /\ LET i == consumer[c].job.row IN Update(i, [row[i] EXCEPT !.push = TRUE])
  /\ Goto(c, "done")
  /\ UNCHANGED <<sender, approver, adding, stored, queue, lastId, met, radio, log, used>>

(* Mutant: the timer of the sent message is not started.                   *)
MarkAsSentOnly(c) ==
  /\ consumer[c].pc = "marksent"
  /\ LET i == consumer[c].job.row IN
       Update(i, [row[i] EXCEPT !.base = "sent", !.push = TRUE, !.secure = TRUE])
  /\ Goto(c, "done")
  /\ UNCHANGED <<sender, approver, adding, stored, queue, lastId, met, radio, log, used>>

(* markAsSent(messageId, true)                                             *)
MarkAsSent(c) ==
  /\ consumer[c].pc = "marksent"
  /\ LET i == consumer[c].job.row IN
       Update(i, [row[i] EXCEPT !.base = "sent", !.push = TRUE, !.secure = TRUE])
  /\ Goto(c, IF consumer[c].m \in Expiring THEN "expire" ELSE "done")
  /\ UNCHANGED <<sender, approver, adding, stored, queue, lastId, met, radio, log, used>>

(* markExpireStarted; the deletion itself is ExpiringMessages' concern.    *)
MarkExpireStarted(c) ==
  /\ consumer[c].pc = "expire"
  /\ LET i == consumer[c].job.row IN Update(i, [row[i] EXCEPT !.started = TRUE])
  /\ Goto(c, "done")
  /\ UNCHANGED <<sender, approver, adding, stored, queue, lastId, met, radio, log, used>>

(* Mutant: SmsSendJob does not look whether the record is secure.          *)
SmsUnchecked(c) ==
  /\ Delivering(c, "sms")
  /\ radio' = [radio EXCEPT ![consumer[c].job.row] = @ + Parts]
  /\ log' = [log EXCEPT !.clear = @ \cup {consumer[c].m}]
  /\ Goto(c, "done")
  /\ UNCHANGED <<row, sender, approver, adding, stored, queue, lastId, met, used>>

(* SmsSendJob.deliver hands every part to the radio, unless the record is  *)
(* secure or the radio refuses (UndeliverableMessageException).            *)
SmsHandedOver(c) ==
  /\ Delivering(c, "sms")
  /\ ~consumer[c].secure
  /\ radio' = [radio EXCEPT ![consumer[c].job.row] = @ + Parts]
  /\ log' = [log EXCEPT !.clear = @ \cup {consumer[c].m}]
  /\ Goto(c, "done")
  /\ UNCHANGED <<row, sender, approver, adding, stored, queue, lastId, met, used>>

SmsUndeliverable(c) ==
  /\ Delivering(c, "sms")
  /\ LET i == consumer[c].job.row IN Update(i, [row[i] EXCEPT !.base = "failed"])
  /\ Goto(c, "done")
  /\ UNCHANGED <<sender, approver, adding, stored, queue, lastId, met, radio, log, used>>

(* SmsSentJob.handleSentResult                                             *)
SentResult(c) ==
  /\ Delivering(c, "sent")
  /\ LET j == consumer[c].job IN
       \/ /\ j.result = "ok"
          /\ Update(j.row, [row[j.row] EXCEPT !.base = "sent"]) /\ UNCHANGED adding
       \/ /\ j.result = "noservice"
          /\ adding' = Append(adding, SmsJob(j.row, "number")) /\ UNCHANGED row
       \/ /\ j.result \notin {"ok", "noservice"}
          /\ Update(j.row, [row[j.row] EXCEPT !.base = "failed"]) /\ UNCHANGED adding
  /\ Goto(c, "done")
  /\ UNCHANGED <<sender, approver, stored, queue, lastId, met, radio, log, used>>

-----------------------------------------------------------------------------
(* Surroundings *)

(* The radio reports one part; SmsDeliveryListener.onReceive adds a job.   *)
RadioReport(i, res) ==
  /\ radio[i] > 0
  /\ res = "noservice" => used.noService < MaxNoService
  /\ radio' = [radio EXCEPT ![i] = @ - 1]
  /\ adding' = Append(adding, SentJob(i, res))
  /\ used' = [used EXCEPT !.noService = IF res = "noservice" THEN @ + 1 ELSE @]
  /\ UNCHANGED <<row, sender, approver, stored, queue, consumer, lastId, met, log>>

LoseRequirement(r) ==
  /\ r \in met \cap Unsteady
  /\ used.outages < MaxOutages
  /\ met' = met \ {r}
  /\ used' = [used EXCEPT !.outages = @ + 1]
  /\ UNCHANGED <<row, sender, approver, adding, stored, queue, consumer, lastId,
                 radio, log>>

RegainRequirement(r) ==
  /\ r \in Unsteady \ met
  /\ met' = met \cup {r}
  /\ UNCHANGED <<row, sender, approver, adding, stored, queue, consumer, lastId,
                 radio, log, used>>

(* The rows a thread is about to queue a job for, or whose job is not yet  *)
(* stored.                                                                 *)
InHand == {adding[k].row : k \in DOMAIN adding}
          \cup (IF sender.pc = "idle" THEN {} ELSE {sender.row})
          \cup (IF approver.pc \in {"forced", "add"} THEN {approver.row} ELSE {})

(* The process dies and is started again: the stored jobs are queued in    *)
(* order of id, their run iteration is not stored.                         *)
Crash ==
  /\ used.crashes < MaxCrashes
  /\ sender' = Idle /\ approver' = Idle
  /\ adding' = <<>>
  /\ queue' = stored
  /\ consumer' = [c \in Consumers |-> Idle]
  /\ log' = [log EXCEPT !.lost = @ \cup ({row[i].m : i \in InHand} \ {NoMessage})]
  /\ used' = [used EXCEPT !.crashes = @ + 1]
  /\ UNCHANGED <<row, stored, lastId, met, radio>>

-----------------------------------------------------------------------------
JobStep(c) ==
  \/ BeginRun(c)
  \/ PushDelivered(c) \/ PushIOException(c) \/ PushUnregistered(c) \/ PushUntrusted(c)
  \/ MarkAsPush(c) \/ MarkAsSent(c) \/ MarkExpireStarted(c)
  \/ SmsHandedOver(c) \/ SmsUndeliverable(c) \/ SentResult(c)
  \/ CancelJob(c) \/ FinishJob(c)

Next ==
  \/ \E m \in Messages, i \in Ids, secure, force \in BOOLEAN :
       Compose(m, i, secure, force)
  \/ \E i \in Ids : Resend(i) \/ DeleteMessage(i) \/ AskApproval(i)
  \/ \E isPush \in BOOLEAN : RouteMessage(isPush)
  \/ Refuse
  \/ Approval
  \/ StoreJob
  \/ \E c \in Consumers : TakeJob(c) \/ JobStep(c)
  \/ \E i \in Ids, res \in Results \ {"none"} : RadioReport(i, res)
  \/ \E r \in Requirements : LoseRequirement(r) \/ RegainRequirement(r)
  \/ Crash

Spec == Init /\ [][Next]_vars

(* Threads run, the radio reports, outages end; the user owes no answer.   *)
Fairness ==
  /\ WF_vars(\E isPush \in BOOLEAN : RouteMessage(isPush))
  /\ WF_vars(approver.pc # "asked" /\ Approval)
  /\ WF_vars(StoreJob)
  /\ \A c \in Consumers : WF_vars(TakeJob(c)) /\ WF_vars(JobStep(c))
  /\ WF_vars(\E i \in Ids, res \in Results \ {"none"} : RadioReport(i, res))
  /\ \A r \in Unsteady : WF_vars(RegainRequirement(r))

FairSpec == Spec /\ Fairness

-----------------------------------------------------------------------------
(* Properties *)

TypeOK ==
  /\ row \in [Ids -> Row \cup {NoRow}]
  /\ sender = Idle \/ sender \in [pc : {"route"}, row : Ids, force : BOOLEAN]
  /\ approver = Idle \/ approver \in [pc : {"asked", "outbox", "forced", "add"},
                                      row : Ids, m : Messages]
  /\ adding \in Seq(Job) /\ stored \in Seq(Job) /\ queue \in Seq(Job)
  /\ \A c \in Consumers :
       /\ consumer[c].pc \in {"idle", "run", "deliver", "marksent", "markpush",
                              "expire", "cancel", "done"}
       /\ consumer[c].pc # "idle" => consumer[c].job \in Job
  /\ lastId \in Nat
  /\ met \subseteq Requirements
  /\ radio \in [Ids -> Nat]
  /\ log \in Log

(* A message goes out unencrypted only when it was composed so, when the   *)
(* user approved it, or when it stands under the id of one the user        *)
(* approved: SmsSendJob checks the record it read, the directory may       *)
(* change its answer between composing, sending and sending again.         *)
ClearOnlyIfChosen == log.clear \cap log.secure \subseteq log.approved \cup log.mistaken

Pending(i) == row[i].base \in {"sending", "outbox"}

(* Someone will still settle the row.                                      *)
InCharge(i) ==
  \/ i \in InHand
  \/ \E k \in DOMAIN stored : stored[k].row = i
  \/ radio[i] > 0

(* A message that shows as being sent is in someone's charge, unless a     *)
(* crash fell between its row and its job, or the job that was to note the *)
(* radio's result ran out of retries: nobody marks the row failed then.    *)
NoOrphan == \A i \in Ids : Pending(i) /\ row[i].m \notin log.lost => InCharge(i)

(* A message with a timer that was sent over push has its timer running,   *)
(* or its job is still stored and will run again: markAsSent and           *)
(* markExpireStarted are two updates.  Excepted are messages under an id   *)
(* that was still named: what an older message's thread or SMS result does *)
(* to the row, it does to theirs.                                          *)
SentTimerRuns ==
  \A i \in Ids :
    /\ row[i].m \in Expiring \ (log.clear \cup log.heirs)
    /\ row[i].base = "sent"
    => row[i].started \/ \E k \in DOMAIN stored : stored[k].row = i

(* A message of a conversation with a timer that shows as sent has its     *)
(* timer running, however it was sent, or a job will still start it.  The  *)
(* string expiration_dialog promises it for the conversation.              *)
SentTimerStarted ==
  \A i \in Ids : row[i].m \in Expiring /\ row[i].base = "sent" =>
    row[i].started \/ \E k \in DOMAIN stored : stored[k].row = i

(* Every repeated push delivery of a message has a cause: a lost answer, a *)
(* crash, the user's resend, or a deleted message whose id it was given    *)
(* while a job still named it: that job then sends this one too.           *)
RepeatsExplained ==
  \A m \in Messages :
    log.copies[m] <= 1 + log.lostAcks + used.crashes + used.resends
                       + (IF m \in log.heirs THEN used.deletes ELSE 0)

(* Push jobs of a conversation reach the server in the order they were     *)
(* added, across retries, deferrals and restarts.                          *)
PushInOrder == [][log'.last >= log.last]_vars

(* Every message in sending is settled one day, or lost to a crash.        *)
Unsettled(m) == \E i \in Ids : row[i].m = m /\ Pending(i)
Settles == \A m \in Messages : Unsettled(m) ~> (~Unsettled(m) \/ m \in log.lost)

(* The jobs are those of a job queue: stored until they are finished, one  *)
(* of a group at a time and the oldest of its kind first, whatever is put  *)
(* back, given up or restored after a crash.                               *)
Ticket(j) == [id |-> j.id, kind |-> j.kind, group |-> j.group]
Queue == INSTANCE JobQueue WITH
           jobs    <- {Ticket(j) : j \in ToSet(stored)},
           running <- {Ticket(j) : j \in Running}
ImplementsJobQueue == Queue!Spec
=============================================================================
