--------------------------- MODULE MessageSendProofs ---------------------------
(* Proofs about MessageSend.  A row is called w, by its id; a message m.   *)
EXTENDS MessageSend, FiniteSetTheorems, SequenceTheorems, TLAPS

(* Some message is composed under the id w.                                *)
ComposeAt(w) ==
  \E m \in Messages, secure, force \in BOOLEAN : Compose(m, w, secure, force)

(* Types.  The consumers and the two threads of the user have the fields   *)
(* their places ask for; a consumer past the reading of its row holds the  *)
(* message it read.                                                        *)
Seeing == {"deliver", "marksent", "markpush", "expire"}
Blind  == {"run", "cancel", "done"}
Places == Seeing \cup Blind
Thread == {Idle} \cup [pc : Seeing, job : Job, secure : BOOLEAN, m : Messages]
          \cup [pc : Blind, job : Job, secure : BOOLEAN, m : Messages \cup {NoMessage}]

Thinking == [pc : {"asked", "outbox", "forced", "add"}, row : Ids, m : Messages]

Usage == [outages : Nat, crashes : Nat, resends : Nat, noService : Nat, deletes : Nat]

Typed ==
  /\ row \in [Ids -> Row \cup {NoRow}]
  /\ sender \in {Idle} \cup [pc : {"route"}, row : Ids, force : BOOLEAN]
  /\ approver \in {Idle} \cup Thinking
  /\ adding \in Seq(Job) /\ stored \in Seq(Job) /\ queue \in Seq(Job)
  /\ consumer \in [Consumers -> Thread]
  /\ lastId \in Nat
  /\ met \subseteq Requirements
  /\ radio \in [Ids -> Nat]
  /\ log \in Log
  /\ used \in Usage

-----------------------------------------------------------------------------
(* The jobs.  The queue and the consumers hold what is stored, each job    *)
(* once, but for the number of its run.                                    *)

Busy(c)       == consumer[c].pc # "idle"
SameJob(j, k) == j.id = k.id /\ j.kind = k.kind /\ j.row = k.row /\ j.group = k.group
IsPush(j)     == j.kind = "push"

(* Push jobs share a group.                                                *)
Formed(j) == IsPush(j) => j.group = "number"

JobsFormed ==
  /\ \A i \in DOMAIN adding : Formed(adding[i])
  /\ \A i \in DOMAIN stored : Formed(stored[i])

(* Ids are given once and in order.                                        *)
Numbered ==
  /\ \A i \in DOMAIN stored : stored[i].id \in 1..lastId
  /\ \A i, k \in DOMAIN stored : i < k => stored[i].id < stored[k].id

JobsStored ==
  /\ \A q \in DOMAIN queue : \E i \in DOMAIN stored : SameJob(queue[q], stored[i])
  /\ \A c \in Consumers : Busy(c) =>
       \E i \in DOMAIN stored : SameJob(consumer[c].job, stored[i])

JobsApart ==
  /\ \A q, r \in DOMAIN queue : q # r => queue[q].id # queue[r].id
  /\ \A c \in Consumers : Busy(c) =>
       \A q \in DOMAIN queue : consumer[c].job.id # queue[q].id
  /\ \A c, d \in Consumers : Busy(c) /\ Busy(d) /\ c # d =>
       consumer[c].job.id # consumer[d].job.id

(* A stored job is queued or runs.                                         *)
JobsKept ==
  \A i \in DOMAIN stored :
    \/ \E q \in DOMAIN queue : queue[q].id = stored[i].id
    \/ \E c \in Consumers : Busy(c) /\ consumer[c].job.id = stored[i].id

(* Of the jobs with one group id one runs at a time.  Those of one kind    *)
(* form a line, in the order of their ids: the one that runs has the       *)
(* least, and one that is put back goes to the front.                      *)
SameGroup(j, k) == j.group # "none" /\ j.group = k.group
InLine(j, k)    == SameGroup(j, k) /\ j.kind = k.kind

LinesInTurn ==
  /\ \A q, r \in DOMAIN queue :
       InLine(queue[q], queue[r]) /\ q < r => queue[q].id < queue[r].id
  /\ \A c \in Consumers : Busy(c) =>
       \A q \in DOMAIN queue : InLine(consumer[c].job, queue[q]) =>
         consumer[c].job.id < queue[q].id
  /\ \A c, d \in Consumers :
       Busy(c) /\ Busy(d) /\ SameGroup(consumer[c].job, consumer[d].job) => c = d

Jobs == JobsFormed /\ Numbered /\ JobsStored /\ JobsApart /\ JobsKept /\ LinesInTurn

(* No push job that is still to run is older than the last delivery.       *)
LastBehind ==
  /\ log.last <= lastId
  /\ \A i \in DOMAIN stored : IsPush(stored[i]) => log.last <= stored[i].id

-----------------------------------------------------------------------------
(* Who is in charge.  A job whose thread has made its last update counts   *)
(* no more.                                                                *)
IdsAt(pcs) == {consumer[c].job.id : c \in {d \in Consumers : consumer[d].pc \in pcs}}

Settling(w, pcs) ==
  \E i \in DOMAIN stored : stored[i].row = w /\ stored[i].id \notin IdsAt(pcs)

Charged == \A w \in Ids : Pending(w) /\ row[w].m \notin log.lost =>
  w \in InHand \/ radio[w] > 0 \/ Settling(w, {"markpush", "expire", "done"})

TimerCharged ==
  \A w \in Ids :
    /\ row[w].m \in Expiring \ (log.clear \cup log.heirs)
    /\ row[w].base = "sent"
    => row[w].started \/ Settling(w, {"markpush", "done"})

-----------------------------------------------------------------------------
(* The deliveries still to come under an id: each push job of it that is  *)
(* stored and has not been answered, the jobs about to be stored, by the   *)
(* ids they will get, and the sender (0).                                  *)
StoredIds(w) ==
  {stored[i].id : i \in {k \in DOMAIN stored : IsPush(stored[k]) /\ stored[k].row = w}}
AddingIds(w) ==
  {lastId + i : i \in {k \in DOMAIN adding : IsPush(adding[k]) /\ adding[k].row = w}}
SenderId(w) == IF sender.pc = "route" /\ sender.row = w THEN {0} ELSE {}
Tokens(w)   == StoredIds(w) \cup AddingIds(w) \cup SenderId(w)

Answered == {"marksent", "markpush", "expire", "cancel", "done"}
Due(w)   == Tokens(w) \ IdsAt(Answered)

(* Taking out the i-th element of a sequence.                              *)
LEMMA RemoveAtFacts ==
  ASSUME NEW S, NEW s \in Seq(S), NEW i \in DOMAIN s
  PROVE  /\ RemoveAt(s, i) \in Seq(S)
         /\ DOMAIN RemoveAt(s, i) = 1..(Len(s) - 1)
         /\ \A k \in DOMAIN RemoveAt(s, i) :
              /\ k < i => RemoveAt(s, i)[k] = s[k]
              /\ k >= i => RemoveAt(s, i)[k] = s[k + 1]
<1>1. i \in 1..Len(s) /\ Len(s) \in Nat
  OBVIOUS
<1> DEFINE a == SubSeq(s, 1, i - 1)
           b == SubSeq(s, i + 1, Len(s))
<1>2. a \in Seq(S) /\ Len(a) = i - 1 /\ \A k \in 1..(i - 1) : a[k] = s[k]
  BY <1>1
<1>3. b \in Seq(S) /\ Len(b) = Len(s) - i /\ \A k \in 1..(Len(s) - i) : b[k] = s[k + i]
  BY <1>1
<1>4. RemoveAt(s, i) = a \o b
  BY DEF RemoveAt
<1> HIDE DEF a, b
<1>5. a \o b \in Seq(S) /\ Len(a \o b) = Len(s) - 1
  <2>1. a \o b \in Seq(S) /\ Len(a \o b) = Len(a) + Len(b)
    BY <1>2, <1>3, ConcatProperties
  <2> QED
    BY <1>1, <1>2, <1>3, <2>1
<1>6. ASSUME NEW k \in 1..(Len(s) - 1)
      PROVE  (k < i => (a \o b)[k] = s[k]) /\ (k >= i => (a \o b)[k] = s[k + 1])
  <2>1. k \in 1..(Len(a) + Len(b)) /\ k \in Int
    BY <1>1, <1>2, <1>3
  <2>2. (a \o b)[k] = IF k <= Len(a) THEN a[k] ELSE b[k - Len(a)]
    BY <1>2, <1>3, <2>1, ConcatProperties
  <2>3. k < i => (a \o b)[k] = s[k]
    BY <1>1, <1>2, <2>1, <2>2
  <2>4. ASSUME k >= i PROVE (a \o b)[k] = s[k + 1]
    <3>1. k - Len(a) \in 1..(Len(s) - i) /\ k - Len(a) + i = k + 1 /\ ~ (k <= Len(a))
      BY <1>1, <1>2, <2>1, <2>4
    <3> QED
      BY <1>3, <2>2, <3>1
  <2> QED
    BY <2>3, <2>4
<1> QED
  BY <1>1, <1>4, <1>5, <1>6

LEMMA BusyThread ==
  ASSUME Typed, NEW c \in Consumers, Busy(c)
  PROVE  /\ DOMAIN consumer[c] = {"pc", "job", "secure", "m"}
         /\ consumer[c].pc \in Places /\ consumer[c].secure \in BOOLEAN
         /\ consumer[c].m \in Messages \cup {NoMessage}
         /\ consumer[c].pc \in Seeing => consumer[c].m \in Messages
         /\ consumer[c].job \in Job /\ consumer[c].job.row \in Ids
<1>1. consumer[c] \in Thread /\ consumer[c] # Idle
  BY DEF Typed, Busy, Idle
<1>2. consumer[c].job \in Job
  BY <1>1 DEF Thread
<1> QED BY <1>1, <1>2 DEF Thread, Places, Seeing, Blind, Job

(* A thread that has read its message may go anywhere, one that has not    *)
(* only where none is needed.                                              *)
LEMMA TypedGoto ==
  ASSUME Typed, NEW c \in Consumers, Busy(c), NEW pc \in Places, Goto(c, pc),
         consumer[c].pc \in Seeing \/ pc \in Blind
  PROVE  consumer' \in [Consumers -> Thread]
<1> DEFINE t == [consumer[c] EXCEPT !.pc = pc]
<1>1. consumer[c] \in Thread /\ consumer[c] # Idle
  BY DEF Typed, Busy, Idle
<1>2. CASE consumer[c].pc \in Seeing
  <2>1. consumer[c] \in [pc : Seeing, job : Job, secure : BOOLEAN, m : Messages]
    BY <1>1, <1>2 DEF Thread, Seeing, Blind
  <2>2. CASE pc \in Seeing
    <3>1. t \in [pc : Seeing, job : Job, secure : BOOLEAN, m : Messages]
      BY <2>1, <2>2
    <3> QED BY <3>1 DEF Goto, Typed, Thread
  <2>3. CASE pc \in Blind
    <3>1. t \in [pc : Blind, job : Job, secure : BOOLEAN, m : Messages \cup {NoMessage}]
      BY <2>1, <2>3
    <3> QED BY <3>1 DEF Goto, Typed, Thread
  <2> QED BY <2>2, <2>3 DEF Places
<1>3. CASE pc \in Blind
  <2>1. t \in [pc : Blind, job : Job, secure : BOOLEAN, m : Messages \cup {NoMessage}]
    BY <1>1, <1>3 DEF Thread
  <2> QED BY <2>1 DEF Goto, Typed, Thread
<1> QED BY <1>2, <1>3

LEMMA TypedRetry ==
  ASSUME Typed, NEW c \in Consumers, Busy(c), RetryLater(c)
  PROVE  consumer' \in [Consumers -> Thread] /\ queue' \in Seq(Job)
<1> DEFINE j == [consumer[c].job EXCEPT !.iter = @ + 1]
           pc == IF j.iter < Retries(j) THEN "run" ELSE "cancel"
           t == [[consumer[c] EXCEPT !.job = j] EXCEPT !.pc = pc]
<1>1. j \in Job
  BY BusyThread DEF Job
<1>2. pc \in Blind /\ Idle \in Thread
  BY DEF Blind, Thread
<1>3. \/ queue' = <<j>> \o queue /\ consumer' = [consumer EXCEPT ![c] = Idle]
      \/ UNCHANGED queue /\ consumer' = [consumer EXCEPT ![c] = t]
  BY DEF RetryLater, Typed
<1>4. consumer[c] \in Thread /\ consumer[c] # Idle
  BY DEF Typed, Busy, Idle
<1> HIDE DEF j, pc
<1>5. t \in [pc : Blind, job : Job, secure : BOOLEAN, m : Messages \cup {NoMessage}]
  BY <1>1, <1>2, <1>4 DEF Thread
<1>6. t \in Thread
  BY <1>5 DEF Thread
<1> HIDE DEF t
<1>7. <<j>> \o queue \in Seq(Job)
  <2>1. <<j>> \in Seq(Job)
    BY <1>1
  <2> QED BY <2>1, ConcatProperties DEF Typed
<1>8. [consumer EXCEPT ![c] = Idle] \in [Consumers -> Thread]
  BY <1>2 DEF Typed
<1>9. [consumer EXCEPT ![c] = t] \in [Consumers -> Thread]
  BY <1>6 DEF Typed
<1>10. queue \in Seq(Job)
  BY DEF Typed
<1> QED BY <1>3, <1>7, <1>8, <1>9, <1>10

(* A row is there and whole, or is not there.                              *)
LEMMA WholeRow ==
  ASSUME Typed, NEW w \in Ids
  PROVE  /\ Present(w) <=> row[w] \in Row
         /\ Present(w) <=> row[w].m \in Messages
         /\ ~Present(w) <=> row[w] = NoRow
         /\ ~Present(w) <=> row[w].m = NoMessage
BY NoMessageAssumption DEF Typed, Present, NoRow, Row, BaseTypes

LEMMA TypedUpdate ==
  ASSUME Typed, NEW w \in Ids, NEW r, Present(w) => r \in Row, Update(w, r)
  PROVE  row' \in [Ids -> Row \cup {NoRow}]
BY DEF Typed, Update

LEMMA TypedAdd ==
  ASSUME Typed, NEW j \in Job, adding' = Append(adding, j)
  PROVE  adding' \in Seq(Job)
BY DEF Typed

LEMMA JobTypes ==
  ASSUME NEW w \in Ids
  PROVE  /\ PushJob(w) \in Job
         /\ \A group \in {"none", "name", "number"} : SmsJob(w, group) \in Job
         /\ \A res \in Results : SentJob(w, res) \in Job
BY DEF PushJob, SmsJob, SentJob, Job, Results

LEMMA AcceptedLog ==
  ASSUME Typed, NEW c \in Consumers, consumer[c].pc = "deliver"
  PROVE  /\ Accepted(c) \in Log
         /\ [Accepted(c) EXCEPT !.lostAcks = @ + 1] \in Log
<1>1. log \in Log /\ consumer[c].m \in Messages /\ consumer[c].job.id \in Nat
  BY BusyThread DEF Typed, Job, Busy, Seeing
<1> DEFINE copies == [log.copies EXCEPT ![consumer[c].m] = @ + 1]
<1>2. copies \in [Messages -> Nat]
  BY <1>1 DEF Log
<1>3. Accepted(c) = [[log EXCEPT !.copies = copies] EXCEPT !.last = consumer[c].job.id]
  BY <1>1 DEF Accepted, Log
<1> HIDE DEF copies
<1>4. Accepted(c) \in Log
  BY <1>1, <1>2, <1>3 DEF Log
<1> QED BY <1>4 DEF Log

LEMMA UsageGrows ==
  ASSUME NEW u \in Usage
  PROVE  /\ [u EXCEPT !.outages = @ + 1] \in Usage
         /\ [u EXCEPT !.crashes = @ + 1] \in Usage
         /\ [u EXCEPT !.resends = @ + 1] \in Usage
         /\ [u EXCEPT !.noService = @ + 1] \in Usage
         /\ [u EXCEPT !.noService = @] \in Usage
         /\ [u EXCEPT !.deletes = @ + 1] \in Usage
BY DEF Usage

LEMMA TypedInit == Init => Typed
<1> SUFFICES ASSUME Init PROVE Typed
  OBVIOUS
<1>1. row \in [Ids -> Row \cup {NoRow}]
  BY DEF Init
<1>2. log \in Log
  BY DEF Init, Log
<1>3. consumer \in [Consumers -> Thread] /\ radio \in [Ids -> Nat]
  BY DEF Init, Thread
<1>4. used \in Usage
  BY DEF Init, Usage
<1> QED BY <1>1, <1>2, <1>3, <1>4 DEF Init, Typed

(* The steps of the user, the dialog and the surroundings.                 *)
LEMMA TypedUser ==
  ASSUME Typed,
         \/ \E w \in Ids : ComposeAt(w)
         \/ \E w \in Ids : Resend(w) \/ DeleteMessage(w) \/ AskApproval(w)
         \/ \E isPush \in BOOLEAN : RouteMessage(isPush)
         \/ Refuse
         \/ Approval
  PROVE  Typed'
<1>0. log \in Log /\ row \in [Ids -> Row \cup {NoRow}]
  BY DEF Typed
<1>1. ASSUME NEW w \in Ids, NEW m \in Messages, NEW secure \in BOOLEAN,
             NEW force \in BOOLEAN, Compose(m, w, secure, force)
      PROVE  Typed'
  <2> DEFINE r == [m |-> m, base |-> "sending", secure |-> secure, push |-> secure,
                   forced |-> force, started |-> FALSE]
  <2>1. row' = [row EXCEPT ![w] = r] /\ r \in Row
    BY <1>1 DEF Compose, Row, BaseTypes
  <2>2. row' \in [Ids -> Row \cup {NoRow}]
    <3> HIDE DEF r
    <3> QED BY <1>0, <2>1
  <2>3. log' \in Log
    <3> HIDE DEF Named
    <3>1. log' = [log EXCEPT !.composed = @ \cup {m},
                             !.secure = IF secure THEN @ \cup {m} ELSE @,
                             !.heirs = IF Named(w) THEN @ \cup {m} ELSE @]
      BY <1>1 DEF Compose
    <3> QED BY <1>0, <3>1 DEF Log
  <2>4. sender' \in [pc : {"route"}, row : Ids, force : BOOLEAN]
    BY <1>1 DEF Compose
  <2> QED BY <1>1, <2>2, <2>3, <2>4 DEF Compose, Typed
<1>2. ASSUME NEW w \in Ids, Resend(w) PROVE Typed'
  <2>1. used' \in Usage
    BY <1>2, UsageGrows DEF Resend, Typed
  <2>2. row[w].forced \in BOOLEAN
    BY <1>2, WholeRow DEF Resend, Present, Row
  <2>3. sender' \in [pc : {"route"}, row : Ids, force : BOOLEAN]
    BY <1>2, <2>2 DEF Resend
  <2> QED BY <1>2, <2>1, <2>3 DEF Resend, Typed
<1>3. ASSUME NEW w \in Ids, DeleteMessage(w) PROVE Typed'
  <2>1. used' \in Usage
    BY <1>3, UsageGrows DEF DeleteMessage, Typed
  <2>2. row' \in [Ids -> Row \cup {NoRow}]
    BY <1>0, <1>3 DEF DeleteMessage
  <2> QED BY <1>3, <2>1, <2>2 DEF DeleteMessage, Typed
<1>4. ASSUME NEW w \in Ids, AskApproval(w) PROVE Typed'
  <2>1. row[w].m \in Messages
    BY <1>4, WholeRow DEF AskApproval, Present
  <2>2. approver' \in Thinking
    BY <1>4, <2>1 DEF AskApproval, Thinking
  <2> QED BY <1>4, <2>2 DEF AskApproval, Typed
<1>5. ASSUME NEW isPush \in BOOLEAN, RouteMessage(isPush) PROVE Typed'
  <2>1. sender.row \in Ids
    BY <1>5 DEF RouteMessage, Typed, Idle
  <2>2. adding' \in Seq(Job)
    BY <1>5, <2>1, JobTypes, TypedAdd DEF RouteMessage
  <2> QED BY <1>5, <2>2 DEF RouteMessage, Typed
<1>6. ASSUME approver.pc # "idle" PROVE approver \in Thinking /\ approver.row \in Ids
  BY <1>6 DEF Typed, Idle, Thinking
<1>u. ASSUME NEW r, approver.pc # "idle", Update(approver.row, r),
             Present(approver.row) /\ row[approver.row] \in Row => r \in Row
      PROVE  row' \in [Ids -> Row \cup {NoRow}]
  BY <1>6, <1>u, WholeRow, TypedUpdate
<1>w. ASSUME NEW w \in Ids, ComposeAt(w) PROVE Typed'
  BY <1>1, <1>w DEF ComposeAt
<1>7. CASE Refuse
  <2>1. row' \in [Ids -> Row \cup {NoRow}]
    BY <1>7, <1>u DEF Refuse, Row, BaseTypes
  <2> QED BY <1>7, <2>1 DEF Refuse, Typed
<1>8. CASE MarkAsInsecure
  <2>1. row' \in [Ids -> Row \cup {NoRow}]
    BY <1>8, <1>u DEF MarkAsInsecure, Row
  <2>2. approver.m \in Messages
    BY <1>6, <1>8 DEF MarkAsInsecure, Thinking
  <2>3. {row[approver.row].m} \ {approver.m, NoMessage} \subseteq Messages
    BY <1>6, <1>8, WholeRow DEF MarkAsInsecure
  <2>4. log' \in Log
    BY <1>0, <1>8, <2>2, <2>3 DEF MarkAsInsecure, Log
  <2>5. approver' \in Thinking
    BY <1>6, <1>8 DEF MarkAsInsecure, Thinking
  <2> QED BY <1>8, <2>1, <2>4, <2>5 DEF MarkAsInsecure, Typed
<1>9. CASE MarkAsOutbox
  <2>1. row' \in [Ids -> Row \cup {NoRow}]
    BY <1>9, <1>u DEF MarkAsOutbox, Row, BaseTypes
  <2>2. approver' \in Thinking
    BY <1>6, <1>9 DEF MarkAsOutbox, Thinking
  <2> QED BY <1>9, <2>1, <2>2 DEF MarkAsOutbox, Typed
<1>10. CASE MarkAsForcedSms
  <2>1. row' \in [Ids -> Row \cup {NoRow}]
    BY <1>10, <1>u DEF MarkAsForcedSms, Row
  <2>2. approver' \in Thinking
    BY <1>6, <1>10 DEF MarkAsForcedSms, Thinking
  <2> QED BY <1>10, <2>1, <2>2 DEF MarkAsForcedSms, Typed
<1>11. CASE AddApprovedJob
  <2>1. adding' \in Seq(Job)
    BY <1>6, <1>11, JobTypes, TypedAdd DEF AddApprovedJob
  <2> QED BY <1>11, <2>1 DEF AddApprovedJob, Typed
<1> QED BY <1>w, <1>2, <1>3, <1>4, <1>5, <1>7, <1>8, <1>9, <1>10, <1>11 DEF Approval

LEMMA TypedSurroundings ==
  ASSUME Typed,
         \/ \E w \in Ids, res \in Results \ {"none"} : RadioReport(w, res)
         \/ \E r \in Requirements : LoseRequirement(r) \/ RegainRequirement(r)
         \/ Crash
  PROVE  Typed'
<1>1. ASSUME NEW w \in Ids, NEW res \in Results \ {"none"}, RadioReport(w, res)
      PROVE  Typed'
  <2>1. adding' \in Seq(Job)
    BY <1>1, JobTypes, TypedAdd DEF RadioReport
  <2>2. used' \in Usage
    <3>1. \/ used' = [used EXCEPT !.noService = @ + 1]
          \/ used' = [used EXCEPT !.noService = @]
      BY <1>1 DEF RadioReport
    <3> QED BY <3>1, UsageGrows DEF Typed
  <2>3. radio' \in [Ids -> Nat]
    BY <1>1 DEF RadioReport, Typed
  <2> QED BY <1>1, <2>1, <2>2, <2>3 DEF RadioReport, Typed
<1>2. ASSUME NEW r \in Requirements, LoseRequirement(r) PROVE Typed'
  <2>1. used' \in Usage
    BY <1>2, UsageGrows DEF LoseRequirement, Typed
  <2> QED BY <1>2, <2>1 DEF LoseRequirement, Typed
<1>3. ASSUME NEW r \in Requirements, RegainRequirement(r) PROVE Typed'
  BY <1>3 DEF RegainRequirement, Typed
<1>4. CASE Crash
  <2>1. used' \in Usage
    BY <1>4, UsageGrows DEF Crash, Typed
  <2>2. InHand \subseteq Ids
    <3>1. \A i \in DOMAIN adding : adding[i].row \in Ids
      <4>1. \A i \in DOMAIN adding : adding[i] \in Job
        BY DEF Typed
      <4> QED BY <4>1 DEF Job
    <3>2. sender.pc # "idle" => sender.row \in Ids
      BY DEF Typed, Idle
    <3>3. approver.pc \in {"forced", "add"} => approver.row \in Ids
      BY DEF Typed, Idle, Thinking
    <3> QED BY <3>1, <3>2, <3>3 DEF InHand
  <2>3. log' \in Log
    <3> DEFINE M == {row[i].m : i \in InHand} \ {NoMessage}
    <3>1. M \subseteq Messages
      <4>1. \A i \in Ids : row[i].m \in Messages \cup {NoMessage}
        BY WholeRow
      <4> QED BY <2>2, <4>1
    <3>2. log' = [log EXCEPT !.lost = @ \cup M]
      BY <1>4 DEF Crash
    <3> HIDE DEF M
    <3> QED BY <3>1, <3>2 DEF Typed, Log
  <2>4. consumer' \in [Consumers -> Thread]
    BY <1>4 DEF Crash, Thread
  <2> QED BY <1>4, <2>1, <2>3, <2>4 DEF Crash, Typed
<1> QED BY <1>1, <1>2, <1>3, <1>4

(* The JobManager and the jobs.                                            *)
LEMMA TypedJobs ==
  ASSUME Typed, StoreJob \/ \E c \in Consumers : TakeJob(c) \/ JobStep(c)
  PROVE  Typed'
<1>0. log \in Log /\ row \in [Ids -> Row \cup {NoRow}]
  BY DEF Typed
<1>1. CASE StoreJob
  <2> DEFINE j == [Head(adding) EXCEPT !.id = lastId + 1]
  <2>1. Head(adding) \in Job /\ Tail(adding) \in Seq(Job)
    BY <1>1 DEF StoreJob, Typed
  <2>2. j \in Job
    <3>1. lastId + 1 \in Nat
      BY DEF Typed
    <3> QED BY <2>1, <3>1 DEF Job
  <2>3. stored' = Append(stored, j) /\ queue' = Append(queue, j)
    BY <1>1 DEF StoreJob
  <2> HIDE DEF j
  <2>4. stored' \in Seq(Job) /\ queue' \in Seq(Job)
    BY <2>2, <2>3 DEF Typed
  <2> QED BY <1>1, <2>1, <2>4 DEF StoreJob, Typed
<1>2. ASSUME NEW c \in Consumers, TakeJob(c) PROVE Typed'
  <2>1. PICK i \in DOMAIN queue :
          /\ consumer' = [consumer EXCEPT ![c] = [pc |-> "run", job |-> queue[i],
                                                  secure |-> FALSE, m |-> NoMessage]]
          /\ queue' = RemoveAt(queue, i)
    BY <1>2 DEF TakeJob
  <2>2. queue[i] \in Job /\ queue' \in Seq(Job)
    BY <2>1, RemoveAtFacts DEF Typed
  <2>3. [pc |-> "run", job |-> queue[i], secure |-> FALSE, m |-> NoMessage] \in Thread
    BY <2>2 DEF Thread, Blind
  <2>4. consumer' \in [Consumers -> Thread]
    BY <2>1, <2>3 DEF Typed
  <2> QED BY <1>2, <2>2, <2>4 DEF TakeJob, Typed
<1>3. ASSUME NEW c \in Consumers, BeginRun(c) PROVE Typed'
  <2> DEFINE w == consumer[c].job.row
  <2>1. Busy(c) /\ w \in Ids
    BY <1>3, BusyThread DEF BeginRun, Busy
  <2>2. CASE RetryLater(c)
    BY <1>3, <2>1, <2>2, TypedRetry DEF BeginRun, Typed
  <2>3. ASSUME NEW pc \in {"cancel", "done"}, Goto(c, pc), UNCHANGED queue
        PROVE  Typed'
    BY <1>3, <2>1, <2>3, TypedGoto DEF BeginRun, Typed, Places, Blind
  <2>4. CASE /\ Present(w)
             /\ consumer' = [consumer EXCEPT ![c].pc = "deliver",
                                             ![c].secure = row[w].secure,
                                             ![c].m = row[w].m]
             /\ UNCHANGED queue
    <3> DEFINE t == [[[consumer[c] EXCEPT !.pc = "deliver"] EXCEPT !.secure = row[w].secure]
                       EXCEPT !.m = row[w].m]
    <3>1. row[w].secure \in BOOLEAN /\ row[w].m \in Messages
      BY <2>1, <2>4, WholeRow DEF Row
    <3>2. consumer[c] \in Thread /\ consumer[c] # Idle
      BY <2>1 DEF Typed, Busy, Idle
    <3>3. consumer' = [consumer EXCEPT ![c] = t]
      BY <2>4 DEF Typed
    <3> HIDE DEF w
    <3>4. t \in [pc : Seeing, job : Job, secure : BOOLEAN, m : Messages]
      BY <3>1, <3>2 DEF Thread, Seeing
    <3> HIDE DEF t
    <3>5. consumer' \in [Consumers -> Thread]
      BY <3>3, <3>4 DEF Typed, Thread
    <3> QED BY <1>3, <2>4, <3>5 DEF BeginRun, Typed
  <2> QED BY <1>3, <2>2, <2>3, <2>4 DEF BeginRun
<1>4. ASSUME NEW c \in Consumers, PushDelivered(c) \/ PushIOException(c) PROVE Typed'
  <2>1. Busy(c) /\ consumer[c].pc = "deliver"
    BY <1>4 DEF PushDelivered, PushIOException, Delivering, Busy
  <2>2. log' \in Log
    BY <1>0, <1>4, <2>1, AcceptedLog DEF PushDelivered, PushIOException
  <2>3. consumer' \in [Consumers -> Thread] /\ queue' \in Seq(Job)
    BY <1>4, <2>1, TypedGoto, TypedRetry
       DEF PushDelivered, PushIOException, Typed, Places, Seeing
  <2> QED BY <1>4, <2>2, <2>3 DEF PushDelivered, PushIOException, Typed
<1>5. ASSUME NEW c \in Consumers,
             \/ PushUnregistered(c) \/ PushUntrusted(c) \/ MarkAsPush(c)
             \/ MarkAsSent(c) \/ MarkExpireStarted(c) \/ SmsUndeliverable(c)
      PROVE  Typed'
  <2> DEFINE w == consumer[c].job.row
  <2>1. consumer[c].pc \in Seeing /\ Busy(c)
    BY <1>5
       DEF PushUnregistered, PushUntrusted, MarkAsPush, MarkAsSent,
           MarkExpireStarted, SmsUndeliverable, Delivering, Busy, Seeing
  <2>2. \E pc \in {"done", "markpush", "expire"} : Goto(c, pc)
    BY <1>5 DEF PushUnregistered, PushUntrusted, MarkAsPush, MarkAsSent,
                MarkExpireStarted, SmsUndeliverable
  <2>3. consumer' \in [Consumers -> Thread]
    BY <2>1, <2>2, TypedGoto DEF Places, Seeing, Blind
  <2>4. w \in Ids
    BY <2>1, BusyThread
  <2>5. row[w] \in Row =>
        /\ [row[w] EXCEPT !.base = "fallback"] \in Row
        /\ [row[w] EXCEPT !.base = "failed"] \in Row
        /\ [row[w] EXCEPT !.push = TRUE] \in Row
        /\ [row[w] EXCEPT !.base = "sent", !.push = TRUE, !.secure = TRUE] \in Row
        /\ [row[w] EXCEPT !.started = TRUE] \in Row
    BY DEF Row, BaseTypes
  <2>6. \E r : Update(w, r) /\ (row[w] \in Row => r \in Row)
    BY <1>5, <2>5
       DEF PushUnregistered, PushUntrusted, MarkAsPush, MarkAsSent,
           MarkExpireStarted, SmsUndeliverable
  <2>7. row' \in [Ids -> Row \cup {NoRow}]
    BY <2>4, <2>6, WholeRow, TypedUpdate
  <2> QED BY <1>5, <2>3, <2>7
          DEF PushUnregistered, PushUntrusted, MarkAsPush, MarkAsSent,
              MarkExpireStarted, SmsUndeliverable, Typed
<1>6. ASSUME NEW c \in Consumers, SmsHandedOver(c) PROVE Typed'
  <2>1. Busy(c) /\ consumer[c].job.row \in Ids /\ consumer[c].m \in Messages
    BY <1>6, BusyThread DEF SmsHandedOver, Delivering, Busy, Seeing
  <2>2. radio' \in [Ids -> Nat]
    BY <1>6, <2>1, PartsAssumption DEF SmsHandedOver, Typed
  <2>3. log' \in Log
    BY <1>0, <1>6, <2>1 DEF SmsHandedOver, Log
  <2>4. consumer' \in [Consumers -> Thread]
    BY <1>6, <2>1, TypedGoto DEF SmsHandedOver, Places, Blind
  <2> QED BY <1>6, <2>2, <2>3, <2>4 DEF SmsHandedOver, Typed
<1>7. ASSUME NEW c \in Consumers, SentResult(c) \/ CancelJob(c) PROVE Typed'
  <2> DEFINE w == consumer[c].job.row
  <2>1. Busy(c) /\ w \in Ids
    BY <1>7, BusyThread DEF SentResult, CancelJob, Delivering, Busy
  <2>2. consumer' \in [Consumers -> Thread]
    BY <1>7, <2>1, TypedGoto DEF SentResult, CancelJob, Places, Blind
  <2>3. row[w] \in Row => /\ [row[w] EXCEPT !.base = "sent"] \in Row
                          /\ [row[w] EXCEPT !.base = "failed"] \in Row
    BY DEF Row, BaseTypes
  <2>4. row' = row \/ \E r : Update(w, r) /\ (row[w] \in Row => r \in Row)
    BY <1>7, <2>3 DEF SentResult, CancelJob
  <2>5. row' \in [Ids -> Row \cup {NoRow}]
    BY <1>0, <2>1, <2>4, WholeRow, TypedUpdate
  <2>6. adding' \in Seq(Job)
    BY <1>7, <2>1, JobTypes, TypedAdd DEF SentResult, CancelJob, Typed
  <2>7. log' = log \/ log' = [log EXCEPT !.lost = @ \cup ({row[w].m} \ {NoMessage})]
    BY <1>7 DEF SentResult, CancelJob
  <2>8. {row[w].m} \ {NoMessage} \subseteq Messages
    BY <2>1, WholeRow
  <2> HIDE DEF w
  <2>9. log' \in Log
    BY <1>0, <2>7, <2>8 DEF Log
  <2> QED BY <1>7, <2>2, <2>5, <2>6, <2>9 DEF SentResult, CancelJob, Typed
<1>8. ASSUME NEW c \in Consumers, FinishJob(c) PROVE Typed'
  <2>1. stored' \in Seq(Job)
    BY <1>8, RemoveAtFacts DEF FinishJob, Typed
  <2>2. consumer' \in [Consumers -> Thread]
    BY <1>8 DEF FinishJob, Thread, Typed
  <2> QED BY <1>8, <2>1, <2>2 DEF FinishJob, Typed
<1> QED BY <1>1, <1>2, <1>3, <1>4, <1>5, <1>6, <1>7, <1>8 DEF JobStep

LEMMA TypedStep == Typed /\ [Next]_vars => Typed'
<1>1. Typed /\ UNCHANGED vars => Typed'
  BY DEF vars, Typed
<1> QED BY <1>1, TypedUser, TypedSurroundings, TypedJobs DEF Next, ComposeAt

LEMMA AlwaysTyped == Spec => []Typed
BY TypedInit, TypedStep, PTL DEF Spec

(* The rows, the jobs and the threads keep their types: a row holds a      *)
(* message of the conversation or nothing, a thread that runs has a job,   *)
(* and the results of the radio are never counted below zero.              *)
THEOREM SendTypeCorrect == Spec => []TypeOK
<1>1. Typed => TypeOK
  <2> SUFFICES ASSUME Typed PROVE TypeOK
    OBVIOUS
  <2>1. \A c \in Consumers :
          /\ consumer[c].pc \in {"idle"} \cup Places
          /\ consumer[c].pc # "idle" => consumer[c].job \in Job
    BY BusyThread DEF Busy
  <2> QED BY <2>1 DEF Typed, TypeOK, Thinking, Places, Seeing, Blind
<1> QED BY <1>1, AlwaysTyped, PTL

-----------------------------------------------------------------------------
(* What a step does to the jobs: most leave each where it is.              *)
Steady ==
  /\ UNCHANGED <<stored, queue, lastId>>
  /\ \A c \in Consumers :
       /\ Busy(c)' <=> Busy(c)
       /\ Busy(c) => SameJob(consumer'[c].job, consumer[c].job)

PutBack(c) ==
  /\ Busy(c)
  /\ \E j \in Job : SameJob(j, consumer[c].job) /\ queue' = <<j>> \o queue
  /\ consumer' = [consumer EXCEPT ![c] = Idle]
  /\ UNCHANGED <<stored, lastId>>

LEMMA GotoSteady ==
  ASSUME Typed, NEW c \in Consumers, Busy(c), NEW pc \in Places, Goto(c, pc)
  PROVE  \A d \in Consumers :
           /\ Busy(d)' <=> Busy(d)
           /\ Busy(d) => SameJob(consumer'[d].job, consumer[d].job)
<1>1. /\ \A d \in Consumers : d # c => consumer'[d] = consumer[d]
      /\ consumer'[c].pc = pc /\ consumer'[c].job = consumer[c].job
  BY BusyThread DEF Goto, Typed
<1>2. pc # "idle"
  BY DEF Places, Seeing, Blind
<1> QED BY <1>1, <1>2 DEF Busy, SameJob

LEMMA RetrySteady ==
  ASSUME Typed, NEW c \in Consumers, Busy(c), RetryLater(c), UNCHANGED <<stored, lastId>>
  PROVE  Steady \/ PutBack(c)
<1> DEFINE j == [consumer[c].job EXCEPT !.iter = @ + 1]
           pc == IF j.iter < Retries(j) THEN "run" ELSE "cancel"
<1>1. j \in Job /\ SameJob(j, consumer[c].job)
  BY BusyThread DEF Job, SameJob
<1>2. pc # "idle"
  OBVIOUS
<1>3. \/ queue' = <<j>> \o queue /\ consumer' = [consumer EXCEPT ![c] = Idle]
      \/ UNCHANGED queue /\ consumer' = [consumer EXCEPT ![c].job = j, ![c].pc = pc]
  BY DEF RetryLater
<1> HIDE DEF j, pc
<1>4. CASE queue' = <<j>> \o queue /\ consumer' = [consumer EXCEPT ![c] = Idle]
  BY <1>1, <1>4 DEF PutBack
<1>5. CASE UNCHANGED queue /\ consumer' = [consumer EXCEPT ![c].job = j, ![c].pc = pc]
  <2>1. /\ \A d \in Consumers : d # c => consumer'[d] = consumer[d]
        /\ consumer'[c].pc = pc /\ consumer'[c].job = j
    BY <1>5, BusyThread DEF Typed
  <2> QED BY <1>1, <1>2, <1>5, <2>1 DEF Steady, Busy, SameJob
<1> QED BY <1>3, <1>4, <1>5

LEMMA JobStepKind ==
  ASSUME Typed, NEW c \in Consumers, JobStep(c)
  PROVE  Steady \/ PutBack(c) \/ FinishJob(c)
<1>1. ASSUME NEW pc \in Places, Busy(c), Goto(c, pc), UNCHANGED <<stored, queue, lastId>>
      PROVE  Steady
  BY <1>1, GotoSteady DEF Steady
<1>2. CASE BeginRun(c)
  <2>1. Busy(c) /\ UNCHANGED <<stored, lastId>>
    BY <1>2 DEF BeginRun, Busy
  <2>2. CASE RetryLater(c)
    BY <2>1, <2>2, RetrySteady
  <2>3. ASSUME NEW pc \in {"cancel", "done"}, Goto(c, pc), UNCHANGED queue
        PROVE  Steady
    BY <1>1, <2>1, <2>3 DEF Places, Blind
  <2>4. CASE /\ consumer' = [consumer EXCEPT ![c].pc = "deliver",
                                     ![c].secure = row[consumer[c].job.row].secure,
                                     ![c].m = row[consumer[c].job.row].m]
             /\ UNCHANGED queue
    <3>1. /\ \A d \in Consumers : d # c => consumer'[d] = consumer[d]
          /\ consumer'[c].pc = "deliver" /\ consumer'[c].job = consumer[c].job
      BY <2>1, <2>4, BusyThread DEF Typed
    <3> QED BY <2>1, <2>4, <3>1 DEF Steady, Busy, SameJob
  <2> QED BY <1>2, <2>2, <2>3, <2>4 DEF BeginRun
<1>3. CASE PushDelivered(c)
  BY <1>1, <1>3 DEF PushDelivered, Delivering, Busy, Places, Seeing
<1>4. CASE PushIOException(c)
  BY <1>4, RetrySteady DEF PushIOException, Delivering, Busy
<1>5. CASE PushUnregistered(c) \/ PushUntrusted(c) \/ MarkAsPush(c) \/ MarkAsSent(c)
  <2>1. Busy(c) /\ UNCHANGED <<stored, queue, lastId>>
    BY <1>5 DEF PushUnregistered, PushUntrusted, MarkAsPush, MarkAsSent, Delivering, Busy
  <2>2. \E pc \in {"done", "markpush", "expire"} : Goto(c, pc)
    BY <1>5 DEF PushUnregistered, PushUntrusted, MarkAsPush, MarkAsSent
  <2> QED BY <1>1, <2>1, <2>2 DEF Places, Seeing, Blind
<1>6. CASE \/ MarkExpireStarted(c) \/ SmsHandedOver(c) \/ SmsUndeliverable(c)
           \/ SentResult(c) \/ CancelJob(c)
  <2>1. Busy(c) /\ Goto(c, "done") /\ UNCHANGED <<stored, queue, lastId>>
    BY <1>6 DEF MarkExpireStarted, SmsHandedOver, SmsUndeliverable, SentResult,
                CancelJob, Delivering, Busy
  <2> QED BY <1>1, <2>1 DEF Places, Blind
<1> QED BY <1>2, <1>3, <1>4, <1>5, <1>6 DEF JobStep

LEMMA Kinds ==
  ASSUME Typed, [Next]_vars
  PROVE  \/ Steady \/ StoreJob \/ Crash
         \/ \E c \in Consumers : TakeJob(c) \/ PutBack(c) \/ FinishJob(c)
<1>1. ASSUME UNCHANGED <<consumer, stored, queue, lastId>> PROVE Steady
  BY <1>1 DEF Steady, Busy, SameJob
<1>2. \A w \in Ids : ComposeAt(w)
        => UNCHANGED <<consumer, stored, queue, lastId>>
  BY DEF ComposeAt, Compose
<1>3. \A w \in Ids : Resend(w) \/ DeleteMessage(w) \/ AskApproval(w)
        => UNCHANGED <<consumer, stored, queue, lastId>>
  BY DEF Resend, DeleteMessage, AskApproval
<1>4. (\E isPush \in BOOLEAN : RouteMessage(isPush)) \/ Refuse \/ Approval
        => UNCHANGED <<consumer, stored, queue, lastId>>
  BY DEF RouteMessage, Refuse, Approval, MarkAsInsecure, MarkAsOutbox, MarkAsForcedSms,
         AddApprovedJob
<1>5. \A w \in Ids, res \in Results \ {"none"} : RadioReport(w, res)
        => UNCHANGED <<consumer, stored, queue, lastId>>
  BY DEF RadioReport
<1>6. \A r \in Requirements : LoseRequirement(r) \/ RegainRequirement(r)
        => UNCHANGED <<consumer, stored, queue, lastId>>
  BY DEF LoseRequirement, RegainRequirement
<1>7. UNCHANGED vars => UNCHANGED <<consumer, stored, queue, lastId>>
  BY DEF vars
<1> QED BY <1>1, <1>2, <1>3, <1>4, <1>5, <1>6, <1>7, JobStepKind DEF Next, ComposeAt

-----------------------------------------------------------------------------
(* JobsFormed.                                                             *)

LEMMA SameFormed ==
  ASSUME NEW j, NEW k, SameJob(j, k)
  PROVE  /\ Formed(j) <=> Formed(k)
         /\ IsPush(j) <=> IsPush(k)
BY DEF SameJob, Formed, IsPush

LEMMA AppendFacts ==
  ASSUME NEW S, NEW s \in Seq(S), NEW j
  PROVE  /\ DOMAIN Append(s, j) = 1..(Len(s) + 1) /\ DOMAIN s = 1..Len(s) /\ Len(s) \in Nat
         /\ \A n \in DOMAIN s : Append(s, j)[n] = s[n]
         /\ Append(s, j)[Len(s) + 1] = j
<1>1. s \in Seq(S \cup {j})
  OBVIOUS
<1> QED BY <1>1

LEMMA ConsFacts ==
  ASSUME NEW S, NEW s \in Seq(S), NEW j
  PROVE  /\ DOMAIN (<<j>> \o s) = 1..(Len(s) + 1) /\ DOMAIN s = 1..Len(s) /\ Len(s) \in Nat
         /\ (<<j>> \o s)[1] = j
         /\ \A n \in 2..(Len(s) + 1) : n - 1 \in DOMAIN s /\ (<<j>> \o s)[n] = s[n - 1]
<1>1. s \in Seq(S \cup {j}) /\ <<j>> \in Seq(S \cup {j}) /\ Len(<<j>>) = 1
  OBVIOUS
<1>2. /\ <<j>> \o s \in Seq(S \cup {j})
      /\ Len(<<j>> \o s) = 1 + Len(s)
      /\ \A i \in 1..(1 + Len(s)) :
           (<<j>> \o s)[i] = IF i <= 1 THEN <<j>>[i] ELSE s[i - 1]
  BY <1>1, ConcatProperties
<1>3. Len(s) \in Nat /\ DOMAIN s = 1..Len(s)
  BY AppendFacts
<1>4. (<<j>> \o s)[1] = j
  BY <1>2, <1>3
<1> QED BY <1>2, <1>3, <1>4

LEMMA StoreFacts ==
  ASSUME Typed, StoreJob
  PROVE  \E j \in Job :
           /\ j.id = lastId + 1 /\ j.kind = adding[1].kind /\ j.row = adding[1].row
           /\ j.group = adding[1].group
           /\ 1 \in DOMAIN adding
           /\ DOMAIN stored' = 1..(Len(stored) + 1) /\ DOMAIN stored = 1..Len(stored)
           /\ \A n \in DOMAIN stored : stored'[n] = stored[n]
           /\ stored'[Len(stored) + 1] = j
           /\ DOMAIN queue' = 1..(Len(queue) + 1) /\ DOMAIN queue = 1..Len(queue)
           /\ \A n \in DOMAIN queue : queue'[n] = queue[n]
           /\ queue'[Len(queue) + 1] = j
           /\ Len(stored) \in Nat /\ Len(queue) \in Nat
<1>1. adding \in Seq(Job) /\ adding # <<>> /\ Head(adding) = adding[1] /\ 1 \in DOMAIN adding
  BY DEF Typed, StoreJob
<1>2. adding[1] \in Job /\ lastId + 1 \in Nat
  BY <1>1 DEF Typed
<1>3. PICK j : j = [adding[1] EXCEPT !.id = lastId + 1]
  OBVIOUS
<1>4. stored' = Append(stored, j) /\ queue' = Append(queue, j)
  BY <1>1, <1>3 DEF StoreJob
<1>5. j \in Job /\ j.id = lastId + 1 /\ j.kind = adding[1].kind /\ j.row = adding[1].row
      /\ j.group = adding[1].group
  BY <1>2, <1>3 DEF Job
<1> QED BY <1>1, <1>4, <1>5, AppendFacts DEF Typed

LEMMA TailFacts ==
  ASSUME NEW S, NEW s \in Seq(S), s # <<>>
  PROVE  \A n \in DOMAIN Tail(s) : n + 1 \in DOMAIN s /\ Tail(s)[n] = s[n + 1]
OBVIOUS

(* Jobs are made of a kind with its group.                                 *)
LEMMA AddingStep ==
  ASSUME Typed, [Next]_vars
  PROVE  \/ adding' = adding
         \/ adding' = <<>>
         \/ adding' = Tail(adding) /\ adding # <<>>
         \/ \E j \in Job : /\ Formed(j) /\ adding' = Append(adding, j)
                           /\ j.kind = "sent" => radio[j.row] > 0
<1> DEFINE More == \E j \in Job : /\ Formed(j) /\ adding' = Append(adding, j)
                                  /\ j.kind = "sent" => radio[j.row] > 0
<1>1. ASSUME NEW w \in Ids,
             \/ ComposeAt(w) \/ Resend(w) \/ DeleteMessage(w) \/ AskApproval(w)
      PROVE  UNCHANGED adding
  BY <1>1 DEF ComposeAt, Compose, Resend, DeleteMessage, AskApproval
<1>2. Refuse \/ MarkAsInsecure \/ MarkAsOutbox \/ MarkAsForcedSms => UNCHANGED adding
  BY DEF Refuse, MarkAsInsecure, MarkAsOutbox, MarkAsForcedSms
<1>3. ASSUME NEW isPush \in BOOLEAN, RouteMessage(isPush)
      PROVE  More
  <2>1. sender.row \in Ids
    BY <1>3 DEF RouteMessage, Typed, Idle
  <2>2. /\ Formed(PushJob(sender.row)) /\ Formed(SmsJob(sender.row, "name"))
        /\ PushJob(sender.row).kind # "sent" /\ SmsJob(sender.row, "name").kind # "sent"
    BY DEF Formed, PushJob, SmsJob, IsPush
  <2> QED BY <1>3, <2>1, <2>2, JobTypes DEF RouteMessage
<1>4. ASSUME AddApprovedJob
      PROVE  More
  <2>1. approver.row \in Ids
    BY <1>4 DEF AddApprovedJob, Typed, Idle, Thinking
  <2>2. /\ Formed(SmsJob(approver.row, "number"))
        /\ SmsJob(approver.row, "number").kind # "sent"
    BY DEF Formed, SmsJob, IsPush
  <2> QED BY <1>4, <2>1, <2>2, JobTypes DEF AddApprovedJob
<1>5. StoreJob => adding' = Tail(adding) /\ adding # <<>>
  BY DEF StoreJob
<1>6. ASSUME NEW w \in Ids, NEW res \in Results \ {"none"}, RadioReport(w, res)
      PROVE  More
  <2>1. Formed(SentJob(w, res)) /\ SentJob(w, res).row = w
    BY DEF Formed, SentJob, IsPush
  <2> QED BY <1>6, <2>1, JobTypes DEF RadioReport
<1>7. ASSUME NEW r \in Requirements, LoseRequirement(r) \/ RegainRequirement(r)
      PROVE  UNCHANGED adding
  BY <1>7 DEF LoseRequirement, RegainRequirement
<1>8. Crash => adding' = <<>>
  BY DEF Crash
<1>9. ASSUME NEW c \in Consumers, SentResult(c)
      PROVE  \/ adding' = adding
             \/ More
  <2>1. consumer[c].job.row \in Ids
    BY <1>9, BusyThread DEF SentResult, Delivering, Busy
  <2>2. /\ Formed(SmsJob(consumer[c].job.row, "number"))
        /\ SmsJob(consumer[c].job.row, "number").kind # "sent"
    BY DEF Formed, SmsJob, IsPush
  <2>3. SmsJob(consumer[c].job.row, "number") \in Job
    BY <2>1, JobTypes
  <2>4. adding' = adding \/ adding' = Append(adding, SmsJob(consumer[c].job.row, "number"))
    BY <1>9 DEF SentResult
  <2> QED BY <2>2, <2>3, <2>4
<1>10. ASSUME NEW c \in Consumers, TakeJob(c) \/ JobStep(c), ~SentResult(c)
       PROVE  UNCHANGED adding
  BY <1>10 DEF TakeJob, JobStep, BeginRun, PushDelivered, PushIOException,
               PushUnregistered, PushUntrusted, MarkAsPush, MarkAsSent,
               MarkExpireStarted, SmsHandedOver, SmsUndeliverable, CancelJob, FinishJob
<1>11. UNCHANGED vars => UNCHANGED adding
  BY DEF vars
<1>12. adding' = adding \/ adding' = <<>> \/ (adding' = Tail(adding) /\ adding # <<>>) \/ More
  <2> HIDE DEF More
  <2> QED BY <1>1, <1>2, <1>3, <1>4, <1>5, <1>6, <1>7, <1>8, <1>9, <1>10, <1>11
          DEF Next, ComposeAt, Approval
<1> QED BY <1>12

(* Taking an element out leaves the others.                                *)
LEMMA RemoveAtKeeps ==
  ASSUME NEW S, NEW s \in Seq(S), NEW i \in DOMAIN s
  PROVE  /\ \A n \in DOMAIN s : n # i =>
              \E k \in DOMAIN RemoveAt(s, i) : RemoveAt(s, i)[k] = s[n]
         /\ \A k \in DOMAIN RemoveAt(s, i) :
              \E n \in DOMAIN s : n # i /\ RemoveAt(s, i)[k] = s[n]
         /\ \A k, l \in DOMAIN RemoveAt(s, i) : k < l =>
              \E n, o \in DOMAIN s : /\ n < o /\ n # i /\ o # i
                                     /\ RemoveAt(s, i)[k] = s[n]
                                     /\ RemoveAt(s, i)[l] = s[o]
<1> DEFINE r == RemoveAt(s, i)
<1>1. /\ DOMAIN r = 1..(Len(s) - 1)
      /\ \A k \in DOMAIN r : (k < i => r[k] = s[k]) /\ (k >= i => r[k] = s[k + 1])
  BY RemoveAtFacts
<1>2. DOMAIN s = 1..Len(s) /\ Len(s) \in Nat /\ i \in 1..Len(s)
  OBVIOUS
<1> HIDE DEF r
<1>3. ASSUME NEW n \in DOMAIN s, n # i PROVE \E k \in DOMAIN r : r[k] = s[n]
  <2>1. CASE n < i
    <3>1. n \in DOMAIN r /\ r[n] = s[n]
      BY <1>1, <1>2, <2>1
    <3> QED BY <3>1
  <2>2. CASE n > i
    <3>1. n - 1 \in DOMAIN r /\ r[n - 1] = s[(n - 1) + 1] /\ (n - 1) + 1 = n
      BY <1>1, <1>2, <2>2
    <3> QED BY <3>1
  <2> QED BY <1>2, <1>3, <2>1, <2>2
<1> DEFINE Place(k) == IF k < i THEN k ELSE k + 1
<1>4. \A k \in DOMAIN r : Place(k) \in DOMAIN s /\ Place(k) # i /\ r[k] = s[Place(k)]
  BY <1>1, <1>2
<1>5. \A k, l \in DOMAIN r : k < l => Place(k) < Place(l)
  BY <1>1, <1>2
<1> HIDE DEF Place
<1> QED BY <1>3, <1>4, <1>5 DEF r

LEMMA FinishFacts ==
  ASSUME Typed, NEW c \in Consumers, FinishJob(c)
  PROVE  /\ Busy(c) /\ ~Busy(c)' /\ UNCHANGED <<queue, lastId>>
         /\ \A d \in Consumers : d # c => consumer'[d] = consumer[d]
         /\ \E i \in DOMAIN stored :
              /\ stored[i].id = consumer[c].job.id
              /\ \A n \in DOMAIN stored : n # i =>
                   \E k \in DOMAIN stored' : stored'[k] = stored[n]
              /\ \A k \in DOMAIN stored' :
                   \E n \in DOMAIN stored : n # i /\ stored'[k] = stored[n]
              /\ \A k, l \in DOMAIN stored' : k < l =>
                   \E n, o \in DOMAIN stored : /\ n < o /\ n # i /\ o # i
                                               /\ stored'[k] = stored[n]
                                               /\ stored'[l] = stored[o]
<1>1. PICK i \in DOMAIN stored :
        stored[i].id = consumer[c].job.id /\ stored' = RemoveAt(stored, i)
  BY DEF FinishJob
<1>2. stored \in Seq(Job)
  BY DEF Typed
<1>3. /\ Busy(c) /\ UNCHANGED <<queue, lastId>>
      /\ consumer' = [consumer EXCEPT ![c] = Idle]
  BY DEF FinishJob, Busy
<1>4. ~Busy(c)' /\ \A d \in Consumers : d # c => consumer'[d] = consumer[d]
  BY <1>3 DEF Typed, Busy, Idle
<1> QED BY <1>1, <1>2, <1>3, <1>4, RemoveAtKeeps

LEMMA TakeFacts ==
  ASSUME Typed, NEW c \in Consumers, TakeJob(c)
  PROVE  /\ ~Busy(c) /\ Busy(c)' /\ UNCHANGED <<stored, lastId>>
         /\ \A d \in Consumers : d # c => consumer'[d] = consumer[d]
         /\ \E i \in DOMAIN queue :
              /\ consumer'[c].job = queue[i]
              /\ Eligible(i) /\ \A k \in DOMAIN queue : k < i => ~Eligible(k)
              /\ \A n \in DOMAIN queue : n # i =>
                   \E k \in DOMAIN queue' : queue'[k] = queue[n]
              /\ \A k \in DOMAIN queue' :
                   \E n \in DOMAIN queue : n # i /\ queue'[k] = queue[n]
              /\ \A k, l \in DOMAIN queue' : k < l =>
                   \E n, o \in DOMAIN queue : /\ n < o /\ n # i /\ o # i
                                              /\ queue'[k] = queue[n]
                                              /\ queue'[l] = queue[o]
<1>1. PICK i \in DOMAIN queue :
       /\ Eligible(i)
       /\ \A k \in 1..(i - 1) : ~Eligible(k)
       /\ consumer' = [consumer EXCEPT ![c] = [pc |-> "run", job |-> queue[i],
                                               secure |-> FALSE, m |-> NoMessage]]
       /\ queue' = RemoveAt(queue, i)
  BY DEF TakeJob
<1>2. queue \in Seq(Job) /\ DOMAIN queue = 1..Len(queue) /\ Len(queue) \in Nat
  BY DEF Typed
<1>3. \A k \in DOMAIN queue : k < i => ~Eligible(k)
  BY <1>1, <1>2
<1>4. ~Busy(c) /\ UNCHANGED <<stored, lastId>>
  BY DEF TakeJob, Busy
<1>5. /\ Busy(c)' /\ consumer'[c].job = queue[i]
      /\ \A d \in Consumers : d # c => consumer'[d] = consumer[d]
  BY <1>1 DEF Typed, Busy
<1>6. /\ \A n \in DOMAIN queue : n # i =>
           \E k \in DOMAIN queue' : queue'[k] = queue[n]
      /\ \A k \in DOMAIN queue' :
           \E n \in DOMAIN queue : n # i /\ queue'[k] = queue[n]
      /\ \A k, l \in DOMAIN queue' : k < l =>
           \E n, o \in DOMAIN queue : /\ n < o /\ n # i /\ o # i
                                      /\ queue'[k] = queue[n]
                                      /\ queue'[l] = queue[o]
  <2>1. queue' = RemoveAt(queue, i)
    BY <1>1
  <2>2. queue \in Seq(Job) /\ i \in DOMAIN queue
    BY <1>2
  <2> HIDE DEF Eligible
  <2> QED BY <2>1, <2>2, RemoveAtKeeps
<1>7. Eligible(i)
  BY <1>1
<1> HIDE DEF Eligible, Busy
<1> QED BY <1>3, <1>4, <1>5, <1>6, <1>7

LEMMA PutBackFacts ==
  ASSUME Typed, NEW c \in Consumers, PutBack(c)
  PROVE  /\ Busy(c) /\ ~Busy(c)' /\ UNCHANGED <<stored, lastId>>
         /\ \A d \in Consumers : d # c => consumer'[d] = consumer[d]
         /\ 1 \in DOMAIN queue' /\ SameJob(queue'[1], consumer[c].job)
         /\ \A n \in DOMAIN queue : n + 1 \in DOMAIN queue' /\ queue'[n + 1] = queue[n]
         /\ \A k \in DOMAIN queue' :
              k \in Nat /\ (k = 1 \/ (k > 1 /\ k - 1 \in DOMAIN queue /\ queue'[k] = queue[k - 1]))
<1>1. PICK j \in Job : SameJob(j, consumer[c].job) /\ queue' = <<j>> \o queue
  BY DEF PutBack
<1>2. /\ DOMAIN queue' = 1..(Len(queue) + 1) /\ DOMAIN queue = 1..Len(queue)
      /\ Len(queue) \in Nat /\ queue'[1] = j
      /\ \A n \in 2..(Len(queue) + 1) : n - 1 \in DOMAIN queue /\ queue'[n] = queue[n - 1]
  BY <1>1, ConsFacts DEF Typed
<1>3. \A n \in DOMAIN queue : n + 1 \in DOMAIN queue' /\ queue'[n + 1] = queue[n]
  <2> TAKE n \in DOMAIN queue
  <2>1. n + 1 \in 2..(Len(queue) + 1) /\ (n + 1) - 1 = n
    BY <1>2
  <2> QED BY <1>2, <2>1
<1>4. /\ Busy(c) /\ UNCHANGED <<stored, lastId>>
      /\ consumer' = [consumer EXCEPT ![c] = Idle]
  BY DEF PutBack
<1>5. ~Busy(c)' /\ \A d \in Consumers : d # c => consumer'[d] = consumer[d]
  BY <1>4 DEF Typed, Busy, Idle
<1>6. \A k \in DOMAIN queue' :
         k \in Nat /\ (k = 1 \/ (k > 1 /\ k - 1 \in DOMAIN queue /\ queue'[k] = queue[k - 1]))
  BY <1>2
<1> QED BY <1>1, <1>2, <1>3, <1>4, <1>5, <1>6

LEMMA FormedStep ==
  ASSUME Typed, JobsFormed, [Next]_vars
  PROVE  JobsFormed'
<1>1. /\ \A i \in DOMAIN adding : Formed(adding[i])
      /\ \A i \in DOMAIN stored : Formed(stored[i])
  BY DEF JobsFormed
<1>2. \A i \in DOMAIN adding' : Formed(adding'[i])
  <2>0. adding \in Seq(Job)
    BY DEF Typed
  <2>1. CASE adding' = adding
    BY <1>1, <2>1
  <2>2. CASE adding' = <<>>
    BY <2>2
  <2>3. CASE adding' = Tail(adding) /\ adding # <<>>
    BY <1>1, <2>0, <2>3, TailFacts
  <2>4. ASSUME NEW j \in Job, Formed(j), adding' = Append(adding, j)
        PROVE  \A i \in DOMAIN adding' : Formed(adding'[i])
    <3>1. /\ DOMAIN adding' = 1..(Len(adding) + 1) /\ DOMAIN adding = 1..Len(adding)
          /\ Len(adding) \in Nat
          /\ \A n \in DOMAIN adding : adding'[n] = adding[n]
          /\ adding'[Len(adding) + 1] = j
      BY <2>0, <2>4, AppendFacts
    <3>2. \A i \in DOMAIN adding' : i \in DOMAIN adding \/ i = Len(adding) + 1
      BY <3>1
    <3> QED BY <1>1, <2>4, <3>1, <3>2
  <2> QED BY <2>1, <2>2, <2>3, <2>4, AddingStep
<1>3. \A i \in DOMAIN stored' : Formed(stored'[i])
  <2>1. CASE UNCHANGED stored
    BY <1>1, <2>1
  <2>2. CASE StoreJob
    <3>1. PICK j \in Job :
           /\ j.kind = adding[1].kind /\ j.row = adding[1].row /\ j.group = adding[1].group
           /\ 1 \in DOMAIN adding
           /\ DOMAIN stored' = 1..(Len(stored) + 1) /\ DOMAIN stored = 1..Len(stored)
           /\ \A n \in DOMAIN stored : stored'[n] = stored[n]
           /\ stored'[Len(stored) + 1] = j
           /\ Len(stored) \in Nat
      BY <2>2, StoreFacts
    <3>2. \A i \in DOMAIN stored' : i \in DOMAIN stored \/ i = Len(stored) + 1
      BY <3>1
    <3>3. Formed(j)
      BY <1>1, <3>1 DEF Formed, IsPush
    <3> QED BY <1>1, <3>1, <3>2, <3>3
  <2>3. ASSUME NEW c \in Consumers, FinishJob(c)
        PROVE  \A i \in DOMAIN stored' : Formed(stored'[i])
    <3>1. \A k \in DOMAIN stored' : \E n \in DOMAIN stored : stored'[k] = stored[n]
      BY <2>3, FinishFacts
    <3> QED BY <1>1, <3>1
  <2>4. Steady \/ Crash \/ (\E c \in Consumers : TakeJob(c) \/ PutBack(c)) => UNCHANGED stored
    BY DEF Steady, Crash, TakeJob, PutBack
  <2> QED BY <2>1, <2>2, <2>3, <2>4, Kinds
<1> QED BY <1>2, <1>3 DEF JobsFormed, Formed, IsPush

LEMMA CrashFacts ==
  ASSUME Crash
  PROVE  queue' = stored /\ UNCHANGED <<stored, lastId>> /\ \A c \in Consumers : ~Busy(c)'
BY DEF Crash, Busy, Idle

LEMMA SameStored ==
  Steady \/ Crash \/ (\E c \in Consumers : TakeJob(c) \/ PutBack(c))
    => UNCHANGED <<stored, lastId>>
BY DEF Steady, Crash, TakeJob, PutBack

LEMMA StoredTypes ==
  ASSUME Typed
  PROVE  /\ \A i \in DOMAIN stored : i \in Nat /\ stored[i] \in Job
         /\ \A i \in DOMAIN queue : i \in Nat /\ queue[i] \in Job
         /\ \A i \in DOMAIN adding : i \in Nat /\ adding[i] \in Job
<1> DEFINE J == Job
<1>1. adding \in Seq(J) /\ stored \in Seq(J) /\ queue \in Seq(J)
  BY DEF Typed
<1> HIDE DEF J
<1>2. /\ \A i \in DOMAIN stored : i \in Nat /\ stored[i] \in J
      /\ \A i \in DOMAIN queue : i \in Nat /\ queue[i] \in J
      /\ \A i \in DOMAIN adding : i \in Nat /\ adding[i] \in J
  BY <1>1
<1> QED BY <1>2 DEF J

LEMMA NumberedStep ==
  ASSUME Typed, Numbered, [Next]_vars
  PROVE  Numbered'
<1>0. lastId \in Nat /\ \A i \in DOMAIN stored : stored[i].id \in Nat
  BY StoredTypes DEF Typed, Job
<1>1. CASE UNCHANGED <<stored, lastId>>
  BY <1>1 DEF Numbered
<1>2. CASE StoreJob
  <2>1. PICK j \in Job :
          /\ j.id = lastId + 1
          /\ DOMAIN stored' = 1..(Len(stored) + 1) /\ DOMAIN stored = 1..Len(stored)
          /\ \A n \in DOMAIN stored : stored'[n] = stored[n]
          /\ stored'[Len(stored) + 1] = j
          /\ Len(stored) \in Nat
    BY <1>2, StoreFacts
  <2>2. lastId' = lastId + 1
    BY <1>2 DEF StoreJob
  <2>3. \A i \in DOMAIN stored' : i \in DOMAIN stored \/ i = Len(stored) + 1
    BY <2>1
  <2>4. \A i \in DOMAIN stored' : stored'[i].id \in 1..lastId'
    BY <1>0, <2>1, <2>2, <2>3 DEF Numbered
  <2>5. ASSUME NEW i \in DOMAIN stored', NEW k \in DOMAIN stored', i < k
        PROVE  stored'[i].id < stored'[k].id
    <3>1. i \in DOMAIN stored
      BY <2>1, <2>5
    <3>2. CASE k \in DOMAIN stored
      BY <2>1, <2>5, <3>1, <3>2 DEF Numbered
    <3>3. CASE k = Len(stored) + 1
      BY <1>0, <2>1, <3>1, <3>3 DEF Numbered
    <3> QED BY <2>3, <3>2, <3>3
  <2> QED BY <2>4, <2>5 DEF Numbered
<1>3. ASSUME NEW c \in Consumers, FinishJob(c) PROVE Numbered'
  <2>1. PICK i \in DOMAIN stored :
          /\ \A k \in DOMAIN stored' :
               \E n \in DOMAIN stored : n # i /\ stored'[k] = stored[n]
          /\ \A k, l \in DOMAIN stored' : k < l =>
               \E n, o \in DOMAIN stored : /\ n < o /\ n # i /\ o # i
                                           /\ stored'[k] = stored[n]
                                           /\ stored'[l] = stored[o]
    BY <1>3, FinishFacts
  <2>2. lastId' = lastId
    BY <1>3 DEF FinishJob
  <2> QED BY <2>1, <2>2 DEF Numbered
<1> QED BY <1>1, <1>2, <1>3, Kinds, SameStored

LEMMA SameJobs ==
  /\ \A j, k : SameJob(j, k) => SameJob(k, j)
  /\ \A j, k, l : SameJob(j, k) /\ SameJob(k, l) => SameJob(j, l)
  /\ \A j : SameJob(j, j)
  /\ \A j, k : SameJob(j, k) => j.id = k.id
BY DEF SameJob

(* The jobs in the queue and in the threads are those that are stored.     *)
LEMMA JobsHave ==
  ASSUME Typed, JobsFormed, Numbered, JobsStored
  PROVE  /\ \A q \in DOMAIN queue :
              /\ queue[q].id \in 1..lastId
              /\ IsPush(queue[q]) => queue[q].group = "number"
         /\ \A c \in Consumers : Busy(c) =>
              /\ consumer[c].job.id \in 1..lastId
              /\ IsPush(consumer[c].job) => consumer[c].job.group = "number"
BY DEF JobsFormed, Formed, Numbered, JobsStored, SameJob, IsPush

(* Stored jobs with one id are one.                                        *)
LEMMA Twin ==
  ASSUME Typed, Numbered, NEW i \in DOMAIN stored, NEW k \in DOMAIN stored,
         stored[i].id = stored[k].id
  PROVE  i = k
<1>1. i \in Nat /\ k \in Nat /\ stored[i].id \in Nat
  BY StoredTypes DEF Job
<1> QED BY <1>1 DEF Numbered

LEMMA JobsStoredStep ==
  ASSUME Typed, JobsFormed, Numbered, JobsStored, JobsApart, [Next]_vars
  PROVE  JobsStored'
<1>1. CASE Steady
  <2>1. UNCHANGED <<stored, queue>>
    BY <1>1 DEF Steady
  <2>2. ASSUME NEW c \in Consumers, Busy(c)'
        PROVE  \E i \in DOMAIN stored : SameJob(consumer'[c].job, stored[i])
    <3>1. Busy(c) /\ SameJob(consumer'[c].job, consumer[c].job)
      BY <1>1, <2>2 DEF Steady
    <3> QED BY <3>1, SameJobs DEF JobsStored
  <2> QED BY <2>1, <2>2 DEF JobsStored
<1>2. CASE StoreJob
  <2>1. PICK j \in Job :
          /\ DOMAIN stored' = 1..(Len(stored) + 1) /\ DOMAIN stored = 1..Len(stored)
          /\ \A n \in DOMAIN stored : stored'[n] = stored[n]
          /\ stored'[Len(stored) + 1] = j
          /\ DOMAIN queue' = 1..(Len(queue) + 1) /\ DOMAIN queue = 1..Len(queue)
          /\ \A n \in DOMAIN queue : queue'[n] = queue[n]
          /\ queue'[Len(queue) + 1] = j
          /\ Len(stored) \in Nat /\ Len(queue) \in Nat
    BY <1>2, StoreFacts
  <2>2. /\ \A i \in DOMAIN stored : i \in DOMAIN stored'
        /\ Len(stored) + 1 \in DOMAIN stored'
        /\ \A q \in DOMAIN queue' : q \in DOMAIN queue \/ q = Len(queue) + 1
    BY <2>1
  <2>3. consumer' = consumer
    BY <1>2 DEF StoreJob
  <2>4. \A q \in DOMAIN queue' : \E i \in DOMAIN stored' : SameJob(queue'[q], stored'[i])
    BY <2>1, <2>2, SameJobs DEF JobsStored
  <2>5. \A c \in Consumers : Busy(c)' =>
          \E i \in DOMAIN stored' : SameJob(consumer'[c].job, stored'[i])
    BY <2>1, <2>2, <2>3 DEF JobsStored, Busy
  <2> QED BY <2>4, <2>5 DEF JobsStored
<1>3. CASE Crash
  BY <1>3, CrashFacts, SameJobs DEF JobsStored
<1>4. ASSUME NEW c \in Consumers, TakeJob(c) PROVE JobsStored'
  <2>1. PICK i \in DOMAIN queue :
          /\ consumer'[c].job = queue[i]
          /\ \A k \in DOMAIN queue' :
               \E n \in DOMAIN queue : n # i /\ queue'[k] = queue[n]
    BY <1>4, TakeFacts
  <2>2. stored' = stored /\ \A d \in Consumers : d # c => consumer'[d] = consumer[d]
    BY <1>4, TakeFacts
  <2> QED BY <2>1, <2>2 DEF JobsStored, Busy
<1>5. ASSUME NEW c \in Consumers, PutBack(c) PROVE JobsStored'
  <2>1. /\ Busy(c) /\ ~Busy(c)' /\ stored' = stored
        /\ \A d \in Consumers : d # c => consumer'[d] = consumer[d]
        /\ SameJob(queue'[1], consumer[c].job)
        /\ \A k \in DOMAIN queue' :
             k = 1 \/ (k - 1 \in DOMAIN queue /\ queue'[k] = queue[k - 1])
    BY <1>5, PutBackFacts
  <2>2. \A q \in DOMAIN queue' : \E i \in DOMAIN stored : SameJob(queue'[q], stored[i])
    BY <2>1, SameJobs DEF JobsStored
  <2>3. \A d \in Consumers : Busy(d)' =>
          \E i \in DOMAIN stored : SameJob(consumer'[d].job, stored[i])
    BY <2>1 DEF JobsStored, Busy
  <2> QED BY <2>1, <2>2, <2>3 DEF JobsStored
<1>6. ASSUME NEW c \in Consumers, FinishJob(c) PROVE JobsStored'
  <2>1. /\ Busy(c) /\ ~Busy(c)' /\ queue' = queue
        /\ \A d \in Consumers : d # c => consumer'[d] = consumer[d]
    BY <1>6, FinishFacts
  <2>2. PICK i \in DOMAIN stored :
          /\ stored[i].id = consumer[c].job.id
          /\ \A n \in DOMAIN stored : n # i => \E k \in DOMAIN stored' : stored'[k] = stored[n]
    BY <1>6, FinishFacts
  <2>3. \A q \in DOMAIN queue : \E k \in DOMAIN stored' : SameJob(queue[q], stored'[k])
    <3> TAKE q \in DOMAIN queue
    <3>1. PICK n \in DOMAIN stored : SameJob(queue[q], stored[n])
      BY DEF JobsStored
    <3>2. n # i
      BY <2>1, <2>2, <3>1, SameJobs DEF JobsApart
    <3> QED BY <2>2, <3>1, <3>2
  <2>4. ASSUME NEW d \in Consumers, Busy(d)'
        PROVE  \E k \in DOMAIN stored' : SameJob(consumer'[d].job, stored'[k])
    <3>1. d # c /\ Busy(d) /\ consumer'[d] = consumer[d]
      BY <2>1, <2>4 DEF Busy
    <3>2. PICK n \in DOMAIN stored : SameJob(consumer[d].job, stored[n])
      BY <3>1 DEF JobsStored
    <3>3. n # i
      BY <2>1, <2>2, <3>1, <3>2, SameJobs DEF JobsApart
    <3> QED BY <2>2, <3>1, <3>2, <3>3
  <2> QED BY <2>1, <2>3, <2>4 DEF JobsStored
<1> QED BY <1>1, <1>2, <1>3, <1>4, <1>5, <1>6, Kinds

LEMMA JobsApartStep ==
  ASSUME Typed, JobsFormed, Numbered, JobsStored, JobsApart, [Next]_vars
  PROVE  JobsApart'
<1>1. CASE Steady
  <2>1. /\ queue' = queue
        /\ \A c \in Consumers : Busy(c)' => Busy(c) /\ consumer'[c].job.id = consumer[c].job.id
    BY <1>1, SameJobs DEF Steady
  <2> QED BY <2>1 DEF JobsApart
<1>2. CASE StoreJob
  <2>1. PICK j \in Job :
          /\ j.id = lastId + 1
          /\ DOMAIN queue' = 1..(Len(queue) + 1) /\ DOMAIN queue = 1..Len(queue)
          /\ \A n \in DOMAIN queue : queue'[n] = queue[n]
          /\ queue'[Len(queue) + 1] = j
          /\ Len(queue) \in Nat
    BY <1>2, StoreFacts
  <2>2. \A q \in DOMAIN queue' : q \in DOMAIN queue \/ q = Len(queue) + 1
    BY <2>1
  <2>3. /\ \A q \in DOMAIN queue : queue[q].id # j.id
        /\ \A c \in Consumers : Busy(c) => consumer[c].job.id # j.id
    BY <2>1, JobsHave DEF Typed
  <2>4. consumer' = consumer
    BY <1>2 DEF StoreJob
  <2> QED BY <2>1, <2>2, <2>3, <2>4 DEF JobsApart, Busy
<1>3. CASE Crash
  <2>1. \A i, k \in DOMAIN stored : i # k => stored[i].id # stored[k].id
    BY Twin
  <2> QED BY <1>3, <2>1, CrashFacts DEF JobsApart
<1>4. ASSUME NEW c \in Consumers, TakeJob(c) PROVE JobsApart'
  <2>1. PICK i \in DOMAIN queue :
          /\ consumer'[c].job = queue[i]
          /\ \A k \in DOMAIN queue' :
               \E n \in DOMAIN queue : n # i /\ queue'[k] = queue[n]
          /\ \A k, l \in DOMAIN queue' : k < l =>
               \E n, o \in DOMAIN queue : /\ n < o /\ n # i /\ o # i
                                          /\ queue'[k] = queue[n]
                                          /\ queue'[l] = queue[o]
    BY <1>4, TakeFacts
  <2>2. /\ \A d \in Consumers : d # c => consumer'[d] = consumer[d]
        /\ ~Busy(c)
    BY <1>4, TakeFacts
  <2>3. ASSUME NEW q \in DOMAIN queue', NEW r \in DOMAIN queue', q # r
        PROVE  queue'[q].id # queue'[r].id
    <3>1. \A k, l \in DOMAIN queue' : k < l => queue'[k].id # queue'[l].id
      <4> TAKE k, l \in DOMAIN queue'
      <4> HAVE k < l
      <4>1. PICK n, o \in DOMAIN queue : /\ n < o
                                         /\ queue'[k] = queue[n] /\ queue'[l] = queue[o]
        BY <2>1
      <4>2. n # o
        BY <4>1, StoredTypes
      <4> QED BY <4>1, <4>2 DEF JobsApart
    <3>2. Typed'
      BY TypedStep
    <3>3. q \in Nat /\ r \in Nat
      BY <3>2 DEF Typed
    <3> QED BY <2>3, <3>1, <3>3
  <2>4. \A d \in Consumers : Busy(d)' =>
          \A q \in DOMAIN queue' : consumer'[d].job.id # queue'[q].id
    BY <2>1, <2>2 DEF JobsApart, Busy
  <2>5. \A d \in Consumers : Busy(d) => consumer[d].job.id # queue[i].id
    BY DEF JobsApart
  <2>6. \A d, e \in Consumers : Busy(d)' /\ Busy(e)' /\ d # e =>
          consumer'[d].job.id # consumer'[e].job.id
    BY <2>1, <2>2, <2>5 DEF JobsApart, Busy
  <2> QED BY <2>3, <2>4, <2>6 DEF JobsApart
<1>5. ASSUME NEW c \in Consumers, PutBack(c) PROVE JobsApart'
  <2>1. /\ Busy(c) /\ ~Busy(c)'
        /\ \A d \in Consumers : d # c => consumer'[d] = consumer[d]
        /\ queue'[1].id = consumer[c].job.id
        /\ \A k \in DOMAIN queue' :
             k \in Nat /\ (k = 1 \/ (k - 1 \in DOMAIN queue /\ queue'[k] = queue[k - 1]))
    BY <1>5, PutBackFacts, SameJobs
  <2>2. \A q, r \in DOMAIN queue' : q # r => queue'[q].id # queue'[r].id
    <3> TAKE q, r \in DOMAIN queue'
    <3>1. q # r => (q - 1) # (r - 1)
      BY <2>1
    <3> QED BY <2>1, <3>1 DEF JobsApart
  <2>3. \A d \in Consumers : Busy(d)' => Busy(d) /\ d # c /\ consumer'[d] = consumer[d]
    BY <2>1 DEF Busy
  <2> QED BY <2>1, <2>2, <2>3 DEF JobsApart
<1>6. ASSUME NEW c \in Consumers, FinishJob(c) PROVE JobsApart'
  <2>1. /\ ~Busy(c)' /\ queue' = queue
        /\ \A d \in Consumers : d # c => consumer'[d] = consumer[d]
    BY <1>6, FinishFacts
  <2>2. \A d \in Consumers : Busy(d)' => Busy(d) /\ consumer'[d] = consumer[d]
    BY <2>1 DEF Busy
  <2> QED BY <2>1, <2>2 DEF JobsApart
<1> QED BY <1>1, <1>2, <1>3, <1>4, <1>5, <1>6, Kinds

LEMMA JobsKeptStep ==
  ASSUME Typed, Numbered, JobsKept, [Next]_vars
  PROVE  JobsKept'
<1>1. CASE Steady
  <2>1. /\ UNCHANGED <<stored, queue>>
        /\ \A c \in Consumers : Busy(c) => Busy(c)' /\ consumer'[c].job.id = consumer[c].job.id
    BY <1>1, SameJobs DEF Steady
  <2> QED BY <2>1 DEF JobsKept
<1>2. CASE StoreJob
  <2>1. PICK j \in Job :
          /\ DOMAIN stored' = 1..(Len(stored) + 1) /\ DOMAIN stored = 1..Len(stored)
          /\ \A n \in DOMAIN stored : stored'[n] = stored[n]
          /\ stored'[Len(stored) + 1] = j
          /\ DOMAIN queue' = 1..(Len(queue) + 1) /\ DOMAIN queue = 1..Len(queue)
          /\ \A n \in DOMAIN queue : queue'[n] = queue[n]
          /\ queue'[Len(queue) + 1] = j
          /\ Len(stored) \in Nat /\ Len(queue) \in Nat
    BY <1>2, StoreFacts
  <2>2. /\ \A q \in DOMAIN queue : q \in DOMAIN queue'
        /\ Len(queue) + 1 \in DOMAIN queue'
        /\ \A i \in DOMAIN stored' : i \in DOMAIN stored \/ i = Len(stored) + 1
    BY <2>1
  <2>3. consumer' = consumer
    BY <1>2 DEF StoreJob
  <2> QED BY <2>1, <2>2, <2>3 DEF JobsKept, Busy
<1>3. CASE Crash
  BY <1>3, CrashFacts DEF JobsKept
<1>4. ASSUME NEW c \in Consumers, TakeJob(c) PROVE JobsKept'
  <2>1. PICK i \in DOMAIN queue :
          /\ consumer'[c].job = queue[i]
          /\ \A n \in DOMAIN queue : n # i => \E k \in DOMAIN queue' : queue'[k] = queue[n]
    BY <1>4, TakeFacts
  <2>2. /\ \A d \in Consumers : d # c => consumer'[d] = consumer[d]
        /\ ~Busy(c) /\ Busy(c)' /\ stored' = stored
    BY <1>4, TakeFacts
  <2> QED BY <2>1, <2>2 DEF JobsKept, Busy
<1>5. ASSUME NEW c \in Consumers, PutBack(c) PROVE JobsKept'
  <2>1. /\ \A d \in Consumers : d # c => consumer'[d] = consumer[d]
        /\ 1 \in DOMAIN queue' /\ queue'[1].id = consumer[c].job.id
        /\ \A n \in DOMAIN queue : n + 1 \in DOMAIN queue' /\ queue'[n + 1] = queue[n]
        /\ stored' = stored
    BY <1>5, PutBackFacts, SameJobs
  <2>2. ASSUME NEW i \in DOMAIN stored
        PROVE  \/ \E q \in DOMAIN queue' : queue'[q].id = stored[i].id
               \/ \E d \in Consumers : Busy(d)' /\ consumer'[d].job.id = stored[i].id
    <3>1. CASE \E q \in DOMAIN queue : queue[q].id = stored[i].id
      BY <2>1, <3>1
    <3>2. ASSUME NEW d \in Consumers, Busy(d), consumer[d].job.id = stored[i].id
          PROVE  \/ \E q \in DOMAIN queue' : queue'[q].id = stored[i].id
                 \/ \E e \in Consumers : Busy(e)' /\ consumer'[e].job.id = stored[i].id
      BY <2>1, <3>2 DEF Busy
    <3> QED BY <3>1, <3>2 DEF JobsKept
  <2> QED BY <2>1, <2>2 DEF JobsKept
<1>6. ASSUME NEW c \in Consumers, FinishJob(c) PROVE JobsKept'
  <2>1. PICK i \in DOMAIN stored :
          /\ stored[i].id = consumer[c].job.id
          /\ \A k \in DOMAIN stored' :
               \E n \in DOMAIN stored : n # i /\ stored'[k] = stored[n]
    BY <1>6, FinishFacts
  <2>2. /\ queue' = queue
        /\ \A d \in Consumers : d # c => consumer'[d] = consumer[d]
    BY <1>6, FinishFacts
  <2>3. ASSUME NEW k \in DOMAIN stored'
        PROVE  \/ \E q \in DOMAIN queue : queue[q].id = stored'[k].id
               \/ \E d \in Consumers : Busy(d)' /\ consumer'[d].job.id = stored'[k].id
    <3>1. PICK n \in DOMAIN stored : n # i /\ stored'[k] = stored[n]
      BY <2>1
    <3>2. stored[n].id # stored[i].id
      BY <3>1, Twin
    <3>3. CASE \E q \in DOMAIN queue : queue[q].id = stored[n].id
      BY <3>1, <3>3
    <3>4. ASSUME NEW d \in Consumers, Busy(d), consumer[d].job.id = stored[n].id
          PROVE  \E e \in Consumers : Busy(e)' /\ consumer'[e].job.id = stored'[k].id
      BY <2>1, <2>2, <3>1, <3>2, <3>4 DEF Busy
    <3> QED BY <3>3, <3>4 DEF JobsKept
  <2> QED BY <2>2, <2>3 DEF JobsKept
<1> QED BY <1>1, <1>2, <1>3, <1>4, <1>5, <1>6, Kinds

LEMMA SameLines ==
  ASSUME NEW j, NEW k, NEW l, SameJob(j, k)
  PROVE  /\ SameGroup(j, l) <=> SameGroup(k, l)
         /\ InLine(j, l) <=> InLine(k, l)
         /\ SameGroup(l, j) <=> SameGroup(l, k)
         /\ InLine(l, j) <=> InLine(l, k)
BY DEF SameJob, SameGroup, InLine

(* The job a thread takes is the first of its line, and no other of its    *)
(* group runs: a job that waits ahead of it has the same requirements.     *)
LEMMA FirstOfLine ==
  ASSUME Typed, LinesInTurn, NEW i \in DOMAIN queue,
         Eligible(i), \A k \in DOMAIN queue : k < i => ~Eligible(k)
  PROVE  /\ \A d \in Consumers : Busy(d) => ~SameGroup(queue[i], consumer[d].job)
         /\ \A k \in DOMAIN queue : InLine(queue[i], queue[k]) /\ k # i =>
              queue[i].id < queue[k].id
<1>1. Requires(queue[i]) \subseteq met /\ GroupFree(queue[i].group)
  BY DEF Eligible
<1>2. ASSUME NEW d \in Consumers, Busy(d) PROVE ~SameGroup(queue[i], consumer[d].job)
  <2>1. consumer[d].job \in Running
    BY <1>2 DEF Running, Busy
  <2> QED BY <1>1, <2>1 DEF GroupFree, SameGroup
<1>3. ASSUME NEW k \in DOMAIN queue, InLine(queue[i], queue[k]), k < i PROVE FALSE
  <2>1. queue[k].group = queue[i].group /\ Requires(queue[k]) = Requires(queue[i])
    BY <1>3 DEF InLine, SameGroup, Requires
  <2>2. Eligible(k)
    BY <1>1, <2>1 DEF Eligible
  <2> QED BY <1>3, <2>2
<1>4. \A k \in DOMAIN queue : InLine(queue[i], queue[k]) /\ k # i => i < k
  BY <1>3, StoredTypes
<1> QED BY <1>2, <1>4 DEF LinesInTurn

LEMMA LinesInTurnStep ==
  ASSUME Typed, JobsFormed, Numbered, JobsStored, JobsApart, LinesInTurn, [Next]_vars
  PROVE  LinesInTurn'
<1>1. CASE Steady
  <2>1. /\ queue' = queue
        /\ \A c \in Consumers : Busy(c)' =>
             Busy(c) /\ SameJob(consumer'[c].job, consumer[c].job)
    BY <1>1 DEF Steady
  <2>2. ASSUME NEW c \in Consumers, Busy(c)', NEW q \in DOMAIN queue,
               InLine(consumer'[c].job, queue[q])
        PROVE  consumer'[c].job.id < queue[q].id
    <3>1. Busy(c) /\ InLine(consumer[c].job, queue[q])
      BY <2>1, <2>2, SameLines
    <3>2. consumer'[c].job.id = consumer[c].job.id
      BY <2>1, <2>2, SameJobs
    <3> QED BY <3>1, <3>2 DEF LinesInTurn
  <2>3. ASSUME NEW c \in Consumers, NEW d \in Consumers, Busy(c)', Busy(d)',
               SameGroup(consumer'[c].job, consumer'[d].job)
        PROVE  c = d
    <3>1. SameGroup(consumer[c].job, consumer'[d].job)
      BY <2>1, <2>3, SameLines
    <3>2. SameGroup(consumer[c].job, consumer[d].job)
      BY <2>1, <2>3, <3>1, SameLines
    <3> QED BY <2>1, <2>3, <3>2 DEF LinesInTurn
  <2>4. \A q, r \in DOMAIN queue' :
          InLine(queue'[q], queue'[r]) /\ q < r => queue'[q].id < queue'[r].id
    BY <2>1 DEF LinesInTurn
  <2> QED BY <2>1, <2>2, <2>3, <2>4 DEF LinesInTurn
<1>2. CASE StoreJob
  <2>1. PICK j \in Job :
          /\ j.id = lastId + 1
          /\ DOMAIN queue' = 1..(Len(queue) + 1) /\ DOMAIN queue = 1..Len(queue)
          /\ \A n \in DOMAIN queue : queue'[n] = queue[n]
          /\ queue'[Len(queue) + 1] = j
          /\ Len(queue) \in Nat
    BY <1>2, StoreFacts
  <2>2. /\ \A q \in DOMAIN queue' : q \in DOMAIN queue \/ q = Len(queue) + 1
        /\ \A q \in DOMAIN queue' : q < Len(queue) + 1 => q \in DOMAIN queue
        /\ \A q \in DOMAIN queue : ~(Len(queue) + 1 < q)
    BY <2>1
  <2>3. /\ \A q \in DOMAIN queue : queue[q].id < j.id
        /\ \A c \in Consumers : Busy(c) => consumer[c].job.id < j.id
    BY <2>1, JobsHave DEF Typed
  <2>4. consumer' = consumer
    BY <1>2 DEF StoreJob
  <2>5. \A q, r \in DOMAIN queue' :
          InLine(queue'[q], queue'[r]) /\ q < r => queue'[q].id < queue'[r].id
    <3> TAKE q, r \in DOMAIN queue'
    <3> HAVE InLine(queue'[q], queue'[r]) /\ q < r
    <3>1. q \in DOMAIN queue
      BY <2>1
    <3>2. CASE r \in DOMAIN queue
      BY <2>1, <3>1, <3>2 DEF LinesInTurn
    <3>3. CASE r = Len(queue) + 1
      BY <2>1, <2>3, <3>1, <3>3
    <3> QED BY <2>2, <3>2, <3>3
  <2>6. \A c \in Consumers : Busy(c)' =>
          \A q \in DOMAIN queue' : InLine(consumer'[c].job, queue'[q]) =>
            consumer'[c].job.id < queue'[q].id
    BY <2>1, <2>2, <2>3, <2>4 DEF LinesInTurn, Busy
  <2>7. \A c, d \in Consumers :
          Busy(c)' /\ Busy(d)' /\ SameGroup(consumer'[c].job, consumer'[d].job) => c = d
    BY <2>4 DEF LinesInTurn, Busy
  <2> QED BY <2>5, <2>6, <2>7 DEF LinesInTurn
<1>3. CASE Crash
  BY <1>3, CrashFacts DEF LinesInTurn, Numbered
<1>4. ASSUME NEW c \in Consumers, TakeJob(c) PROVE LinesInTurn'
  <2>1. PICK i \in DOMAIN queue :
          /\ consumer'[c].job = queue[i]
          /\ Eligible(i) /\ \A k \in DOMAIN queue : k < i => ~Eligible(k)
          /\ \A k \in DOMAIN queue' :
               \E n \in DOMAIN queue : n # i /\ queue'[k] = queue[n]
          /\ \A k, l \in DOMAIN queue' : k < l =>
               \E n, o \in DOMAIN queue : /\ n < o /\ n # i /\ o # i
                                          /\ queue'[k] = queue[n]
                                          /\ queue'[l] = queue[o]
    BY <1>4, TakeFacts
  <2>2. /\ \A d \in Consumers : d # c => consumer'[d] = consumer[d]
        /\ ~Busy(c)
    BY <1>4, TakeFacts
  <2>3. \A q, r \in DOMAIN queue' :
          InLine(queue'[q], queue'[r]) /\ q < r => queue'[q].id < queue'[r].id
    BY <2>1 DEF LinesInTurn
  <2>4. /\ \A d \in Consumers : Busy(d) => ~SameGroup(queue[i], consumer[d].job)
        /\ \A k \in DOMAIN queue : InLine(queue[i], queue[k]) /\ k # i =>
             queue[i].id < queue[k].id
    BY <2>1, FirstOfLine
  <2>5. ASSUME NEW d \in Consumers, Busy(d)', NEW q \in DOMAIN queue',
               InLine(consumer'[d].job, queue'[q])
        PROVE  consumer'[d].job.id < queue'[q].id
    <3>1. PICK n \in DOMAIN queue : n # i /\ queue'[q] = queue[n]
      BY <2>1
    <3>2. CASE d = c
      BY <2>1, <2>4, <2>5, <3>1, <3>2
    <3>3. CASE d # c
      BY <2>2, <2>5, <3>1, <3>3 DEF LinesInTurn, Busy
    <3> QED BY <3>2, <3>3
  <2>6. ASSUME NEW d \in Consumers, NEW e \in Consumers, Busy(d)', Busy(e)',
               SameGroup(consumer'[d].job, consumer'[e].job)
        PROVE  d = e
    <3>1. SameGroup(consumer'[e].job, consumer'[d].job)
      BY <2>6 DEF SameGroup
    <3>2. CASE d # c /\ e # c
      BY <2>2, <2>6, <3>2 DEF LinesInTurn, Busy
    <3>3. CASE d = c /\ e # c
      BY <2>1, <2>2, <2>4, <2>6, <3>3 DEF Busy
    <3>4. CASE e = c /\ d # c
      BY <2>1, <2>2, <2>4, <2>6, <3>1, <3>4 DEF Busy
    <3> QED BY <3>2, <3>3, <3>4
  <2> QED BY <2>3, <2>5, <2>6 DEF LinesInTurn
<1>5. ASSUME NEW c \in Consumers, PutBack(c) PROVE LinesInTurn'
  <2>1. /\ Busy(c) /\ ~Busy(c)'
        /\ \A d \in Consumers : d # c => consumer'[d] = consumer[d]
        /\ SameJob(queue'[1], consumer[c].job)
        /\ \A k \in DOMAIN queue' :
             /\ k \in Nat
             /\ k = 1 \/ (k > 1 /\ k - 1 \in DOMAIN queue /\ queue'[k] = queue[k - 1])
    BY <1>5, PutBackFacts
  <2>2. \A q, r \in DOMAIN queue' :
          InLine(queue'[q], queue'[r]) /\ q < r => queue'[q].id < queue'[r].id
    <3> TAKE q, r \in DOMAIN queue'
    <3> HAVE InLine(queue'[q], queue'[r]) /\ q < r
    <3>1. r - 1 \in DOMAIN queue /\ queue'[r] = queue[r - 1]
      BY <2>1
    <3>2. CASE q = 1
      <4>1. InLine(consumer[c].job, queue'[r]) /\ queue'[q].id = consumer[c].job.id
        BY <2>1, <3>2, SameLines, SameJobs
      <4> QED BY <2>1, <3>1, <4>1 DEF LinesInTurn
    <3>3. CASE q # 1
      <4>1. q - 1 \in DOMAIN queue /\ queue'[q] = queue[q - 1] /\ q - 1 < r - 1
        BY <2>1, <3>3
      <4> QED BY <3>1, <4>1 DEF LinesInTurn
    <3> QED BY <3>2, <3>3
  <2>3. \A d \in Consumers : Busy(d)' => d # c /\ Busy(d) /\ consumer'[d] = consumer[d]
    BY <2>1 DEF Busy
  <2>4. ASSUME NEW d \in Consumers, Busy(d)', NEW q \in DOMAIN queue',
               InLine(consumer'[d].job, queue'[q])
        PROVE  consumer'[d].job.id < queue'[q].id
    <3>1. CASE q = 1
      <4>1. InLine(consumer[d].job, consumer[c].job)
        BY <2>1, <2>3, <2>4, <3>1, SameLines
      <4> QED BY <2>1, <2>3, <2>4, <4>1 DEF LinesInTurn, InLine
    <3>2. CASE q # 1
      BY <2>1, <2>3, <2>4, <3>2 DEF LinesInTurn
    <3> QED BY <3>1, <3>2
  <2> QED BY <2>2, <2>3, <2>4 DEF LinesInTurn
<1>6. ASSUME NEW c \in Consumers, FinishJob(c) PROVE LinesInTurn'
  <2>1. /\ ~Busy(c)' /\ queue' = queue
        /\ \A d \in Consumers : d # c => consumer'[d] = consumer[d]
    BY <1>6, FinishFacts
  <2>2. \A d \in Consumers : Busy(d)' => Busy(d) /\ consumer'[d] = consumer[d]
    BY <2>1 DEF Busy
  <2> QED BY <2>1, <2>2 DEF LinesInTurn
<1> QED BY <1>1, <1>2, <1>3, <1>4, <1>5, <1>6, Kinds

LEMMA JobsInit == Init => Jobs
<1> SUFFICES ASSUME Init PROVE Jobs
  OBVIOUS
<1>1. /\ adding = <<>> /\ stored = <<>> /\ queue = <<>>
      /\ \A c \in Consumers : ~Busy(c)
      /\ \A w \in Ids : ~(radio[w] > 0)
  BY DEF Init, Busy, Idle
<1> QED BY <1>1 DEF Jobs, JobsFormed, Numbered, JobsStored, JobsApart, JobsKept, LinesInTurn

LEMMA JobsStep == Typed /\ Jobs /\ [Next]_vars => Jobs'
BY FormedStep, NumberedStep, JobsStoredStep, JobsApartStep, JobsKeptStep, LinesInTurnStep
   DEF Jobs

LEMMA AlwaysJobs == Spec => []Jobs
<1>1. Jobs /\ Typed /\ [Next]_vars => Jobs'
  BY JobsStep
<1> QED BY <1>1, JobsInit, AlwaysTyped, PTL DEF Spec

-----------------------------------------------------------------------------
(* The order of the deliveries.                                            *)

(* Push jobs are one line.                                                 *)
LEMMA PushLine ==
  ASSUME Typed, Jobs, NEW c \in Consumers, Busy(c), IsPush(consumer[c].job)
  PROVE  /\ \A q \in DOMAIN queue : IsPush(queue[q]) => consumer[c].job.id < queue[q].id
         /\ \A d \in Consumers : Busy(d) /\ IsPush(consumer[d].job) => d = c
<1>1. /\ consumer[c].job.group = "number"
      /\ \A q \in DOMAIN queue : IsPush(queue[q]) => queue[q].group = "number"
      /\ \A d \in Consumers : Busy(d) /\ IsPush(consumer[d].job) =>
           consumer[d].job.group = "number"
  BY JobsHave DEF Jobs
<1>2. /\ \A q \in DOMAIN queue : IsPush(queue[q]) => InLine(consumer[c].job, queue[q])
      /\ \A d \in Consumers : Busy(d) /\ IsPush(consumer[d].job) =>
           SameGroup(consumer[c].job, consumer[d].job)
  BY <1>1 DEF InLine, SameGroup, IsPush
<1> QED BY <1>2 DEF Jobs, LinesInTurn

(* The push job that runs is the oldest that is stored.                    *)
LEMMA PushLeast ==
  ASSUME Typed, Jobs, NEW c \in Consumers, Busy(c), IsPush(consumer[c].job),
         NEW i \in DOMAIN stored, IsPush(stored[i])
  PROVE  consumer[c].job.id <= stored[i].id
<1>1. CASE \E q \in DOMAIN queue : queue[q].id = stored[i].id
  <2>1. PICK q \in DOMAIN queue : queue[q].id = stored[i].id
    BY <1>1
  <2>2. PICK n \in DOMAIN stored : SameJob(queue[q], stored[n])
    BY DEF Jobs, JobsStored
  <2>3. n = i
    BY <2>1, <2>2, SameJobs, Twin DEF Jobs
  <2>4. IsPush(queue[q])
    BY <2>2, <2>3, SameFormed
  <2>5. consumer[c].job.id < queue[q].id
    BY <2>4, PushLine
  <2>6. consumer[c].job.id \in Nat /\ queue[q].id \in Nat
    BY BusyThread, StoredTypes DEF Job
  <2> QED BY <2>1, <2>5, <2>6
<1>2. ASSUME NEW d \in Consumers, Busy(d), consumer[d].job.id = stored[i].id
      PROVE  consumer[c].job.id <= stored[i].id
  <2>1. PICK n \in DOMAIN stored : SameJob(consumer[d].job, stored[n])
    BY <1>2 DEF Jobs, JobsStored
  <2>2. n = i
    BY <1>2, <2>1, SameJobs, Twin DEF Jobs
  <2>3. d = c
    BY <1>2, <2>1, <2>2, SameFormed, PushLine
  <2>4. stored[i].id \in Nat
    BY StoredTypes DEF Job
  <2> QED BY <1>2, <2>3, <2>4
<1> QED BY <1>1, <1>2 DEF Jobs, JobsKept

(* Only a push job that runs makes a delivery, in its own name.            *)
LEMMA LastStep ==
  ASSUME Typed, [Next]_vars
  PROVE  \/ log'.last = log.last
         \/ \E c \in Consumers : Busy(c) /\ IsPush(consumer[c].job)
                                 /\ log'.last = consumer[c].job.id
<1>0. log \in Log
  BY DEF Typed
<1>1. ASSUME NEW c \in Consumers, PushDelivered(c) \/ PushIOException(c)
      PROVE  \/ log'.last = log.last
             \/ Busy(c) /\ IsPush(consumer[c].job) /\ log'.last = consumer[c].job.id
  BY <1>0, <1>1 DEF PushDelivered, PushIOException, Delivering, Accepted, Log, Busy, IsPush
<1>2. \A c \in Consumers : TakeJob(c) => UNCHANGED log
  BY DEF TakeJob
<1>3. \A c \in Consumers :
        (\/ BeginRun(c) \/ PushUnregistered(c) \/ PushUntrusted(c) \/ MarkAsPush(c)
         \/ MarkAsSent(c) \/ MarkExpireStarted(c) \/ SmsUndeliverable(c)
         \/ SentResult(c) \/ FinishJob(c)) => UNCHANGED log
  BY DEF BeginRun, PushUnregistered, PushUntrusted, MarkAsPush, MarkAsSent,
         MarkExpireStarted, SmsUndeliverable, SentResult, FinishJob
<1>4. \A c \in Consumers : SmsHandedOver(c) \/ CancelJob(c) => log'.last = log.last
  BY <1>0 DEF SmsHandedOver, CancelJob, Log
<1>5. \A w \in Ids : ComposeAt(w) => log'.last = log.last
  BY <1>0 DEF ComposeAt, Compose, Log
<1>6. \A w \in Ids : Resend(w) \/ DeleteMessage(w) \/ AskApproval(w)
        => log'.last = log.last
  BY <1>0 DEF Resend, DeleteMessage, AskApproval, Log
<1>7. (\E isPush \in BOOLEAN : RouteMessage(isPush)) \/ Refuse \/ Approval \/ StoreJob \/ Crash
        => log'.last = log.last
  BY <1>0 DEF RouteMessage, Refuse, Approval, MarkAsInsecure, MarkAsOutbox,
         MarkAsForcedSms, AddApprovedJob, StoreJob, Crash, Log
<1>8. \A w \in Ids, res \in Results \ {"none"} : RadioReport(w, res) => UNCHANGED log
  BY DEF RadioReport
<1>9. \A r \in Requirements : LoseRequirement(r) \/ RegainRequirement(r) => UNCHANGED log
  BY DEF LoseRequirement, RegainRequirement
<1>10. UNCHANGED vars => UNCHANGED log
  BY DEF vars
<1>11. ASSUME NEW c \in Consumers, TakeJob(c) \/ JobStep(c),
              ~(PushDelivered(c) \/ PushIOException(c))
       PROVE  log'.last = log.last
  BY <1>2, <1>3, <1>4, <1>11 DEF JobStep
<1>12. CASE \E c \in Consumers : TakeJob(c) \/ JobStep(c)
  BY <1>1, <1>11, <1>12
<1>13. CASE ~\E c \in Consumers : TakeJob(c) \/ JobStep(c)
  BY <1>5, <1>6, <1>7, <1>8, <1>9, <1>10, <1>13 DEF Next, ComposeAt
<1> QED BY <1>12, <1>13

LEMMA OldStored ==
  ASSUME Typed, [Next]_vars
  PROVE  \A k \in DOMAIN stored' :
           \/ \E n \in DOMAIN stored : stored'[k] = stored[n]
           \/ stored'[k].id = lastId + 1 /\ lastId' = lastId + 1
<1>1. CASE UNCHANGED stored
  BY <1>1
<1>2. CASE StoreJob
  <2>1. PICK j \in Job :
          /\ j.id = lastId + 1
          /\ DOMAIN stored' = 1..(Len(stored) + 1) /\ DOMAIN stored = 1..Len(stored)
          /\ \A n \in DOMAIN stored : stored'[n] = stored[n]
          /\ stored'[Len(stored) + 1] = j
          /\ Len(stored) \in Nat
    BY <1>2, StoreFacts
  <2>2. \A i \in DOMAIN stored' : i \in DOMAIN stored \/ i = Len(stored) + 1
    BY <2>1
  <2>3. lastId' = lastId + 1
    BY <1>2 DEF StoreJob
  <2> QED BY <2>1, <2>2, <2>3
<1>3. ASSUME NEW c \in Consumers, FinishJob(c)
      PROVE  \A k \in DOMAIN stored' : \E n \in DOMAIN stored : stored'[k] = stored[n]
  BY <1>3, FinishFacts
<1> QED BY <1>1, <1>2, <1>3, Kinds, SameStored

LEMMA LastBehindStep ==
  ASSUME Typed, Jobs, LastBehind, [Next]_vars
  PROVE  LastBehind' /\ log'.last >= log.last
<1>1. lastId \in Nat /\ log.last \in Nat /\ lastId' \in {lastId, lastId + 1}
  <2>1. lastId' \in {lastId, lastId + 1}
    BY Kinds DEF Steady, StoreJob, Crash, TakeJob, PutBack, FinishJob
  <2> QED BY <2>1 DEF Typed, Log
<1>2. \A c \in Consumers : Busy(c) => consumer[c].job.id \in 1..lastId
  BY JobsHave DEF Jobs
<1>3. \A i \in DOMAIN stored : stored[i].id \in 1..lastId
  BY DEF Jobs, Numbered
<1>4. \A c \in Consumers : Busy(c) /\ IsPush(consumer[c].job) =>
        log.last <= consumer[c].job.id
  BY SameFormed, SameJobs DEF LastBehind, Jobs, JobsStored
<1>5. CASE log'.last = log.last
  BY <1>1, <1>3, <1>5, OldStored DEF LastBehind
<1>6. ASSUME NEW c \in Consumers, Busy(c), IsPush(consumer[c].job),
             log'.last = consumer[c].job.id
      PROVE  LastBehind' /\ log'.last >= log.last
  <2>1. log'.last <= lastId' /\ log'.last >= log.last
    BY <1>1, <1>2, <1>4, <1>6
  <2>2. ASSUME NEW k \in DOMAIN stored', IsPush(stored'[k]) PROVE log'.last <= stored'[k].id
    <3>1. CASE \E n \in DOMAIN stored : stored'[k] = stored[n]
      BY <1>6, <2>2, <3>1, PushLeast
    <3>2. CASE stored'[k].id = lastId + 1
      BY <1>1, <1>2, <1>6, <3>2
    <3> QED BY <3>1, <3>2, OldStored
  <2> QED BY <2>1, <2>2 DEF LastBehind
<1> QED BY <1>5, <1>6, LastStep

(* The push jobs of a conversation reach the server in the order in which  *)
(* they were added: one runs at a time, the oldest first, and one that is  *)
(* put back, or restored after a crash, comes before the younger ones.     *)
THEOREM PushKeepsOrder == Spec => PushInOrder
<1>1. Init => LastBehind
  BY DEF Init, LastBehind
<1>2. LastBehind /\ Typed /\ Jobs /\ [Next]_vars => LastBehind' /\ log'.last >= log.last
  BY LastBehindStep
<1> QED BY <1>1, <1>2, AlwaysTyped, AlwaysJobs, PTL DEF Spec, PushInOrder

-----------------------------------------------------------------------------
(* The queue of jobs the JobManager stands for.                            *)
Tickets   == {Ticket(j) : j \in ToSet(stored)}
InThreads == {Ticket(j) : j \in Running}

LEMMA TicketFields ==
  /\ \A j : Ticket(j).id = j.id /\ Ticket(j).kind = j.kind /\ Ticket(j).group = j.group
  /\ \A j, k : SameJob(j, k) => Ticket(j) = Ticket(k)
BY DEF Ticket, SameJob

LEMMA TicketSets ==
  /\ \A t : t \in Tickets <=> \E i \in DOMAIN stored : t = Ticket(stored[i])
  /\ \A t : t \in InThreads <=> \E c \in Consumers : Busy(c) /\ t = Ticket(consumer[c].job)
  /\ \A t : t \in Tickets' <=> \E i \in DOMAIN stored' : t = Ticket(stored'[i])
  /\ \A t : t \in InThreads' <=>
       \E c \in Consumers : Busy(c)' /\ t = Ticket(consumer'[c].job)
BY DEF Tickets, InThreads, Running, Busy, ToSet

(* The ticket a thread holds, and no other thread holds.                   *)
LEMMA TicketOf ==
  ASSUME Typed, Jobs, NEW c \in Consumers, Busy(c)
  PROVE  /\ Ticket(consumer[c].job) \in InThreads
         /\ Ticket(consumer[c].job) \in Tickets
         /\ \A d \in Consumers : Busy(d) /\ d # c =>
              Ticket(consumer[d].job) # Ticket(consumer[c].job)
<1>1. Ticket(consumer[c].job) \in Tickets
  <2>1. PICK i \in DOMAIN stored : SameJob(consumer[c].job, stored[i])
    BY DEF Jobs, JobsStored
  <2> QED BY <2>1, TicketFields, TicketSets
<1>2. \A d \in Consumers : Busy(d) /\ d # c =>
        Ticket(consumer[d].job).id # Ticket(consumer[c].job).id
  BY TicketFields DEF Jobs, JobsApart
<1> QED BY <1>1, <1>2, TicketSets

(* When one thread lets its job go, the tickets of the others stay.        *)
LEMMA TicketGivenBack ==
  ASSUME Typed, Jobs, NEW c \in Consumers, Busy(c), ~Busy(c)',
         \A d \in Consumers : d # c => consumer'[d] = consumer[d]
  PROVE  InThreads' = InThreads \ {Ticket(consumer[c].job)}
<1>1. ASSUME NEW t \in InThreads' PROVE t \in InThreads \ {Ticket(consumer[c].job)}
  <2>1. PICK d \in Consumers : Busy(d)' /\ t = Ticket(consumer'[d].job)
    BY TicketSets
  <2>2. d # c /\ Busy(d) /\ t = Ticket(consumer[d].job)
    BY <2>1 DEF Busy
  <2> QED BY <2>2, TicketOf, TicketSets
<1>2. ASSUME NEW t \in InThreads, t # Ticket(consumer[c].job) PROVE t \in InThreads'
  <2>1. PICK d \in Consumers : Busy(d) /\ t = Ticket(consumer[d].job)
    BY TicketSets
  <2>2. Busy(d)' /\ t = Ticket(consumer'[d].job)
    BY <1>2, <2>1 DEF Busy
  <2> QED BY <2>2, TicketSets
<1> QED BY <1>1, <1>2

(* Every stored job of the line of one that waits is younger, when that    *)
(* one is the first of the queue that may run.                             *)
LEMMA OldestTicket ==
  ASSUME Typed, Jobs, NEW i \in DOMAIN queue,
         Eligible(i), \A k \in DOMAIN queue : k < i => ~Eligible(k),
         NEW n \in DOMAIN stored, InLine(queue[i], stored[n])
  PROVE  queue[i].id <= stored[n].id
<1>1. /\ \A d \in Consumers : Busy(d) => ~SameGroup(queue[i], consumer[d].job)
      /\ \A k \in DOMAIN queue : InLine(queue[i], queue[k]) /\ k # i =>
           queue[i].id < queue[k].id
  BY FirstOfLine DEF Jobs
<1>2. CASE \E q \in DOMAIN queue : queue[q].id = stored[n].id
  <2>1. PICK q \in DOMAIN queue : queue[q].id = stored[n].id
    BY <1>2
  <2>2. PICK k \in DOMAIN stored : SameJob(queue[q], stored[k])
    BY DEF Jobs, JobsStored
  <2>3. k = n
    BY <2>1, <2>2, SameJobs, Twin DEF Jobs
  <2>4. InLine(queue[i], queue[q])
    BY <2>2, <2>3, SameLines
  <2>5. queue[i].id \in Nat /\ queue[q].id \in Nat
    BY StoredTypes DEF Job
  <2> QED BY <1>1, <2>1, <2>4, <2>5
<1>3. ASSUME NEW d \in Consumers, Busy(d), consumer[d].job.id = stored[n].id PROVE FALSE
  <2>1. PICK k \in DOMAIN stored : SameJob(consumer[d].job, stored[k])
    BY <1>3 DEF Jobs, JobsStored
  <2>2. k = n
    BY <1>3, <2>1, SameJobs, Twin DEF Jobs
  <2>3. SameGroup(queue[i], consumer[d].job)
    BY <2>1, <2>2, SameLines DEF InLine
  <2> QED BY <1>1, <1>3, <2>3
<1> QED BY <1>2, <1>3 DEF Jobs, JobsKept

(* Each kind of step is one of the queue's, or changes nothing of it.      *)
LEMMA QueueStep ==
  ASSUME Typed, Jobs, [Next]_vars
  PROVE  Queue!Next \/ UNCHANGED <<Tickets, InThreads, lastId>>
<1>1. CASE Steady
  <2>1. /\ UNCHANGED <<stored, lastId>>
        /\ \A c \in Consumers : Busy(c)' <=> Busy(c)
        /\ \A c \in Consumers : Busy(c) => Ticket(consumer'[c].job) = Ticket(consumer[c].job)
    BY <1>1, TicketFields DEF Steady
  <2>2. InThreads' = InThreads
    BY <2>1, TicketSets
  <2> QED BY <2>1, <2>2 DEF Tickets
<1>2. CASE StoreJob
  <2>1. PICK j \in Job :
          /\ j.id = lastId + 1
          /\ DOMAIN stored' = 1..(Len(stored) + 1) /\ DOMAIN stored = 1..Len(stored)
          /\ \A n \in DOMAIN stored : stored'[n] = stored[n]
          /\ stored'[Len(stored) + 1] = j
          /\ Len(stored) \in Nat
    BY <1>2, StoreFacts
  <2>2. \A n : n \in DOMAIN stored' <=> n \in DOMAIN stored \/ n = Len(stored) + 1
    BY <2>1
  <2>3. Tickets' = Tickets \cup {Ticket(j)}
    BY <2>1, <2>2, TicketSets
  <2>4. lastId' = lastId + 1 /\ lastId \in Nat /\ consumer' = consumer
    BY <1>2 DEF StoreJob, Typed
  <2>5. InThreads' = InThreads
    BY <2>4 DEF InThreads, Running
  <2>6. Ticket(j).id = lastId' /\ Ticket(j).id > lastId
    BY <2>1, <2>4, TicketFields
  <2>7. Queue!Store
    BY <2>3, <2>5, <2>6 DEF Queue!Store, Tickets, InThreads
  <2> QED BY <2>7 DEF Queue!Next
<1>3. CASE Crash
  <2>1. InThreads' = {} /\ UNCHANGED <<stored, lastId>>
    BY <1>3, CrashFacts, TicketSets
  <2>2. Queue!Die
    BY <2>1 DEF Queue!Die, InThreads
  <2> QED BY <2>2 DEF Queue!Next
<1>4. ASSUME NEW c \in Consumers, TakeJob(c) PROVE Queue!Next
  <2>1. PICK i \in DOMAIN queue :
          /\ consumer'[c].job = queue[i]
          /\ Eligible(i) /\ \A k \in DOMAIN queue : k < i => ~Eligible(k)
    BY <1>4, TakeFacts
  <2>2. /\ \A d \in Consumers : d # c => consumer'[d] = consumer[d]
        /\ ~Busy(c) /\ Busy(c)' /\ UNCHANGED <<stored, lastId>>
    BY <1>4, TakeFacts
  <2> DEFINE t == Ticket(queue[i])
  <2>3. t \in Tickets
    BY TicketFields, TicketSets DEF Jobs, JobsStored
  <2>4. t \notin InThreads
    <3>1. \A d \in Consumers : Busy(d) => Ticket(consumer[d].job).id # t.id
      BY TicketFields DEF Jobs, JobsApart
    <3> QED BY <3>1, TicketSets
  <2>5. InThreads' = InThreads \cup {t}
    <3>1. \A d \in Consumers : d # c => (Busy(d)' <=> Busy(d))
      BY <2>2 DEF Busy
    <3> QED BY <2>1, <2>2, <3>1, TicketSets
  <2>6. \A k \in InThreads : t.group = "none" \/ t.group # k.group
    <3>1. \A d \in Consumers : Busy(d) => ~SameGroup(queue[i], consumer[d].job)
      BY <2>1, FirstOfLine DEF Jobs
    <3>2. \A d \in Consumers : Busy(d) =>
            t.group = "none" \/ t.group # Ticket(consumer[d].job).group
      BY <3>1, TicketFields DEF SameGroup
    <3> QED BY <3>2, TicketSets
  <2>7. \A k \in Tickets : Queue!SameLine(t, k) => t.id <= k.id
    <3> SUFFICES ASSUME NEW n \in DOMAIN stored, Queue!SameLine(t, Ticket(stored[n]))
                 PROVE  t.id <= Ticket(stored[n]).id
      BY TicketSets
    <3>1. InLine(queue[i], stored[n])
      BY TicketFields DEF Queue!SameLine, InLine, SameGroup
    <3> QED BY <2>1, <3>1, OldestTicket, TicketFields
  <2>8. Tickets' = Tickets
    BY <2>2 DEF Tickets
  <2> HIDE DEF t
  <2>9. Queue!Begin
    BY <2>2, <2>3, <2>4, <2>5, <2>6, <2>7, <2>8 DEF Queue!Begin, Tickets, InThreads
  <2> QED BY <2>9 DEF Queue!Next
<1>5. ASSUME NEW c \in Consumers, PutBack(c) PROVE Queue!Next
  <2>1. InThreads' = InThreads \ {Ticket(consumer[c].job)}
    BY <1>5, PutBackFacts, TicketGivenBack
  <2>2. Ticket(consumer[c].job) \in InThreads
    BY <1>5, PutBackFacts, TicketOf
  <2>3. UNCHANGED <<stored, lastId>>
    BY <1>5, PutBackFacts
  <2>4. Queue!PutBack
    BY <2>1, <2>2, <2>3 DEF Queue!PutBack, InThreads
  <2> QED BY <2>4 DEF Queue!Next
<1>6. ASSUME NEW c \in Consumers, FinishJob(c) PROVE Queue!Next
  <2> DEFINE t == Ticket(consumer[c].job)
  <2>1. Busy(c) /\ ~Busy(c)' /\ lastId' = lastId
    BY <1>6, FinishFacts
  <2>2. t \in InThreads /\ InThreads' = InThreads \ {t}
    BY <1>6, <2>1, FinishFacts, TicketOf, TicketGivenBack
  <2>3. PICK i \in DOMAIN stored :
          /\ stored[i].id = consumer[c].job.id
          /\ \A n \in DOMAIN stored : n # i =>
               \E k \in DOMAIN stored' : stored'[k] = stored[n]
          /\ \A k \in DOMAIN stored' :
               \E n \in DOMAIN stored : n # i /\ stored'[k] = stored[n]
    BY <1>6, FinishFacts
  <2>4. t = Ticket(stored[i])
    <3>1. PICK n \in DOMAIN stored : SameJob(consumer[c].job, stored[n])
      BY <2>1 DEF Jobs, JobsStored
    <3>2. n = i
      BY <2>3, <3>1, SameJobs, Twin DEF Jobs
    <3> QED BY <3>1, <3>2, TicketFields
  <2>5. \A n \in DOMAIN stored : n # i => Ticket(stored[n]) # t
    <3>1. \A n \in DOMAIN stored : n # i => stored[n].id # stored[i].id
      BY Twin DEF Jobs
    <3>2. \A n \in DOMAIN stored : n # i => Ticket(stored[n]).id # Ticket(stored[i]).id
      BY <3>1, TicketFields
    <3> QED BY <2>4, <3>2
  <2> HIDE DEF t
  <2>6. Tickets' = Tickets \ {t}
    BY <2>3, <2>4, <2>5, TicketSets
  <2>7. Queue!Finish
    BY <2>1, <2>2, <2>6 DEF Queue!Finish, Tickets, InThreads
  <2> QED BY <2>7 DEF Queue!Next
<1> QED BY <1>1, <1>2, <1>3, <1>4, <1>5, <1>6, Kinds

(* The JobManager is a queue of jobs: none is forgotten before it is over  *)
(* or runs after it, one of a group runs at a time, and each line is       *)
(* served in order, over retries, deferrals, cancellations and crashes.    *)
THEOREM SendIsJobQueue == Spec => ImplementsJobQueue
<1>1. Init => Queue!Init
  <2> SUFFICES ASSUME Init PROVE Tickets = {} /\ InThreads = {} /\ lastId = 0
    BY DEF Queue!Init, Tickets, InThreads
  <2>1. stored = <<>> /\ lastId = 0 /\ \A c \in Consumers : ~Busy(c)
    BY DEF Init, Busy, Idle
  <2> QED BY <2>1, TicketSets
<1>2. Typed /\ Jobs /\ [Next]_vars
        => [Queue!Next]_<<{Ticket(j) : j \in ToSet(stored)}, {Ticket(j) : j \in Running}, lastId>>
  BY QueueStep DEF Tickets, InThreads
<1> QED BY <1>1, <1>2, AlwaysTyped, AlwaysJobs, PTL
        DEF Spec, ImplementsJobQueue, Queue!Spec

-----------------------------------------------------------------------------
(* Who is in charge.                                                       *)

LEMMA StoredKept ==
  ASSUME Typed, [Next]_vars, NEW n \in DOMAIN stored
  PROVE  \/ \E k \in DOMAIN stored' : stored'[k] = stored[n]
         \/ \E c \in Consumers : consumer[c].pc = "done" /\ consumer[c].job.id = stored[n].id
<1>1. CASE UNCHANGED stored
  BY <1>1
<1>2. CASE StoreJob
  <2>1. /\ DOMAIN stored' = 1..(Len(stored) + 1) /\ DOMAIN stored = 1..Len(stored)
        /\ \A k \in DOMAIN stored : stored'[k] = stored[k]
        /\ Len(stored) \in Nat
    BY <1>2, StoreFacts
  <2>2. n \in DOMAIN stored'
    BY <2>1
  <2> QED BY <2>1, <2>2
<1>3. ASSUME NEW c \in Consumers, FinishJob(c)
      PROVE  \/ \E k \in DOMAIN stored' : stored'[k] = stored[n]
             \/ consumer[c].pc = "done" /\ consumer[c].job.id = stored[n].id
  <2>1. PICK i \in DOMAIN stored :
          /\ stored[i].id = consumer[c].job.id
          /\ \A l \in DOMAIN stored : l # i => \E k \in DOMAIN stored' : stored'[k] = stored[l]
    BY <1>3, FinishFacts
  <2>2. consumer[c].pc = "done"
    BY <1>3 DEF FinishJob
  <2> QED BY <2>1, <2>2
<1> QED BY <1>1, <1>2, <1>3, Kinds, SameStored

LEMMA ThreadStep ==
  ASSUME Typed, [Next]_vars, NEW d \in Consumers, Busy(d)'
  PROVE  \/ Busy(d) /\ SameJob(consumer'[d].job, consumer[d].job)
         \/ consumer'[d].pc = "run"
<1>1. CASE Steady
  BY <1>1 DEF Steady
<1>2. CASE StoreJob
  BY <1>2, SameJobs DEF StoreJob, Busy
<1>3. CASE Crash
  BY <1>3, CrashFacts
<1>4. ASSUME NEW c \in Consumers, TakeJob(c)
      PROVE  \/ Busy(d) /\ SameJob(consumer'[d].job, consumer[d].job)
             \/ consumer'[d].pc = "run"
  <2>1. \A e \in Consumers : e # c => consumer'[e] = consumer[e]
    BY <1>4, TakeFacts
  <2>2. consumer'[c].pc = "run"
    BY <1>4 DEF TakeJob, Typed
  <2> QED BY <2>1, <2>2, SameJobs DEF Busy
<1>5. ASSUME NEW c \in Consumers, PutBack(c) \/ FinishJob(c)
      PROVE  Busy(d) /\ SameJob(consumer'[d].job, consumer[d].job)
  <2>1. ~Busy(c)' /\ \A e \in Consumers : e # c => consumer'[e] = consumer[e]
    BY <1>5, FinishFacts, PutBackFacts
  <2> QED BY <2>1, SameJobs DEF Busy
<1> QED BY <1>1, <1>2, <1>3, <1>4, <1>5, Kinds

(* A stored job goes on counting as long as no thread reaches one of pcs   *)
(* with a job of its message.                                              *)
LEMMA SettlingKept ==
  ASSUME Typed, Jobs, [Next]_vars, NEW w, NEW pcs, "done" \in pcs,
         "run" \notin pcs, "idle" \notin pcs,
         Settling(w, pcs),
         \A d \in Consumers : consumer'[d].pc \in pcs /\ consumer[d].job.row = w /\ Busy(d)
                                => consumer[d].pc \in pcs
  PROVE  Settling(w, pcs)'
<1>1. PICK i \in DOMAIN stored : stored[i].row = w /\ stored[i].id \notin IdsAt(pcs)
  BY DEF Settling
<1>2. PICK k \in DOMAIN stored' : stored'[k] = stored[i]
  BY <1>1, StoredKept DEF IdsAt
<1>3. ASSUME NEW d \in Consumers, consumer'[d].pc \in pcs, consumer'[d].job.id = stored[i].id
      PROVE  FALSE
  <2>1. Busy(d)' /\ consumer'[d].pc # "run"
    BY <1>3 DEF Busy
  <2>2. Busy(d) /\ SameJob(consumer'[d].job, consumer[d].job)
    BY <2>1, ThreadStep
  <2>3. PICK n \in DOMAIN stored : SameJob(consumer[d].job, stored[n])
    BY <2>2 DEF Jobs, JobsStored
  <2>4. n = i /\ consumer[d].job.id = stored[i].id
    BY <1>3, <2>2, <2>3, SameJobs, Twin DEF Jobs
  <2>5. consumer[d].job.row = w
    BY <1>1, <2>3, <2>4 DEF SameJob
  <2>6. consumer[d].pc \in pcs
    BY <1>3, <2>2, <2>5
  <2> QED BY <1>1, <2>4, <2>6 DEF IdsAt
<1>4. stored[i].id \notin IdsAt(pcs)'
  BY <1>3 DEF IdsAt
<1> QED BY <1>1, <1>2, <1>4 DEF Settling

(* How a row changes: it keeps its message, and its base type but for the  *)
(* cases here; it goes; or a message is composed under its id.             *)
BaseStep(w) ==
  \/ /\ row'[w].m = row[w].m
     /\ row[w].secure => row'[w].secure \/ (MarkAsInsecure /\ approver.row = w)
     /\ \/ row'[w].base = row[w].base /\ (row[w].started => row'[w].started)
        \/ row'[w].base \in {"failed", "fallback"}
        \/ row'[w].base = "outbox" /\ approver'.pc = "forced" /\ approver'.row = w
        \/ /\ row'[w].base = "sent"
           /\ \E c \in Consumers : (MarkAsSent(c) \/ SentResult(c)) /\ consumer[c].job.row = w
  \/ row'[w] = NoRow /\ DeleteMessage(w)
  \/ ComposeAt(w)

LEMMA RowKept ==
  ASSUME row' = row, NEW w
  PROVE  BaseStep(w)
BY DEF BaseStep

LEMMA RowStep ==
  ASSUME Typed, [Next]_vars, NEW w \in Ids
  PROVE  BaseStep(w)
<1>1. ASSUME NEW n \in Ids, ComposeAt(n) PROVE BaseStep(w)
  <2>1. CASE n = w
    BY <1>1, <2>1 DEF BaseStep
  <2>2. CASE n # w
    <3>1. row'[w] = row[w]
      BY <1>1, <2>2 DEF ComposeAt, Compose, Typed
    <3> QED BY <3>1 DEF BaseStep
  <2> QED BY <2>1, <2>2
<1>2. ASSUME NEW n \in Ids, DeleteMessage(n) PROVE BaseStep(w)
  <2>1. row'[w] = row[w] \/ (n = w /\ row'[w] = NoRow)
    BY <1>2 DEF DeleteMessage, Typed
  <2> QED BY <1>2, <2>1 DEF BaseStep
<1>u. ASSUME NEW n, NEW base \in {"failed", "fallback"}, Update(n, [row[n] EXCEPT !.base = base])
      PROVE  BaseStep(w)
  <2>1. row'[w] = row[w] \/ (row[w] \in Row /\ row'[w] = [row[w] EXCEPT !.base = base])
    BY <1>u, WholeRow DEF Update, Typed
  <2> QED BY <2>1 DEF BaseStep, Row
<1>3. CASE Refuse
  BY <1>3, <1>u DEF Refuse
<1>4. CASE MarkAsInsecure
  <2>1. \/ row'[w] = row[w]
        \/ /\ w = approver.row /\ row[w] \in Row
           /\ row'[w] = [row[w] EXCEPT !.secure = FALSE]
    BY <1>4, WholeRow DEF MarkAsInsecure, Update, Typed
  <2> QED BY <1>4, <2>1 DEF BaseStep, Row
<1>5. CASE MarkAsOutbox
  <2>1. \/ row'[w] = row[w]
        \/ /\ w = approver.row /\ row[w] \in Row
           /\ row'[w] = [row[w] EXCEPT !.base = "outbox"]
    BY <1>5, WholeRow DEF MarkAsOutbox, Update, Typed
  <2>2. approver'.pc = "forced" /\ approver'.row = approver.row
    BY <1>5 DEF MarkAsOutbox, Typed, Idle, Thinking
  <2> QED BY <2>1, <2>2 DEF BaseStep, Row
<1>6. CASE MarkAsForcedSms
  <2>1. \/ row'[w] = row[w]
        \/ /\ row[w] \in Row
           /\ row'[w] = [row[w] EXCEPT !.forced = TRUE, !.push = FALSE]
    BY <1>6, WholeRow DEF MarkAsForcedSms, Update, Typed
  <2> QED BY <2>1 DEF BaseStep, Row
<1>7. ASSUME NEW c \in Consumers, JobStep(c) PROVE BaseStep(w)
  <2> DEFINE n == consumer[c].job.row
  <2>1. CASE FinishJob(c) \/ BeginRun(c) \/ PushDelivered(c) \/ PushIOException(c)
             \/ SmsHandedOver(c)
    BY <2>1, RowKept DEF FinishJob, BeginRun, PushDelivered, PushIOException, SmsHandedOver
  <2>2. CASE PushUnregistered(c) \/ PushUntrusted(c) \/ SmsUndeliverable(c) \/ CancelJob(c)
    <3>1. \/ row' = row
          \/ \E base \in {"failed", "fallback"} : Update(n, [row[n] EXCEPT !.base = base])
      BY <2>2 DEF PushUnregistered, PushUntrusted, SmsUndeliverable, CancelJob
    <3> QED BY <1>u, <3>1, RowKept
  <2>3. CASE MarkAsPush(c)
    <3>1. \/ row'[w] = row[w]
          \/ row[w] \in Row /\ row'[w] = [row[w] EXCEPT !.push = TRUE]
      BY <2>3, WholeRow DEF MarkAsPush, Update, Typed
    <3> QED BY <3>1 DEF BaseStep, Row
  <2>4. CASE MarkAsSent(c)
    <3>1. \/ row'[w] = row[w]
          \/ /\ w = n /\ row[w] \in Row
             /\ row'[w] = [row[w] EXCEPT !.base = "sent", !.push = TRUE, !.secure = TRUE]
      BY <2>4, WholeRow DEF MarkAsSent, Update, Typed
    <3> QED BY <2>4, <3>1 DEF BaseStep, Row
  <2>5. CASE MarkExpireStarted(c)
    <3>1. \/ row'[w] = row[w]
          \/ row[w] \in Row /\ row'[w] = [row[w] EXCEPT !.started = TRUE]
      BY <2>5, WholeRow DEF MarkExpireStarted, Update, Typed
    <3> QED BY <3>1 DEF BaseStep, Row
  <2>6. CASE SentResult(c)
    <3>1. \/ Update(n, [row[n] EXCEPT !.base = "sent"])
          \/ row' = row
          \/ Update(n, [row[n] EXCEPT !.base = "failed"])
      BY <2>6 DEF SentResult
    <3>2. CASE Update(n, [row[n] EXCEPT !.base = "sent"])
      <4>1. \/ row'[w] = row[w]
            \/ w = n /\ row[w] \in Row /\ row'[w] = [row[w] EXCEPT !.base = "sent"]
        BY <3>2, WholeRow DEF Update, Typed
      <4> QED BY <2>6, <4>1 DEF BaseStep, Row
    <3> QED BY <1>u, <3>1, <3>2, RowKept
  <2> QED BY <1>7, <2>1, <2>2, <2>3, <2>4, <2>5, <2>6 DEF JobStep
<1>8. \A n \in Ids : Resend(n) \/ AskApproval(n) => UNCHANGED row
  BY DEF Resend, AskApproval
<1>9. (\E isPush \in BOOLEAN : RouteMessage(isPush)) \/ AddApprovedJob \/ StoreJob \/ Crash
        => UNCHANGED row
  BY DEF RouteMessage, AddApprovedJob, StoreJob, Crash
<1>10. \A n \in Ids, res \in Results \ {"none"} : RadioReport(n, res) => UNCHANGED row
  BY DEF RadioReport
<1>11. \A r \in Requirements : LoseRequirement(r) \/ RegainRequirement(r) => UNCHANGED row
  BY DEF LoseRequirement, RegainRequirement
<1>12. \A c \in Consumers : TakeJob(c) => UNCHANGED row
  BY DEF TakeJob
<1>13. UNCHANGED vars => UNCHANGED row
  BY DEF vars
<1> HIDE DEF BaseStep
<1> QED BY <1>1, <1>2, <1>3, <1>4, <1>5, <1>6, <1>7, <1>8, <1>9, <1>10, <1>11, <1>12,
           <1>13, RowKept DEF Next, ComposeAt, Approval

(* What only grows: what was composed, approved, handed over and lost.     *)
LEMMA LogGrows ==
  ASSUME Typed, [Next]_vars
  PROVE  /\ log.composed \subseteq log'.composed /\ log.secure \subseteq log'.secure
         /\ log.heirs \subseteq log'.heirs /\ log.clear \subseteq log'.clear
         /\ log.approved \subseteq log'.approved /\ log.mistaken \subseteq log'.mistaken
         /\ log.lost \subseteq log'.lost
         /\ \/ log'.composed = log.composed /\ log'.secure = log.secure /\ log'.heirs = log.heirs
            \/ \E w \in Ids : ComposeAt(w)
         /\ \/ log'.clear = log.clear
            \/ \E c \in Consumers :
                 SmsHandedOver(c) /\ log'.clear = log.clear \cup {consumer[c].m}
         /\ \/ log'.copies = log.copies
            \/ \E c \in Consumers :
                 /\ Delivering(c, "push")
                 /\ PushDelivered(c) \/ PushIOException(c)
                 /\ log'.copies = [log.copies EXCEPT ![consumer[c].m] = @ + 1]
<1>0. log \in Log
  BY DEF Typed
<1>1. ASSUME NEW w \in Ids, ComposeAt(w)
      PROVE  /\ log.composed \subseteq log'.composed /\ log.secure \subseteq log'.secure
             /\ log.heirs \subseteq log'.heirs
             /\ UNCHANGED <<log.clear, log.approved, log.mistaken, log.lost, log.copies>>
  <2>1. PICK m \in Messages, secure, force \in BOOLEAN : Compose(m, w, secure, force)
    BY <1>1 DEF ComposeAt
  <2>2. log' = [log EXCEPT !.composed = @ \cup {m},
                           !.secure = IF secure THEN @ \cup {m} ELSE @,
                           !.heirs = IF Named(w) THEN @ \cup {m} ELSE @]
    BY <2>1 DEF Compose
  <2> QED BY <1>0, <2>2 DEF Log
<1> DEFINE Grows == /\ log.approved \subseteq log'.approved /\ log.mistaken \subseteq log'.mistaken
                    /\ log.lost \subseteq log'.lost
                    /\ log'.composed = log.composed /\ log'.secure = log.secure
                    /\ log'.heirs = log.heirs /\ log'.clear = log.clear
                    /\ log'.copies = log.copies
<1>2. log' = log => Grows
  OBVIOUS
<1>3. MarkAsInsecure => Grows
  BY <1>0 DEF MarkAsInsecure, Log
<1>4. Crash => Grows
  BY <1>0 DEF Crash, Log
<1>5. \A c \in Consumers : CancelJob(c) => Grows
  BY <1>0 DEF CancelJob, Log
<1>6. ASSUME NEW c \in Consumers, SmsHandedOver(c)
      PROVE  /\ log'.clear = log.clear \cup {consumer[c].m}
             /\ UNCHANGED <<log.composed, log.secure, log.heirs, log.approved, log.mistaken,
                            log.lost, log.copies>>
  BY <1>0, <1>6 DEF SmsHandedOver, Log
<1>7. ASSUME NEW c \in Consumers, PushDelivered(c) \/ PushIOException(c)
      PROVE  /\ Delivering(c, "push")
             /\ UNCHANGED <<log.composed, log.secure, log.heirs, log.approved, log.mistaken,
                            log.lost, log.clear>>
             /\ \/ log'.copies = log.copies
                \/ log'.copies = [log.copies EXCEPT ![consumer[c].m] = @ + 1]
  <2>1. Delivering(c, "push")
    BY <1>7 DEF PushDelivered, PushIOException
  <2>2. CASE log' = log
    BY <2>1, <2>2
  <2>3. CASE log' # log
    <3>1. log' = Accepted(c) \/ log' = [Accepted(c) EXCEPT !.lostAcks = @ + 1]
      BY <1>7, <2>3 DEF PushDelivered, PushIOException
    <3> QED BY <1>0, <2>1, <3>1 DEF Accepted, Log
  <2> QED BY <2>2, <2>3
<1>8. \A w \in Ids : Resend(w) \/ DeleteMessage(w) \/ AskApproval(w) => log' = log
  BY DEF Resend, DeleteMessage, AskApproval
<1>9. (\E isPush \in BOOLEAN : RouteMessage(isPush)) \/ Refuse \/ MarkAsOutbox
      \/ MarkAsForcedSms \/ AddApprovedJob \/ StoreJob => log' = log
  BY DEF RouteMessage, Refuse, MarkAsOutbox, MarkAsForcedSms, AddApprovedJob, StoreJob
<1>10. \A w \in Ids, res \in Results \ {"none"} : RadioReport(w, res) => log' = log
  BY DEF RadioReport
<1>11. \A r \in Requirements : LoseRequirement(r) \/ RegainRequirement(r) => log' = log
  BY DEF LoseRequirement, RegainRequirement
<1>12. \A c \in Consumers :
        (\/ TakeJob(c) \/ BeginRun(c) \/ PushUnregistered(c) \/ PushUntrusted(c)
         \/ MarkAsPush(c) \/ MarkAsSent(c) \/ MarkExpireStarted(c)
         \/ SmsUndeliverable(c) \/ SentResult(c) \/ FinishJob(c)) => log' = log
  BY DEF TakeJob, BeginRun, PushUnregistered, PushUntrusted, MarkAsPush, MarkAsSent,
         MarkExpireStarted, SmsUndeliverable, SentResult, FinishJob
<1>13. UNCHANGED vars => log' = log
  BY DEF vars
<1>14. CASE Grows
  BY <1>14
<1>15. CASE \E w \in Ids : ComposeAt(w)
  BY <1>1, <1>15
<1>16. ASSUME NEW c \in Consumers, SmsHandedOver(c) \/ PushDelivered(c) \/ PushIOException(c)
       PROVE  /\ UNCHANGED <<log.composed, log.secure, log.heirs, log.approved, log.mistaken,
                             log.lost>>
              /\ log.clear \subseteq log'.clear
              /\ \/ log'.clear = log.clear
                 \/ SmsHandedOver(c) /\ log'.clear = log.clear \cup {consumer[c].m}
              /\ \/ log'.copies = log.copies
                 \/ /\ Delivering(c, "push")
                    /\ PushDelivered(c) \/ PushIOException(c)
                    /\ log'.copies = [log.copies EXCEPT ![consumer[c].m] = @ + 1]
  BY <1>6, <1>7, <1>16
<1>17. CASE \E c \in Consumers : SmsHandedOver(c) \/ PushDelivered(c) \/ PushIOException(c)
  <2>1. PICK c \in Consumers : SmsHandedOver(c) \/ PushDelivered(c) \/ PushIOException(c)
    BY <1>17
  <2> QED BY <1>16, <2>1
<1>18. CASE ~(\E w \in Ids : ComposeAt(w))
            /\ ~(\E c \in Consumers : SmsHandedOver(c) \/ PushDelivered(c) \/ PushIOException(c))
  <2>1. Grows
    <3> HIDE DEF Grows
    <3> QED BY <1>2, <1>3, <1>4, <1>5, <1>8, <1>9, <1>10, <1>11, <1>12, <1>13, <1>18
            DEF Next, ComposeAt, Approval, JobStep
  <2> QED BY <1>14, <2>1
<1> QED BY <1>15, <1>17, <1>18

LEMMA OtherThreads ==
  ASSUME Typed, NEW c \in Consumers, JobStep(c), NEW d \in Consumers, d # c
  PROVE  consumer'[d] = consumer[d]
<1>1. ASSUME NEW pc, Goto(c, pc) PROVE consumer'[d] = consumer[d]
  BY <1>1 DEF Goto, Typed
<1>2. ASSUME RetryLater(c) PROVE consumer'[d] = consumer[d]
  BY <1>2 DEF RetryLater, Typed
<1>3. BeginRun(c) => consumer'[d] = consumer[d]
  BY <1>1, <1>2 DEF BeginRun, Typed
<1>4. FinishJob(c) => consumer'[d] = consumer[d]
  BY DEF FinishJob, Typed
<1>5. PushIOException(c) => consumer'[d] = consumer[d]
  BY <1>2 DEF PushIOException
<1>6. (\/ PushDelivered(c) \/ PushUnregistered(c) \/ PushUntrusted(c) \/ MarkAsPush(c)
       \/ MarkAsSent(c) \/ MarkExpireStarted(c) \/ SmsHandedOver(c)
       \/ SmsUndeliverable(c) \/ SentResult(c) \/ CancelJob(c)) => consumer'[d] = consumer[d]
  BY <1>1 DEF PushDelivered, PushUnregistered, PushUntrusted, MarkAsPush, MarkAsSent,
              MarkExpireStarted, SmsHandedOver, SmsUndeliverable, SentResult, CancelJob
<1> QED BY <1>3, <1>4, <1>5, <1>6 DEF JobStep

(* A thread that has a job moves by a step of that job, but for a crash.   *)
LEMMA Mover ==
  ASSUME Typed, [Next]_vars, NEW c \in Consumers, Busy(c), consumer'[c] # consumer[c]
  PROVE  JobStep(c) \/ Crash
<1>1. \A w \in Ids : ComposeAt(w) => consumer' = consumer
  BY DEF ComposeAt, Compose
<1>2. \A w \in Ids : Resend(w) \/ DeleteMessage(w) \/ AskApproval(w)
        => consumer' = consumer
  BY DEF Resend, DeleteMessage, AskApproval
<1>3. (\E isPush \in BOOLEAN : RouteMessage(isPush)) \/ Refuse \/ Approval \/ StoreJob
        => consumer' = consumer
  BY DEF RouteMessage, Refuse, Approval, MarkAsInsecure, MarkAsOutbox, MarkAsForcedSms,
         AddApprovedJob, StoreJob
<1>4. \A w \in Ids, res \in Results \ {"none"} : RadioReport(w, res)
        => consumer' = consumer
  BY DEF RadioReport
<1>5. \A r \in Requirements : LoseRequirement(r) \/ RegainRequirement(r)
        => consumer' = consumer
  BY DEF LoseRequirement, RegainRequirement
<1>6. UNCHANGED vars => consumer' = consumer
  BY DEF vars
<1>7. \A d \in Consumers : TakeJob(d) => consumer'[c] = consumer[c]
  BY TakeFacts
<1>8. CASE \E d \in Consumers : JobStep(d)
  BY <1>8, OtherThreads
<1> QED BY <1>1, <1>2, <1>3, <1>4, <1>5, <1>6, <1>7, <1>8 DEF Next, ComposeAt

LEMMA GotoPc ==
  ASSUME Typed, NEW c \in Consumers, Busy(c), NEW pc, Goto(c, pc)
  PROVE  consumer'[c].pc = pc
BY BusyThread DEF Goto, Typed

LEMMA RetryPc ==
  ASSUME Typed, NEW c \in Consumers, Busy(c), RetryLater(c)
  PROVE  consumer'[c].pc \in {"idle", "run", "cancel"}
<1> DEFINE j == [consumer[c].job EXCEPT !.iter = @ + 1]
           pc == IF j.iter < Retries(j) THEN "run" ELSE "cancel"
<1>1. \/ consumer' = [consumer EXCEPT ![c] = Idle]
      \/ consumer' = [consumer EXCEPT ![c].job = j, ![c].pc = pc]
  BY DEF RetryLater
<1>2. pc \in {"run", "cancel"}
  OBVIOUS
<1> HIDE DEF j, pc
<1> QED BY <1>1, <1>2, BusyThread DEF Typed, Idle

-----------------------------------------------------------------------------
(* Messages and rows.  A message is composed once, so it is found in one   *)
(* row, and a thread holds it only for the id of that row.                 *)
Known ==
  /\ log.secure \subseteq log.composed
  /\ log.clear \subseteq log.composed
  /\ \A m \in Messages : log.copies[m] > 0 => m \in log.composed
  /\ \A w \in Ids : Present(w) => row[w].m \in log.composed
  /\ \A c \in Consumers : consumer[c].pc \in Seeing => consumer[c].m \in log.composed

RowsApart == \A w, n \in Ids : Present(w) /\ row[w].m = row[n].m => w = n

Home ==
  \A c \in Consumers, w \in Ids :
    consumer[c].pc \in Seeing /\ consumer[c].m = row[w].m => consumer[c].job.row = w

Placed == Known /\ RowsApart /\ Home

(* Messages composed as secure that nobody agreed to send in clear.        *)
Guarded == log.secure \ (log.approved \cup log.mistaken)

SecureRows == \A w \in Ids : row[w].m \in Guarded => row[w].secure

(* A thread that is delivering has not seen a guarded message insecure.    *)
Snapshots ==
  \A c \in Consumers :
    consumer[c].pc = "deliver" /\ ~consumer[c].secure => consumer[c].m \notin Guarded

ClearInv == SecureRows /\ Snapshots /\ ClearOnlyIfChosen

LEMMA ComposeFacts ==
  ASSUME Typed, NEW w \in Ids, ComposeAt(w)
  PROVE  \E m \in Messages, secure \in BOOLEAN :
           /\ m \notin log.composed /\ ~Present(w)
           /\ row'[w].m = m /\ row'[w].secure = secure /\ row'[w].base = "sending"
           /\ \A n \in Ids : n # w => row'[n] = row[n]
           /\ log'.composed = log.composed \cup {m}
           /\ log'.secure = IF secure THEN log.secure \cup {m} ELSE log.secure
           /\ log'.heirs = IF Named(w) THEN log.heirs \cup {m} ELSE log.heirs
           /\ log'.clear = log.clear /\ log'.copies = log.copies
           /\ sender'.pc = "route" /\ sender'.row = w
           /\ UNCHANGED <<adding, stored, queue, consumer, lastId, radio, used>>
<1>1. PICK m \in Messages, secure, force \in BOOLEAN : Compose(m, w, secure, force)
  BY DEF ComposeAt
<1>2. /\ log \in Log /\ row \in [Ids -> Row \cup {NoRow}]
      /\ w \in w..MaxRows /\ w \in Nat
  BY BoundsAssumption DEF Typed, Ids
<1>3. log' = [log EXCEPT !.composed = @ \cup {m},
                         !.secure = IF secure THEN @ \cup {m} ELSE @,
                         !.heirs = IF Named(w) THEN @ \cup {m} ELSE @]
  BY <1>1 DEF Compose
<1>4. /\ log'.composed = log.composed \cup {m}
      /\ log'.secure = IF secure THEN log.secure \cup {m} ELSE log.secure
      /\ log'.heirs = IF Named(w) THEN log.heirs \cup {m} ELSE log.heirs
      /\ log'.clear = log.clear /\ log'.copies = log.copies
  BY <1>2, <1>3 DEF Log
<1>5. /\ m \notin log.composed /\ ~Present(w)
      /\ row' = [row EXCEPT ![w] = [m |-> m, base |-> "sending", secure |-> secure,
                                    push |-> secure, forced |-> force, started |-> FALSE]]
      /\ sender'.pc = "route" /\ sender'.row = w
      /\ UNCHANGED <<adding, stored, queue, consumer, lastId, radio, used>>
  BY <1>1, <1>2 DEF Compose
<1>6. /\ row'[w].m = m /\ row'[w].secure = secure /\ row'[w].base = "sending"
      /\ \A n \in Ids : n # w => row'[n] = row[n]
  BY <1>2, <1>5
<1> HIDE DEF Named
<1> QED BY <1>4, <1>5, <1>6

LEMMA FreshRow ==
  ASSUME Typed, NEW w \in Ids, ComposeAt(w)
  PROVE  /\ row'[w].m \in Messages \ log.composed
         /\ log'.composed = log.composed \cup {row'[w].m}
         /\ log'.secure \subseteq log.secure \cup {row'[w].m}
         /\ \A n \in Ids : n # w => row'[n] = row[n]
<1>1. PICK m \in Messages, secure, force \in BOOLEAN : Compose(m, w, secure, force)
  BY DEF ComposeAt
<1>2. /\ m \notin log.composed /\ row'[w].m = m
      /\ \A n \in Ids : n # w => row'[n] = row[n]
  BY <1>1 DEF Compose, Typed
<1>3. /\ log'.composed = log.composed \cup {m}
      /\ log'.secure = IF secure THEN log.secure \cup {m} ELSE log.secure
  BY <1>1 DEF Compose, Typed, Log
<1> QED BY <1>2, <1>3

(* A thread holds what it read when its run began.                         *)
LEMMA SeeingStep ==
  ASSUME Typed, [Next]_vars, NEW c \in Consumers, consumer'[c].pc \in Seeing
  PROVE  \/ /\ consumer[c].pc \in Seeing
            /\ consumer'[c].job = consumer[c].job
            /\ consumer'[c].m = consumer[c].m
            /\ consumer'[c].pc = "deliver" => consumer'[c] = consumer[c]
         \/ LET w == consumer[c].job.row IN
            /\ BeginRun(c) /\ Present(w) /\ row' = row /\ log' = log
            /\ consumer'[c].pc = "deliver" /\ consumer'[c].job = consumer[c].job
            /\ consumer'[c].secure = row[w].secure /\ consumer'[c].m = row[w].m
<1>0. consumer'[c].pc \notin {"idle", "run", "cancel", "done"}
  BY DEF Seeing
<1>1. CASE consumer'[c] = consumer[c]
  BY <1>1
<1>2. CASE consumer'[c] # consumer[c]
  <2>1. Busy(c)
    BY <1>0, ThreadStep DEF Busy
  <2>2. JobStep(c)
    <3>1. ~Crash
      BY <1>0, CrashFacts DEF Busy
    <3> QED BY <1>2, <2>1, <3>1, Mover
  <2>3. ~RetryLater(c) /\ \A pc : Goto(c, pc) => consumer'[c].pc = pc
    BY <1>0, <2>1, RetryPc, GotoPc
  <2>4. ASSUME NEW pc \in {"marksent", "markpush", "expire"}, Goto(c, pc),
               consumer[c].pc \in {"deliver", "marksent"}
        PROVE  /\ consumer[c].pc \in Seeing /\ consumer'[c].pc # "deliver"
               /\ consumer'[c].job = consumer[c].job /\ consumer'[c].m = consumer[c].m
    BY <2>1, <2>4, BusyThread DEF Goto, Typed, Seeing
  <2>5. CASE BeginRun(c)
    <3> DEFINE w == consumer[c].job.row
    <3>1. /\ Present(w) /\ row' = row /\ log' = log
          /\ consumer' = [consumer EXCEPT ![c].pc = "deliver",
                                          ![c].secure = row[w].secure,
                                          ![c].m = row[w].m]
      BY <1>0, <2>3, <2>5 DEF BeginRun
    <3> QED BY <2>1, <2>5, <3>1, BusyThread DEF Typed
  <2>6. CASE PushDelivered(c) \/ PushUntrusted(c) \/ MarkAsSent(c)
    <3>1. /\ consumer[c].pc \in {"deliver", "marksent"}
          /\ \E pc \in {"marksent", "markpush", "expire", "done"} : Goto(c, pc)
      BY <2>6 DEF PushDelivered, PushUntrusted, MarkAsSent, Delivering
    <3> QED BY <1>0, <2>3, <2>4, <3>1
  <2>7. CASE \/ PushUnregistered(c) \/ MarkAsPush(c) \/ MarkExpireStarted(c)
             \/ SmsHandedOver(c) \/ SmsUndeliverable(c) \/ SentResult(c) \/ CancelJob(c)
             \/ PushIOException(c)
    BY <1>0, <2>3, <2>7 DEF PushUnregistered, MarkAsPush, MarkExpireStarted, SmsHandedOver,
       SmsUndeliverable, SentResult, CancelJob, PushIOException
  <2>8. ~FinishJob(c)
    BY <1>0, FinishFacts DEF Busy
  <2> QED BY <2>2, <2>5, <2>6, <2>7, <2>8 DEF JobStep
<1> QED BY <1>1, <1>2

LEMMA PlacedStep ==
  ASSUME Typed, Placed, [Next]_vars
  PROVE  Placed'
<1>0. Typed'
  BY TypedStep
<1>1. \A w \in Ids : /\ Present(w) <=> row[w].m \in Messages
                     /\ Present(w)' <=> row'[w].m \in Messages
                     /\ ~Present(w) <=> row[w].m = NoMessage
                     /\ NoRow.m \notin Messages
  <2>1. row' \in [Ids -> Row \cup {NoRow}]
    BY <1>0 DEF Typed
  <2>2. \A w \in Ids : Present(w)' <=> row'[w].m \in Messages
    BY <2>1, NoMessageAssumption DEF Present, NoRow, Row, BaseTypes
  <2> QED BY <2>2, WholeRow, NoMessageAssumption DEF NoRow
<1>2. \A c \in Consumers : consumer[c].pc \in Seeing => consumer[c].m \in Messages
  BY BusyThread DEF Busy, Seeing
<1>3. log.composed \subseteq log'.composed
  BY LogGrows
<1>4. Known'
  <2>1. log'.secure \subseteq log'.composed
    <3>1. CASE log'.composed = log.composed /\ log'.secure = log.secure
      BY <3>1 DEF Placed, Known
    <3>2. ASSUME NEW w \in Ids, ComposeAt(w) PROVE log'.secure \subseteq log'.composed
      BY <3>2, FreshRow DEF Placed, Known
    <3> QED BY <3>1, <3>2, LogGrows
  <2>2. log'.clear \subseteq log'.composed
    BY <1>3, LogGrows DEF Placed, Known, SmsHandedOver, Delivering, Seeing
  <2>3. ASSUME NEW m \in Messages, log'.copies[m] > 0 PROVE m \in log'.composed
    <3>1. CASE log'.copies = log.copies
      BY <1>3, <2>3, <3>1 DEF Placed, Known
    <3>2. ASSUME NEW c \in Consumers, Delivering(c, "push"),
                 log'.copies = [log.copies EXCEPT ![consumer[c].m] = @ + 1]
          PROVE  m \in log'.composed
      <4>1. consumer[c].m \in log.composed
        BY <3>2 DEF Placed, Known, Delivering, Seeing
      <4>2. m = consumer[c].m \/ log'.copies[m] = log.copies[m]
        BY <3>2 DEF Typed, Log
      <4> QED BY <1>3, <2>3, <4>1, <4>2 DEF Placed, Known
    <3> QED BY <3>1, <3>2, LogGrows
  <2>4. ASSUME NEW w \in Ids, Present(w)' PROVE row'[w].m \in log'.composed
    <3>1. CASE row'[w].m = row[w].m
      BY <1>1, <1>3, <2>4, <3>1 DEF Placed, Known
    <3>2. CASE ComposeAt(w)
      BY <3>2, ComposeFacts
    <3> QED BY <1>1, <2>4, <3>1, <3>2, RowStep DEF BaseStep
  <2>5. ASSUME NEW c \in Consumers, consumer'[c].pc \in Seeing
        PROVE  consumer'[c].m \in log'.composed
    <3>1. CASE consumer[c].pc \in Seeing /\ consumer'[c].m = consumer[c].m
      BY <1>3, <3>1 DEF Placed, Known
    <3>2. CASE /\ BeginRun(c) /\ Present(consumer[c].job.row)
               /\ consumer'[c].m = row[consumer[c].job.row].m
      <4>1. consumer[c].job.row \in Ids
        BY <3>2, BusyThread DEF BeginRun, Busy
      <4> QED BY <1>3, <3>2, <4>1 DEF Placed, Known
    <3> QED BY <2>5, <3>1, <3>2, SeeingStep
  <2> QED BY <2>1, <2>2, <2>3, <2>4, <2>5 DEF Known
<1>5. RowsApart'
  <2> SUFFICES ASSUME NEW w \in Ids, NEW n \in Ids, Present(w)', row'[w].m = row'[n].m, w # n
               PROVE  FALSE
    BY DEF RowsApart
  <2>1. row'[w].m \in Messages
    BY <1>1
  <2>2. CASE row'[w].m = row[w].m /\ row'[n].m = row[n].m
    BY <1>1, <2>1, <2>2 DEF Placed, RowsApart
  <2>3. ASSUME NEW a \in Ids, NEW b \in Ids, a # b, ComposeAt(a), row'[a].m = row'[b].m
        PROVE  FALSE
    <3>1. /\ row'[a].m \in Messages /\ row'[a].m \notin log.composed
          /\ row'[b] = row[b]
      BY <2>3, FreshRow
    <3> QED BY <1>1, <2>3, <3>1 DEF Placed, Known
  <2>4. /\ row'[w].m = row[w].m \/ ComposeAt(w)
        /\ row'[n].m = row[n].m \/ ComposeAt(n)
    BY <1>1, <2>1, RowStep DEF BaseStep
  <2> QED BY <2>2, <2>3, <2>4
<1>6. Home'
  <2> SUFFICES ASSUME NEW c \in Consumers, NEW w \in Ids, consumer'[c].pc \in Seeing,
                      consumer'[c].m = row'[w].m
               PROVE  consumer'[c].job.row = w
    BY DEF Home
  <2>1. CASE /\ consumer[c].pc \in Seeing
             /\ consumer'[c].job = consumer[c].job
             /\ consumer'[c].m = consumer[c].m
    <3>1. row'[w].m \in log.composed /\ row'[w].m \in Messages
      BY <1>2, <2>1 DEF Placed, Known
    <3>2. ~ComposeAt(w)
      BY <3>1, ComposeFacts
    <3>3. row'[w].m = row[w].m
      BY <1>1, <3>1, <3>2, RowStep DEF BaseStep
    <3> QED BY <2>1, <3>3 DEF Placed, Home
  <2>2. CASE LET n == consumer[c].job.row IN
             /\ BeginRun(c) /\ Present(n) /\ row' = row
             /\ consumer'[c].job = consumer[c].job /\ consumer'[c].m = row[n].m
    <3>1. consumer[c].job.row \in Ids
      BY <2>2, BusyThread DEF BeginRun, Busy
    <3> QED BY <2>2, <3>1 DEF Placed, RowsApart
  <2> QED BY <2>1, <2>2, SeeingStep
<1> QED BY <1>4, <1>5, <1>6 DEF Placed

LEMMA AlwaysPlaced == Spec => []Placed
<1>1. Init => Placed
  BY DEF Init, Placed, Known, RowsApart, Home, Present, NoRow, Idle, Seeing
<1>2. Placed /\ Typed /\ [Next]_vars => Placed'
  BY PlacedStep
<1> QED BY <1>1, <1>2, AlwaysTyped, PTL DEF Spec

(* What was composed before becomes guarded no more.                       *)
LEMMA GuardedStep ==
  ASSUME Typed, Placed, [Next]_vars, NEW m \in log.composed, m \in Guarded'
  PROVE  m \in Guarded
<1>1. m \in log.secure
  <2>1. CASE \E w \in Ids : ComposeAt(w)
    <3>1. PICK n \in Messages : /\ n \notin log.composed
                               /\ log'.secure \subseteq log.secure \cup {n}
      BY <2>1, ComposeFacts
    <3> QED BY <3>1 DEF Guarded
  <2> QED BY <2>1, LogGrows DEF Guarded
<1> QED BY <1>1, LogGrows DEF Guarded

LEMMA ClearStep ==
  ASSUME Typed, Placed, ClearInv, [Next]_vars
  PROVE  ClearInv'
<1>1. SecureRows'
  <2> SUFFICES ASSUME NEW w \in Ids, row'[w].m \in Guarded' PROVE row'[w].secure
    BY DEF SecureRows
  <2>1. row'[w].m \in Messages
    <3>1. log' \in Log
      BY TypedStep DEF Typed
    <3> QED BY <3>1 DEF Log, Guarded
  <2>2. CASE ComposeAt(w)
    <3>1. PICK m \in Messages, secure \in BOOLEAN :
            /\ m \notin log.composed /\ ~Present(w)
            /\ row'[w].m = m /\ row'[w].secure = secure /\ row'[w].base = "sending"
            /\ \A n \in Ids : n # w => row'[n] = row[n]
            /\ log'.composed = log.composed \cup {m}
            /\ log'.secure = IF secure THEN log.secure \cup {m} ELSE log.secure
            /\ log'.heirs = IF Named(w) THEN log.heirs \cup {m} ELSE log.heirs
            /\ log'.clear = log.clear /\ log'.copies = log.copies
            /\ sender'.pc = "route" /\ sender'.row = w
            /\ UNCHANGED <<adding, stored, queue, consumer, lastId, radio, used>>
      BY <2>2, ComposeFacts
    <3>2. m \in log'.secure
      BY <3>1 DEF Guarded
    <3>3. m \notin log.secure
      BY <3>1 DEF Placed, Known
    <3> QED BY <3>1, <3>2, <3>3
  <2>3. CASE /\ row'[w].m = row[w].m
             /\ row[w].secure => row'[w].secure \/ (MarkAsInsecure /\ approver.row = w)
    <3>1. row[w].m \in log.composed
      BY <2>1, <2>3, WholeRow DEF Placed, Known
    <3>2. row[w].secure
      BY <2>3, <3>1, GuardedStep DEF ClearInv, SecureRows
    <3>3. CASE MarkAsInsecure /\ approver.row = w
      <4>1. /\ log'.approved = log.approved \cup {approver.m}
            /\ log'.mistaken = log.mistaken \cup ({row[w].m} \ {approver.m, NoMessage})
        BY <3>3 DEF MarkAsInsecure, Typed, Log
      <4>2. row[w].m # NoMessage
        BY <2>1, <2>3, NoMessageAssumption
      <4> QED BY <2>3, <4>1, <4>2 DEF Guarded
    <3> QED BY <2>3, <3>2, <3>3
  <2>4. row'[w] # NoRow
    BY <2>1, NoMessageAssumption DEF NoRow
  <2> QED BY <2>2, <2>3, <2>4, RowStep DEF BaseStep
<1>2. Snapshots'
  <2> SUFFICES ASSUME NEW c \in Consumers, consumer'[c].pc = "deliver", ~consumer'[c].secure,
                      consumer'[c].m \in Guarded'
               PROVE  FALSE
    BY DEF Snapshots
  <2>0. consumer'[c].pc \in Seeing
    BY DEF Seeing
  <2>1. CASE consumer'[c] = consumer[c]
    <3>1. consumer[c].m \in log.composed
      BY <2>0, <2>1 DEF Placed, Known
    <3> QED BY <2>1, <3>1, GuardedStep DEF ClearInv, Snapshots
  <2>2. CASE LET w == consumer[c].job.row IN
             /\ BeginRun(c) /\ log' = log
             /\ consumer'[c].secure = row[w].secure /\ consumer'[c].m = row[w].m
    <3>1. consumer[c].job.row \in Ids
      BY <2>2, BusyThread DEF BeginRun, Busy
    <3> QED BY <2>2, <3>1 DEF ClearInv, SecureRows, Guarded
  <2> QED BY <2>0, <2>1, <2>2, SeeingStep
<1>3. ClearOnlyIfChosen'
  <2> SUFFICES ASSUME NEW m \in log'.clear, m \in log'.secure,
                      m \notin log'.approved, m \notin log'.mistaken
               PROVE  FALSE
    BY DEF ClearOnlyIfChosen
  <2>1. m \in Guarded'
    BY DEF Guarded
  <2>2. CASE m \in log.clear
    <3>1. m \in Guarded
      BY <2>1, <2>2, GuardedStep DEF Placed, Known
    <3> QED BY <2>2, <3>1 DEF ClearInv, ClearOnlyIfChosen, Guarded
  <2>3. ASSUME NEW c \in Consumers, SmsHandedOver(c), m = consumer[c].m PROVE FALSE
    <3>1. consumer[c].pc = "deliver" /\ ~consumer[c].secure
      BY <2>3 DEF SmsHandedOver, Delivering
    <3>2. m \in log.composed
      BY <2>3, <3>1 DEF Placed, Known, Seeing
    <3> QED BY <2>1, <2>3, <3>1, <3>2, GuardedStep DEF ClearInv, Snapshots
  <2> QED BY <2>2, <2>3, LogGrows
<1> QED BY <1>1, <1>2, <1>3 DEF ClearInv

(* No message composed as secure is handed to the radio unless the user    *)
(* approved it, or approved another under whose id it stands, for any      *)
(* number of messages, ids, threads, retries, resends, outages and deaths  *)
(* of the process: the check in SmsSendJob.deliver is enough, since        *)
(* nothing but the user's approval clears a row's secure flag and a thread *)
(* holds the row it checked.                                               *)
THEOREM NeverClearUnasked == Spec => []ClearOnlyIfChosen
<1>1. Init => ClearInv
  BY DEF Init, ClearInv, SecureRows, Snapshots, ClearOnlyIfChosen, Guarded, Idle
<1>2. ClearInv /\ Placed /\ Typed /\ [Next]_vars => ClearInv'
  BY ClearStep
<1>3. ClearInv => ClearOnlyIfChosen
  BY DEF ClearInv
<1> QED BY <1>1, <1>2, <1>3, AlwaysTyped, AlwaysPlaced, PTL DEF Spec

-----------------------------------------------------------------------------
(* A row in hand stays in hand until its job is stored, or is lost.        *)
LEMMA HandStep ==
  ASSUME Typed, [Next]_vars, NEW w \in InHand
  PROVE  \/ w \in InHand'
         \/ row'[w].m \in log'.lost \cup {NoMessage}
         \/ StoreJob /\ w = adding[1].row
<1>0. adding \in Seq(Job) /\ log \in Log
  BY DEF Typed
<1>1. ASSUME UNCHANGED <<adding, sender, approver>> PROVE w \in InHand'
  BY <1>1 DEF InHand
<1>2. ASSUME NEW j \in Job, adding' = Append(adding, j)
      PROVE  /\ \A i \in DOMAIN adding : i \in DOMAIN adding' /\ adding'[i] = adding[i]
             /\ j.row \in InHand'
  <2>1. /\ DOMAIN adding' = 1..(Len(adding) + 1) /\ DOMAIN adding = 1..Len(adding)
        /\ Len(adding) \in Nat
        /\ \A n \in DOMAIN adding : adding'[n] = adding[n]
        /\ adding'[Len(adding) + 1] = j
    BY <1>0, <1>2, AppendFacts
  <2>2. /\ \A i \in DOMAIN adding : i \in DOMAIN adding'
        /\ Len(adding) + 1 \in DOMAIN adding'
    BY <2>1
  <2> QED BY <2>1, <2>2 DEF InHand
<1>3. ASSUME NEW j \in Job, adding' = Append(adding, j), UNCHANGED <<sender, approver>>
      PROVE  w \in InHand'
  BY <1>2, <1>3 DEF InHand
<1>4. ASSUME NEW n \in Ids, ComposeAt(n)
      PROVE  w \in InHand'
  BY <1>4 DEF ComposeAt, Compose, InHand
<1>5. ASSUME NEW n \in Ids, Resend(n) \/ AskApproval(n)
      PROVE  w \in InHand'
  BY <1>5 DEF Resend, AskApproval, InHand, Typed, Idle, Thinking
<1>6. ASSUME NEW isPush \in BOOLEAN, RouteMessage(isPush) PROVE w \in InHand'
  <2>1. sender.row \in Ids
    BY <1>6 DEF RouteMessage, Typed, Idle
  <2>2. PICK j \in Job : adding' = Append(adding, j) /\ j.row = sender.row
    BY <1>6, <2>1, JobTypes DEF RouteMessage, PushJob, SmsJob
  <2>3. approver' = approver
    BY <1>6 DEF RouteMessage
  <2> QED BY <1>2, <2>2, <2>3 DEF InHand
<1>7. ASSUME Refuse \/ MarkAsInsecure \/ MarkAsOutbox \/ MarkAsForcedSms PROVE w \in InHand'
  BY <1>7 DEF Refuse, MarkAsInsecure, MarkAsOutbox, MarkAsForcedSms, InHand, Typed, Idle,
              Thinking
<1>8. ASSUME AddApprovedJob PROVE w \in InHand'
  <2>1. approver.row \in Ids
    BY <1>8 DEF AddApprovedJob, Typed, Idle, Thinking
  <2>2. PICK j \in Job : adding' = Append(adding, j) /\ j.row = approver.row
    BY <1>8, <2>1, JobTypes DEF AddApprovedJob, SmsJob
  <2>3. sender' = sender
    BY <1>8 DEF AddApprovedJob
  <2> QED BY <1>2, <2>2, <2>3 DEF InHand
<1>9. ASSUME StoreJob PROVE w \in InHand' \/ w = adding[1].row
  <2>1. adding # <<>> /\ adding' = Tail(adding) /\ UNCHANGED <<sender, approver>>
    BY <1>9 DEF StoreJob
  <2>2. ASSUME NEW i \in DOMAIN adding, i # 1
        PROVE  i - 1 \in DOMAIN adding' /\ adding'[i - 1] = adding[i]
    BY <1>0, <2>1, <2>2
  <2> QED BY <2>1, <2>2 DEF InHand
<1>10. ASSUME NEW n \in Ids, NEW res \in Results \ {"none"}, RadioReport(n, res)
       PROVE  w \in InHand'
  <2>1. SentJob(n, res) \in Job
    BY JobTypes
  <2> QED BY <1>3, <1>10, <2>1 DEF RadioReport
<1>11. ASSUME NEW c \in Consumers, SentResult(c) PROVE w \in InHand'
  <2>1. SmsJob(consumer[c].job.row, "number") \in Job
    BY <1>11, BusyThread, JobTypes DEF SentResult, Delivering, Busy
  <2> QED BY <1>1, <1>3, <1>11, <2>1 DEF SentResult
<1>12. CASE Crash
  <2>1. /\ log' = [log EXCEPT !.lost = @ \cup ({row[i].m : i \in InHand} \ {NoMessage})]
        /\ row' = row
    BY <1>12 DEF Crash
  <2>2. log'.lost = log.lost \cup ({row[i].m : i \in InHand} \ {NoMessage})
    BY <1>0, <2>1 DEF Log
  <2>3. row[w].m \in {row[i].m : i \in InHand}
    OBVIOUS
  <2> HIDE DEF InHand
  <2> QED BY <2>1, <2>2, <2>3
<1>13. \A c \in Consumers :
         (\/ TakeJob(c) \/ BeginRun(c) \/ PushUnregistered(c) \/ PushUntrusted(c)
          \/ MarkAsPush(c) \/ MarkAsSent(c) \/ MarkExpireStarted(c)
          \/ SmsUndeliverable(c) \/ FinishJob(c) \/ PushDelivered(c)
          \/ PushIOException(c) \/ SmsHandedOver(c) \/ CancelJob(c))
           => UNCHANGED <<adding, sender, approver>>
  BY DEF TakeJob, BeginRun, PushUnregistered, PushUntrusted, MarkAsPush, MarkAsSent,
         MarkExpireStarted, SmsUndeliverable, FinishJob, PushDelivered, PushIOException,
         SmsHandedOver, CancelJob
<1>14. \A n \in Ids : DeleteMessage(n) => UNCHANGED <<adding, sender, approver>>
  BY DEF DeleteMessage
<1>15. \A r \in Requirements : LoseRequirement(r) \/ RegainRequirement(r)
         => UNCHANGED <<adding, sender, approver>>
  BY DEF LoseRequirement, RegainRequirement
<1>16. UNCHANGED vars => UNCHANGED <<adding, sender, approver>>
  BY DEF vars
<1>17. ASSUME NEW c \in Consumers, TakeJob(c) \/ JobStep(c) PROVE w \in InHand'
  BY <1>1, <1>11, <1>13, <1>17 DEF JobStep
<1> QED BY <1>1, <1>4, <1>5, <1>6, <1>7, <1>8, <1>9, <1>10, <1>12, <1>14, <1>15, <1>16,
           <1>17 DEF Next, ComposeAt, Approval

(* What the radio has reported of a message makes a job for it.            *)
LEMMA RadioStep ==
  ASSUME Typed, [Next]_vars, NEW w \in Ids, radio[w] > 0
  PROVE  radio'[w] > 0 \/ w \in InHand'
<1>0. radio \in [Ids -> Nat] /\ adding \in Seq(Job) /\ Parts \in Nat
  BY PartsAssumption DEF Typed
<1>1. CASE radio' = radio
  BY <1>1
<1>2. ASSUME NEW c \in Consumers, SmsHandedOver(c) PROVE radio'[w] > 0
  BY <1>0, <1>2 DEF SmsHandedOver
<1>3. ASSUME NEW n \in Ids, NEW res \in Results \ {"none"}, RadioReport(n, res)
      PROVE  radio'[w] > 0 \/ w \in InHand'
  <2>1. CASE n # w
    BY <1>0, <1>3, <2>1 DEF RadioReport
  <2>2. CASE n = w
    <3>1. PICK j : j = SentJob(w, res)
      OBVIOUS
    <3>2. adding' = Append(adding, j) /\ j.row = w
      BY <1>3, <2>2, <3>1 DEF RadioReport, SentJob
    <3>3. /\ DOMAIN adding' = 1..(Len(adding) + 1) /\ Len(adding) \in Nat
          /\ adding'[Len(adding) + 1] = j
      BY <1>0, <3>2, AppendFacts
    <3>4. Len(adding) + 1 \in DOMAIN adding'
      BY <3>3
    <3> QED BY <3>2, <3>3, <3>4 DEF InHand
  <2> QED BY <2>1, <2>2
<1>4. \A n \in Ids : ComposeAt(n)
        => UNCHANGED radio
  BY DEF ComposeAt, Compose
<1>5. \A n \in Ids : Resend(n) \/ DeleteMessage(n) \/ AskApproval(n) => UNCHANGED radio
  BY DEF Resend, DeleteMessage, AskApproval
<1>6. (\E isPush \in BOOLEAN : RouteMessage(isPush)) \/ Refuse \/ Approval \/ StoreJob \/ Crash
        => UNCHANGED radio
  BY DEF RouteMessage, Refuse, Approval, MarkAsInsecure, MarkAsOutbox, MarkAsForcedSms,
         AddApprovedJob, StoreJob, Crash
<1>7. \A r \in Requirements : LoseRequirement(r) \/ RegainRequirement(r) => UNCHANGED radio
  BY DEF LoseRequirement, RegainRequirement
<1>8. \A c \in Consumers :
        (\/ TakeJob(c) \/ BeginRun(c) \/ PushUnregistered(c) \/ PushUntrusted(c)
         \/ MarkAsPush(c) \/ MarkAsSent(c) \/ MarkExpireStarted(c)
         \/ SmsUndeliverable(c) \/ FinishJob(c) \/ PushDelivered(c)
         \/ PushIOException(c) \/ SentResult(c) \/ CancelJob(c)) => UNCHANGED radio
  BY DEF TakeJob, BeginRun, PushUnregistered, PushUntrusted, MarkAsPush, MarkAsSent,
         MarkExpireStarted, SmsUndeliverable, FinishJob, PushDelivered, PushIOException,
         SentResult, CancelJob
<1>9. UNCHANGED vars => UNCHANGED radio
  BY DEF vars
<1>10. ASSUME NEW c \in Consumers, TakeJob(c) \/ JobStep(c)
       PROVE  radio'[w] > 0 \/ w \in InHand'
  BY <1>1, <1>2, <1>8, <1>10 DEF JobStep
<1> QED BY <1>1, <1>3, <1>4, <1>5, <1>6, <1>7, <1>9, <1>10 DEF Next, ComposeAt

LEMMA UpdatedBase ==
  ASSUME Typed, NEW w \in Ids, NEW base, Update(w, [row[w] EXCEPT !.base = base])
  PROVE  row'[w].base \in {"none", base}
BY WholeRow DEF Typed, Update, Present, Row

(* What a job has done to its row when it makes its last update: the row   *)
(* is settled, or another has taken charge of it.                          *)
Settled(c) ==
  LET w == consumer[c].job.row IN
  \/ row'[w].base \in {"none", "failed", "fallback"}
  \/ w \in InHand' /\ consumer[c].job.kind = "sent"
  \/ consumer[c].job.kind = "sent" /\ (row'[w].base = "sent" \/ row'[w].m \in log'.lost)
  \/ radio'[w] > 0 /\ consumer[c].m \in log'.clear /\ consumer[c].pc \in Seeing
  \/ consumer[c].pc = "markpush"
  \/ consumer[c].pc = "expire" /\ (row'[w].base = "none" \/ row'[w].started)
  \/ row'[w].base = "sent" /\ consumer[c].pc \in Seeing
     /\ (consumer[c].m \in Expiring => consumer'[c].pc = "expire")

LEMMA EndsSettled ==
  ASSUME Typed, NEW c \in Consumers, JobStep(c),
         consumer'[c].pc \in {"markpush", "expire", "done"}
  PROVE  Settled(c)
<1>0. Busy(c)
  BY DEF JobStep, BeginRun, PushDelivered, PushIOException, PushUnregistered, PushUntrusted,
         MarkAsPush, MarkAsSent, MarkExpireStarted, SmsHandedOver, SmsUndeliverable,
         SentResult, CancelJob, FinishJob, Delivering, Busy
<1> DEFINE w == consumer[c].job.row
<1>1. w \in Ids /\ radio[w] \in Nat /\ consumer[c].job \in Job
  BY <1>0, BusyThread DEF Typed
<1>2. /\ radio \in [Ids -> Nat] /\ log \in Log /\ Parts \in Nat \ {0}
      /\ adding \in Seq(Job)
  BY PartsAssumption DEF Typed
<1>3. CASE BeginRun(c)
  <2>1. \A pc : Goto(c, pc) => consumer'[c].pc = pc
    BY <1>0, GotoPc
  <2>2. ~RetryLater(c)
    BY <1>0, RetryPc
  <2>3. ~(consumer' = [consumer EXCEPT ![c].pc = "deliver", ![c].secure = row[w].secure,
                                       ![c].m = row[w].m])
    BY <1>0, BusyThread DEF Typed
  <2>4. ~Goto(c, "cancel")
    BY <2>1
  <2>5. row' = row /\ ~Present(w)
    BY <1>3, <2>2, <2>3, <2>4 DEF BeginRun
  <2> QED BY <2>5 DEF Settled, Present
<1>4. CASE PushDelivered(c)
  BY <1>0, <1>4, GotoPc DEF PushDelivered
<1>5. CASE PushIOException(c)
  BY <1>0, <1>5, RetryPc DEF PushIOException
<1>6. CASE PushUnregistered(c) \/ PushUntrusted(c) \/ SmsUndeliverable(c)
  <2>1. \E base \in {"failed", "fallback"} : Update(w, [row[w] EXCEPT !.base = base])
    BY <1>6 DEF PushUnregistered, PushUntrusted, SmsUndeliverable
  <2> HIDE DEF w
  <2>2. row'[w].base \in {"none", "failed", "fallback"}
    BY <1>1, <2>1, UpdatedBase
  <2> QED BY <2>2 DEF Settled, w
<1>7. CASE MarkAsPush(c)
  BY <1>7 DEF MarkAsPush, Settled
<1>8. CASE MarkAsSent(c)
  <2>1. /\ Update(w, [row[w] EXCEPT !.base = "sent", !.push = TRUE, !.secure = TRUE])
        /\ Goto(c, IF consumer[c].m \in Expiring THEN "expire" ELSE "done")
        /\ consumer[c].pc \in Seeing
    BY <1>8 DEF MarkAsSent, Seeing
  <2>2. consumer[c].m \in Expiring => consumer'[c].pc = "expire"
    BY <1>0, <2>1, GotoPc
  <2> HIDE DEF w
  <2>3. row'[w].base \in {"none", "sent"}
    BY <1>1, <2>1, WholeRow DEF Update, Present, Typed, Row
  <2> QED BY <2>1, <2>2, <2>3 DEF Settled, w
<1>9. CASE MarkExpireStarted(c)
  <2>1. Update(w, [row[w] EXCEPT !.started = TRUE]) /\ consumer[c].pc = "expire"
    BY <1>9 DEF MarkExpireStarted
  <2> HIDE DEF w
  <2>2. row'[w].base = "none" \/ row'[w].started
    BY <1>1, <2>1, WholeRow DEF Update, Present, Typed, Row
  <2> QED BY <2>1, <2>2 DEF Settled, w
<1>10. CASE SmsHandedOver(c)
  <2>1. /\ radio' = [radio EXCEPT ![w] = @ + Parts]
        /\ log' = [log EXCEPT !.clear = @ \cup {consumer[c].m}]
        /\ consumer[c].pc \in Seeing
    BY <1>10 DEF SmsHandedOver, Delivering, Seeing
  <2> HIDE DEF w
  <2>2. radio'[w] > 0 /\ consumer[c].m \in log'.clear
    BY <1>1, <1>2, <2>1 DEF Log
  <2> QED BY <2>1, <2>2 DEF Settled, w
<1>11. CASE SentResult(c)
  <2>1. /\ consumer[c].job.kind = "sent"
        /\ \/ Update(w, [row[w] EXCEPT !.base = "sent"])
           \/ adding' = Append(adding, SmsJob(w, "number"))
           \/ Update(w, [row[w] EXCEPT !.base = "failed"])
    BY <1>11 DEF SentResult, Delivering
  <2> HIDE DEF w
  <2>2. CASE adding' = Append(adding, SmsJob(w, "number"))
    <3>1. PICK j : j = SmsJob(w, "number")
      OBVIOUS
    <3>2. j.row = w /\ adding' = Append(adding, j)
      BY <2>2, <3>1 DEF SmsJob
    <3>3. /\ DOMAIN adding' = 1..(Len(adding) + 1) /\ Len(adding) \in Nat
          /\ adding'[Len(adding) + 1] = j
      BY <1>2, <3>2, AppendFacts
    <3>4. Len(adding) + 1 \in DOMAIN adding'
      BY <3>3
    <3>5. w \in InHand'
      BY <3>2, <3>3, <3>4 DEF InHand
    <3> QED BY <2>1, <3>5 DEF Settled, w
  <2>3. CASE \E base \in {"sent", "failed"} : Update(w, [row[w] EXCEPT !.base = base])
    <3>1. row'[w].base \in {"none", "sent", "failed"}
      BY <1>1, <2>3, UpdatedBase
    <3> QED BY <2>1, <3>1 DEF Settled, w
  <2> QED BY <2>1, <2>2, <2>3
<1>12. CASE CancelJob(c)
  <2>1. \/ /\ consumer[c].job.kind = "sent" /\ row' = row
           /\ log' = [log EXCEPT !.lost = @ \cup ({row[w].m} \ {NoMessage})]
        \/ Update(w, [row[w] EXCEPT !.base = "failed"])
    BY <1>12 DEF CancelJob
  <2> HIDE DEF w
  <2>2. CASE /\ consumer[c].job.kind = "sent" /\ row' = row
             /\ log' = [log EXCEPT !.lost = @ \cup ({row[w].m} \ {NoMessage})]
    <3>1. row'[w].m \in log'.lost \/ row[w].m = NoMessage
      BY <1>2, <2>2 DEF Log
    <3>2. row[w].m = NoMessage => row[w].base = "none"
      BY <1>1, WholeRow DEF Present
    <3> QED BY <2>2, <3>1, <3>2 DEF Settled, w
  <2>3. CASE Update(w, [row[w] EXCEPT !.base = "failed"])
    <3>1. row'[w].base \in {"none", "failed"}
      BY <1>1, <2>3, UpdatedBase
    <3> QED BY <3>1 DEF Settled, w
  <2> QED BY <2>1, <2>2, <2>3
<1>13. CASE FinishJob(c)
  BY <1>13, FinishFacts DEF Busy
<1> QED BY <1>3, <1>4, <1>5, <1>6, <1>7, <1>8, <1>9, <1>10, <1>11, <1>12, <1>13 DEF JobStep

LEMMA ChargedStep ==
  ASSUME Typed, Jobs, Charged, [Next]_vars
  PROVE  Charged'
<1> DEFINE pcs == {"markpush", "expire", "done"}
<1> SUFFICES ASSUME NEW w \in Ids, Pending(w)', row'[w].m \notin log'.lost
             PROVE  w \in InHand' \/ radio'[w] > 0 \/ Settling(w, pcs)'
  BY DEF Charged
<1>0. row'[w].m # NoMessage
  <2>1. row'[w] \in Row \cup {NoRow}
    BY TypedStep DEF Typed
  <2> QED BY <2>1, NoMessageAssumption DEF Pending, Row, NoRow
<1>1. CASE w \in InHand
  <2>1. CASE StoreJob /\ w = adding[1].row
    <3>1. PICK j \in Job :
            /\ j.id = lastId + 1 /\ j.row = adding[1].row
            /\ DOMAIN stored' = 1..(Len(stored) + 1)
            /\ stored'[Len(stored) + 1] = j
            /\ Len(stored) \in Nat
      BY <2>1, StoreFacts
    <3>2. Len(stored) + 1 \in DOMAIN stored'
      BY <3>1
    <3>3. consumer' = consumer
      BY <2>1 DEF StoreJob
    <3>4. \A c \in Consumers : consumer'[c].pc \in pcs => consumer'[c].job.id # lastId + 1
      BY <3>3, JobsHave DEF Jobs, Busy, Typed
    <3>5. lastId + 1 \notin IdsAt(pcs)'
      BY <3>4 DEF IdsAt
    <3> QED BY <2>1, <3>1, <3>2, <3>5 DEF Settling
  <2> QED BY <1>0, <1>1, <2>1, HandStep
<1>2. CASE w \notin InHand /\ w \notin InHand'
  <2>1. Pending(w) /\ row[w].m \notin log.lost
    <3>1. ~ComposeAt(w)
      <4>1. ComposeAt(w) => w \in InHand'
        BY ComposeFacts DEF InHand
      <4> QED BY <1>2, <4>1
    <3>2. row'[w].base = row[w].base /\ row'[w].m = row[w].m
      BY <1>2, <3>1, RowStep DEF BaseStep, Pending, InHand, NoRow
    <3> QED BY <3>2, LogGrows DEF Pending
  <2>2. radio[w] > 0 \/ Settling(w, pcs)
    BY <1>2, <2>1 DEF Charged
  <2>3. CASE radio[w] > 0
    BY <2>3, RadioStep
  <2>4. CASE Settling(w, pcs)
    <3>1. ASSUME NEW d \in Consumers, consumer'[d].pc \in pcs, consumer[d].job.row = w, Busy(d),
                 consumer[d].pc \notin pcs
          PROVE  radio'[w] > 0
      <4>1. JobStep(d)
        BY <3>1, Mover, CrashFacts DEF Busy
      <4>2. Settled(d)
        BY <3>1, <4>1, EndsSettled
      <4> QED BY <1>2, <3>1, <4>2 DEF Settled, Pending
    <3>2. CASE radio'[w] > 0
      BY <3>2
    <3>3. CASE ~(radio'[w] > 0)
      <4>1. \A d \in Consumers : consumer'[d].pc \in pcs /\ consumer[d].job.row = w /\ Busy(d)
              => consumer[d].pc \in pcs
        BY <3>1, <3>3
      <4>2. "done" \in pcs /\ "run" \notin pcs /\ "idle" \notin pcs
        OBVIOUS
      <4> HIDE DEF pcs
      <4> QED BY <2>4, <4>1, <4>2, SettlingKept
    <3> QED BY <3>2, <3>3
  <2> QED BY <2>2, <2>3, <2>4
<1> QED BY <1>1, <1>2

-----------------------------------------------------------------------------
(* A message composed under an id nothing named has it for itself: the     *)
(* threads that see its row hold it, and a radio result under the id is    *)
(* one of its own SMS.                                                     *)
SentOf(jobs, w) == \E k \in DOMAIN jobs : jobs[k].kind = "sent" /\ jobs[k].row = w

Own ==
  \A w \in Ids : Present(w) /\ row[w].m \notin log.heirs =>
    /\ \A c \in Consumers : consumer[c].pc \in Seeing /\ consumer[c].job.row = w
                              => consumer[c].m = row[w].m
    /\ SentOf(adding, w) \/ SentOf(stored, w) \/ radio[w] > 0 => row[w].m \in log.clear

LEMMA SentOfStep ==
  ASSUME Typed, [Next]_vars, NEW w \in Ids
  PROVE  /\ SentOf(adding', w) => SentOf(adding, w) \/ radio[w] > 0
         /\ SentOf(stored', w) => SentOf(stored, w) \/ SentOf(adding, w)
<1>0. adding \in Seq(Job)
  BY DEF Typed
<1>1. ASSUME SentOf(adding', w) PROVE SentOf(adding, w) \/ radio[w] > 0
  <2>1. CASE adding' = adding \/ adding' = <<>>
    BY <1>1, <2>1 DEF SentOf
  <2>2. CASE adding' = Tail(adding) /\ adding # <<>>
    BY <1>0, <1>1, <2>2, TailFacts DEF SentOf
  <2>3. ASSUME NEW j \in Job, j.kind = "sent" => radio[j.row] > 0, adding' = Append(adding, j)
        PROVE  SentOf(adding, w) \/ radio[w] > 0
    <3>1. /\ DOMAIN adding' = 1..(Len(adding) + 1) /\ DOMAIN adding = 1..Len(adding)
          /\ Len(adding) \in Nat
          /\ \A n \in DOMAIN adding : adding'[n] = adding[n]
          /\ adding'[Len(adding) + 1] = j
      BY <1>0, <2>3, AppendFacts
    <3>2. \A i \in DOMAIN adding' : i \in DOMAIN adding \/ i = Len(adding) + 1
      BY <3>1
    <3> QED BY <1>1, <2>3, <3>1, <3>2 DEF SentOf
  <2> QED BY <2>1, <2>2, <2>3, AddingStep
<1>2. ASSUME SentOf(stored', w) PROVE SentOf(stored, w) \/ SentOf(adding, w)
  <2>1. CASE UNCHANGED stored
    BY <1>2, <2>1
  <2>2. CASE StoreJob
    <3>1. PICK j \in Job :
            /\ j.kind = adding[1].kind /\ j.row = adding[1].row
            /\ 1 \in DOMAIN adding
            /\ DOMAIN stored' = 1..(Len(stored) + 1) /\ DOMAIN stored = 1..Len(stored)
            /\ \A n \in DOMAIN stored : stored'[n] = stored[n]
            /\ stored'[Len(stored) + 1] = j
            /\ Len(stored) \in Nat
      BY <2>2, StoreFacts
    <3>2. \A i \in DOMAIN stored' : i \in DOMAIN stored \/ i = Len(stored) + 1
      BY <3>1
    <3> QED BY <1>2, <3>1, <3>2 DEF SentOf
  <2>3. ASSUME NEW c \in Consumers, FinishJob(c) PROVE SentOf(stored, w)
    <3>1. \A k \in DOMAIN stored' : \E n \in DOMAIN stored : stored'[k] = stored[n]
      BY <2>3, FinishFacts
    <3> QED BY <1>2, <3>1 DEF SentOf
  <2> QED BY <2>1, <2>2, <2>3, Kinds, SameStored
<1> QED BY <1>1, <1>2

(* What is outstanding at the radio was handed over.                       *)
LEMMA RadioGrows ==
  ASSUME Typed, [Next]_vars, NEW w \in Ids, radio'[w] > 0
  PROVE  \/ radio[w] > 0
         \/ \E c \in Consumers : SmsHandedOver(c) /\ consumer[c].job.row = w
<1>0. radio \in [Ids -> Nat]
  BY DEF Typed
<1>1. CASE radio' = radio
  BY <1>1
<1>2. ASSUME NEW c \in Consumers, SmsHandedOver(c), consumer[c].job.row # w PROVE radio[w] > 0
  BY <1>0, <1>2 DEF SmsHandedOver
<1>3. ASSUME NEW n \in Ids, NEW res \in Results \ {"none"}, RadioReport(n, res)
      PROVE  radio[w] > 0
  <2>1. radio[n] > 0 /\ radio' = [radio EXCEPT ![n] = @ - 1]
    BY <1>3 DEF RadioReport
  <2>2. CASE n = w
    BY <2>1, <2>2
  <2>3. CASE n # w
    <3>1. radio'[w] = radio[w]
      BY <1>0, <2>1, <2>3
    <3> QED BY <3>1
  <2> QED BY <2>2, <2>3
<1>4. \A n \in Ids : ComposeAt(n) \/ Resend(n) \/ DeleteMessage(n) \/ AskApproval(n)
        => UNCHANGED radio
  BY DEF ComposeAt, Compose, Resend, DeleteMessage, AskApproval
<1>5. (\E isPush \in BOOLEAN : RouteMessage(isPush)) \/ Refuse \/ Approval \/ StoreJob \/ Crash
        => UNCHANGED radio
  BY DEF RouteMessage, Refuse, Approval, MarkAsInsecure, MarkAsOutbox, MarkAsForcedSms,
         AddApprovedJob, StoreJob, Crash
<1>6. \A r \in Requirements : LoseRequirement(r) \/ RegainRequirement(r) => UNCHANGED radio
  BY DEF LoseRequirement, RegainRequirement
<1>7. \A c \in Consumers :
        (\/ TakeJob(c) \/ BeginRun(c) \/ PushUnregistered(c) \/ PushUntrusted(c)
         \/ MarkAsPush(c) \/ MarkAsSent(c) \/ MarkExpireStarted(c)
         \/ SmsUndeliverable(c) \/ FinishJob(c) \/ PushDelivered(c)
         \/ PushIOException(c) \/ SentResult(c) \/ CancelJob(c)) => UNCHANGED radio
  BY DEF TakeJob, BeginRun, PushUnregistered, PushUntrusted, MarkAsPush, MarkAsSent,
         MarkExpireStarted, SmsUndeliverable, FinishJob, PushDelivered, PushIOException,
         SentResult, CancelJob
<1>8. UNCHANGED vars => UNCHANGED radio
  BY DEF vars
<1>9. ASSUME NEW c \in Consumers, TakeJob(c) \/ JobStep(c)
      PROVE  radio' = radio \/ SmsHandedOver(c)
  BY <1>7, <1>9 DEF JobStep
<1> QED BY <1>1, <1>2, <1>3, <1>4, <1>5, <1>6, <1>8, <1>9 DEF Next, ComposeAt

LEMMA ComposedRow ==
  ASSUME Typed, NEW w \in Ids, row'[w].base = "sent"
  PROVE  ~ComposeAt(w) /\ row'[w] # NoRow
<1>1. ASSUME ComposeAt(w) PROVE row'[w].base = "sending"
  BY <1>1, ComposeFacts
<1> QED BY <1>1 DEF NoRow

LEMMA OwnStep ==
  ASSUME Typed, Jobs, Own, [Next]_vars
  PROVE  Own'
<1> SUFFICES ASSUME NEW w \in Ids, Present(w)', row'[w].m \notin log'.heirs
             PROVE  /\ \A c \in Consumers : consumer'[c].pc \in Seeing /\ consumer'[c].job.row = w
                         => consumer'[c].m = row'[w].m
                    /\ SentOf(adding', w) \/ SentOf(stored', w) \/ radio'[w] > 0
                         => row'[w].m \in log'.clear
  BY DEF Own
<1>1. CASE ComposeAt(w)
  <2>1. ~Named(w) /\ UNCHANGED <<adding, stored, consumer, radio>>
    <3> HIDE DEF Named
    <3> QED BY <1>1, ComposeFacts
  <2>2. \A c \in Consumers : Busy(c) => consumer[c].job.row # w
    BY <2>1 DEF Named, Jobs, JobsStored, SameJob
  <2> QED BY <2>1, <2>2 DEF Named, SentOf, Busy, Seeing
<1>2. CASE row'[w].m = row[w].m
  <2>1. Present(w) /\ row[w].m \notin log.heirs
    <3>1. row'[w].m \in Messages
      BY WholeRow, TypedStep, NoMessageAssumption DEF Typed, Present, NoRow, Row
    <3> QED BY <1>2, <3>1, WholeRow, LogGrows
  <2>2. ASSUME NEW c \in Consumers, consumer'[c].pc \in Seeing, consumer'[c].job.row = w
        PROVE  consumer'[c].m = row'[w].m
    BY <1>2, <2>1, <2>2, SeeingStep DEF Own
  <2>3. CASE \E c \in Consumers : SmsHandedOver(c) /\ consumer[c].job.row = w
    <3>1. PICK c \in Consumers : SmsHandedOver(c) /\ consumer[c].job.row = w
      BY <2>3
    <3>2. consumer[c].m = row[w].m
      BY <2>1, <3>1 DEF Own, SmsHandedOver, Delivering, Seeing
    <3>3. consumer[c].m \in log'.clear
      BY <3>1 DEF SmsHandedOver, Typed, Log
    <3> QED BY <1>2, <2>2, <3>2, <3>3
  <2>4. CASE ~\E c \in Consumers : SmsHandedOver(c) /\ consumer[c].job.row = w
    BY <1>2, <2>1, <2>2, <2>4, SentOfStep, RadioGrows, LogGrows DEF Own
  <2> QED BY <2>3, <2>4
<1>3. ~(row'[w] = NoRow)
  BY DEF Present, NoRow
<1> QED BY <1>1, <1>2, <1>3, RowStep DEF BaseStep

LEMMA AlwaysOwn == Spec => []Own
<1>1. Init => Own
  BY DEF Init, Own, Present, NoRow
<1>2. Own /\ Typed /\ Jobs /\ [Next]_vars => Own'
  BY OwnStep
<1> QED BY <1>1, <1>2, AlwaysTyped, AlwaysJobs, PTL DEF Spec

LEMMA TimerChargedStep ==
  ASSUME Typed, Jobs, Own, TimerCharged, [Next]_vars
  PROVE  TimerCharged'
<1> DEFINE pcs == {"markpush", "done"}
<1> SUFFICES ASSUME NEW w \in Ids, row'[w].m \in Expiring \ (log'.clear \cup log'.heirs),
                    row'[w].base = "sent"
             PROVE  row'[w].started \/ Settling(w, pcs)'
  BY DEF TimerCharged
<1>0. /\ row'[w].m = row[w].m /\ row[w].m \in Expiring \ (log.clear \cup log.heirs)
      /\ Present(w) /\ row[w].m \in Messages
  <2>1. row'[w].m \in Messages
    BY ExpiringAssumption
  <2>2. row'[w] # NoRow /\ ~ComposeAt(w)
    BY ComposedRow
  <2>3. row'[w].m = row[w].m
    BY <2>2, RowStep DEF BaseStep
  <2> QED BY <2>1, <2>3, WholeRow, LogGrows
<1>1. ASSUME NEW c \in Consumers, Busy(c), consumer[c].job.row = w
      PROVE  /\ consumer[c].job.kind # "sent"
             /\ consumer[c].pc \in Seeing => consumer[c].m = row[w].m
  <2>1. PICK i \in DOMAIN stored : SameJob(consumer[c].job, stored[i])
    BY <1>1 DEF Jobs, JobsStored
  <2>2. consumer[c].job.kind = "sent" => SentOf(stored, w)
    BY <1>1, <2>1 DEF SentOf, SameJob
  <2> QED BY <1>0, <1>1, <2>2 DEF Own
<1>2. CASE row[w].base = "sent" /\ (row[w].started => row'[w].started)
  <2>1. CASE row[w].started
    BY <1>2, <2>1
  <2>2. CASE Settling(w, pcs)
    <3>1. ASSUME NEW d \in Consumers, consumer'[d].pc \in pcs, consumer[d].job.row = w, Busy(d),
                 consumer[d].pc \notin pcs
          PROVE  row'[w].started
      <4>1. JobStep(d)
        BY <3>1, Mover, CrashFacts DEF Busy
      <4>2. Settled(d)
        BY <3>1, <4>1, EndsSettled
      <4>3. /\ consumer[d].job.kind # "sent"
            /\ consumer[d].pc \in Seeing => consumer[d].m \in Expiring \ log'.clear
        BY <1>0, <1>1, <3>1
      <4> QED BY <3>1, <4>2, <4>3 DEF Settled
    <3>2. CASE row'[w].started
      BY <3>2
    <3>3. CASE ~row'[w].started
      <4>1. \A d \in Consumers : consumer'[d].pc \in pcs /\ consumer[d].job.row = w /\ Busy(d)
              => consumer[d].pc \in pcs
        BY <3>1, <3>3
      <4>2. "done" \in pcs /\ "run" \notin pcs /\ "idle" \notin pcs
        OBVIOUS
      <4> HIDE DEF pcs
      <4> QED BY <2>2, <4>1, <4>2, SettlingKept
    <3> QED BY <3>2, <3>3
  <2> QED BY <1>0, <1>2, <2>1, <2>2 DEF TimerCharged
<1>3. ASSUME NEW c \in Consumers, MarkAsSent(c) \/ SentResult(c), consumer[c].job.row = w
      PROVE  Settling(w, pcs)'
  <2>1. Busy(c)
    BY <1>3 DEF MarkAsSent, SentResult, Delivering, Busy
  <2>2. MarkAsSent(c) /\ consumer[c].pc = "marksent"
    BY <1>1, <1>3, <2>1 DEF SentResult, Delivering, MarkAsSent
  <2>3. consumer'[c].pc = "expire"
    <3>1. consumer[c].m \in Expiring
      BY <1>0, <1>1, <1>3, <2>1, <2>2 DEF Seeing
    <3> QED BY <2>1, <2>2, <3>1, GotoPc DEF MarkAsSent
  <2>4. \A d \in Consumers : d # c => consumer'[d] = consumer[d]
    BY <2>2, OtherThreads DEF JobStep
  <2>5. PICK i \in DOMAIN stored : SameJob(consumer[c].job, stored[i])
    BY <2>1 DEF Jobs, JobsStored
  <2>6. \A d \in Consumers : Busy(d) /\ consumer[d].job.id = stored[i].id => d = c
    BY <2>1, <2>5 DEF Jobs, JobsApart, SameJob
  <2>7. PICK k \in DOMAIN stored' : stored'[k] = stored[i]
    BY <2>2, <2>6, StoredKept DEF Busy
  <2>8. \A d \in Consumers : consumer'[d].pc \in pcs => consumer'[d].job.id # stored[i].id
    BY <2>3, <2>4, <2>6 DEF Busy
  <2>9. stored[i].id \notin IdsAt(pcs)'
    BY <2>8 DEF IdsAt
  <2> QED BY <1>3, <2>5, <2>7, <2>9 DEF Settling, SameJob
<1>4. BaseStep(w) /\ row'[w] # NoRow /\ ~ComposeAt(w)
  BY RowStep, ComposedRow
<1>5. \/ row[w].base = "sent" /\ (row[w].started => row'[w].started)
      \/ \E c \in Consumers : (MarkAsSent(c) \/ SentResult(c)) /\ consumer[c].job.row = w
  BY <1>4 DEF BaseStep
<1> HIDE DEF pcs
<1> QED BY <1>2, <1>3, <1>5

(* A message that shows as being sent has someone who will settle it: a    *)
(* thread or a dialog about to queue its job, a stored job that has not    *)
(* made its last update, or the radio.  The two ways out of anyone's       *)
(* charge are a crash before the job is stored and a SmsSentJob that is    *)
(* given up.                                                               *)
THEOREM NoneOrphaned == Spec => []NoOrphan
<1>1. Init => Charged
  BY DEF Init, Charged, Pending, NoRow
<1>2. Charged /\ Typed /\ Jobs /\ [Next]_vars => Charged'
  BY ChargedStep
<1>3. Charged => NoOrphan
  BY DEF Charged, NoOrphan, InCharge, Settling
<1> QED BY <1>1, <1>2, <1>3, AlwaysTyped, AlwaysJobs, PTL DEF Spec

(* The timer of a message sent over push is started or the job that will   *)
(* start it is stored, at every point a crash may fall.                    *)
THEOREM TimersOfSentRun == Spec => []SentTimerRuns
<1>1. Init => TimerCharged
  BY DEF Init, TimerCharged, NoRow
<1>2. TimerCharged /\ Typed /\ Jobs /\ Own /\ [Next]_vars => TimerCharged'
  BY TimerChargedStep
<1>3. TimerCharged => SentTimerRuns
  BY DEF TimerCharged, SentTimerRuns, Settling
<1> QED BY <1>1, <1>2, <1>3, AlwaysTyped, AlwaysJobs, AlwaysOwn, PTL DEF Spec

-----------------------------------------------------------------------------
(* The deliveries to come.                                                 *)

LEMMA TokenRanges ==
  ASSUME Typed, Jobs, NEW w
  PROVE  /\ StoredIds(w) \subseteq 1..lastId
         /\ AddingIds(w) \subseteq (lastId + 1)..(lastId + Len(adding))
         /\ Tokens(w) \subseteq 0..(lastId + Len(adding))
         /\ lastId \in Nat /\ Len(adding) \in Nat
         /\ IsFiniteSet(Tokens(w)) /\ IsFiniteSet(Due(w))
<1>1. lastId \in Nat /\ Len(adding) \in Nat /\ DOMAIN adding = 1..Len(adding)
  BY AppendFacts DEF Typed
<1>2. StoredIds(w) \subseteq 1..lastId
  BY DEF StoredIds, Jobs, Numbered
<1>3. AddingIds(w) \subseteq (lastId + 1)..(lastId + Len(adding))
  BY <1>1 DEF AddingIds
<1>4. Tokens(w) \subseteq 0..(lastId + Len(adding))
  BY <1>1, <1>2, <1>3 DEF Tokens, SenderId
<1>5. IsFiniteSet(0..(lastId + Len(adding)))
  BY <1>1, FS_Interval
<1>6. IsFiniteSet(Tokens(w))
  BY <1>4, <1>5, FS_Subset
<1>7. IsFiniteSet(Due(w))
  BY <1>6, FS_Subset DEF Due
<1> QED BY <1>1, <1>2, <1>3, <1>4, <1>6, <1>7

LEMMA AppendIds ==
  ASSUME Typed, NEW w, NEW j \in Job, adding' = Append(adding, j), lastId' = lastId
  PROVE  /\ AddingIds(w)' \subseteq AddingIds(w) \cup {lastId + Len(adding) + 1}
         /\ ~(IsPush(j) /\ j.row = w) => AddingIds(w)' \subseteq AddingIds(w)
<1>1. /\ DOMAIN adding' = 1..(Len(adding) + 1) /\ DOMAIN adding = 1..Len(adding)
      /\ Len(adding) \in Nat /\ lastId \in Nat
      /\ \A n \in DOMAIN adding : adding'[n] = adding[n]
      /\ adding'[Len(adding) + 1] = j
  BY AppendFacts DEF Typed
<1>2. /\ \A i \in DOMAIN adding' : i \in DOMAIN adding \/ i = Len(adding) + 1
      /\ lastId + (Len(adding) + 1) = lastId + Len(adding) + 1
  BY <1>1
<1>3. ASSUME NEW t \in AddingIds(w)'
      PROVE  \/ t \in AddingIds(w)
             \/ IsPush(j) /\ j.row = w /\ t = lastId + Len(adding) + 1
  <2>1. PICK i \in DOMAIN adding' :
          IsPush(adding'[i]) /\ adding'[i].row = w /\ t = lastId + i
    BY <1>3 DEF AddingIds
  <2> QED BY <1>1, <1>2, <2>1 DEF AddingIds
<1> QED BY <1>3

LEMMA SameTokens ==
  ASSUME UNCHANGED <<stored, adding, lastId, sender>>, NEW w
  PROVE  Tokens(w)' = Tokens(w)
BY DEF Tokens, StoredIds, AddingIds, SenderId, IsPush

LEMMA FewerStored ==
  ASSUME NEW w, \A k \in DOMAIN stored' : \E n \in DOMAIN stored : stored'[k] = stored[n]
  PROVE  StoredIds(w)' \subseteq StoredIds(w)
BY DEF StoredIds, IsPush

LEMMA TokensStep ==
  ASSUME Typed, Jobs, [Next]_vars, NEW w \in Ids
  PROVE  \/ Tokens(w)' \subseteq Tokens(w)
         \/ /\ ComposeAt(w)
            /\ Tokens(w)' \subseteq Tokens(w) \cup {0}
         \/ Resend(w) /\ Tokens(w)' \subseteq Tokens(w) \cup {0}
         \/ /\ \E isPush \in BOOLEAN : RouteMessage(isPush)
            /\ 0 \in Tokens(w)
            /\ Tokens(w)' \subseteq (Tokens(w) \ {0}) \cup {lastId + Len(adding) + 1}
<1>1. ASSUME NEW n \in Ids, ComposeAt(n)
      PROVE  Tokens(w)' \subseteq Tokens(w) \cup (IF n = w THEN {0} ELSE {})
  <2>1. UNCHANGED <<stored, adding, lastId>> /\ sender'.row = n
    BY <1>1 DEF ComposeAt, Compose
  <2>2. StoredIds(w)' = StoredIds(w) /\ AddingIds(w)' = AddingIds(w)
    BY <2>1 DEF StoredIds, AddingIds, IsPush
  <2>3. SenderId(w)' \subseteq (IF n = w THEN {0} ELSE {})
    BY <2>1 DEF SenderId
  <2> QED BY <2>2, <2>3 DEF Tokens
<1>2. ASSUME NEW n \in Ids, Resend(n)
      PROVE  Tokens(w)' \subseteq Tokens(w) \cup (IF n = w THEN {0} ELSE {})
  <2>1. UNCHANGED <<stored, adding, lastId>> /\ sender'.row = n
    BY <1>2 DEF Resend
  <2>2. StoredIds(w)' = StoredIds(w) /\ AddingIds(w)' = AddingIds(w)
    BY <2>1 DEF StoredIds, AddingIds, IsPush
  <2>3. SenderId(w)' \subseteq (IF n = w THEN {0} ELSE {})
    BY <2>1 DEF SenderId
  <2> QED BY <2>2, <2>3 DEF Tokens
<1>3. ASSUME NEW isPush \in BOOLEAN, RouteMessage(isPush)
      PROVE  \/ Tokens(w)' \subseteq Tokens(w)
             \/ /\ 0 \in Tokens(w)
                /\ Tokens(w)' \subseteq (Tokens(w) \ {0}) \cup {lastId + Len(adding) + 1}
  <2>1. sender.row \in Ids /\ sender.pc = "route"
    BY <1>3 DEF RouteMessage, Typed, Idle
  <2>2. PICK j \in Job : adding' = Append(adding, j) /\ j.row = sender.row
    BY <1>3, <2>1, JobTypes DEF RouteMessage, PushJob, SmsJob
  <2>3. UNCHANGED <<stored, lastId>> /\ sender' = Idle
    BY <1>3 DEF RouteMessage
  <2>4. StoredIds(w)' = StoredIds(w) /\ SenderId(w)' = {}
    BY <2>3 DEF StoredIds, SenderId, IsPush, Idle
  <2>5. CASE sender.row # w
    <3>1. AddingIds(w)' \subseteq AddingIds(w)
      BY <2>2, <2>3, <2>5, AppendIds
    <3> QED BY <2>4, <3>1 DEF Tokens
  <2>6. CASE sender.row = w
    <3>1. 0 \in Tokens(w)
      BY <2>1, <2>6 DEF Tokens, SenderId
    <3>2. AddingIds(w)' \subseteq AddingIds(w) \cup {lastId + Len(adding) + 1}
      BY <2>2, <2>3, AppendIds
    <3>3. 0 \notin StoredIds(w) /\ 0 \notin AddingIds(w)
      BY TokenRanges
    <3> QED BY <2>4, <3>1, <3>2, <3>3 DEF Tokens
  <2> QED BY <2>5, <2>6
<1>4. ASSUME NEW j \in Job, ~IsPush(j), adding' = Append(adding, j),
             UNCHANGED <<stored, lastId, sender>>
      PROVE  Tokens(w)' \subseteq Tokens(w)
  <2>1. AddingIds(w)' \subseteq AddingIds(w)
    BY <1>4, AppendIds
  <2>2. StoredIds(w)' = StoredIds(w) /\ SenderId(w)' = SenderId(w)
    BY <1>4 DEF StoredIds, SenderId, IsPush
  <2> QED BY <2>1, <2>2 DEF Tokens
<1>5. CASE AddApprovedJob
  <2>1. approver.row \in Ids
    BY <1>5 DEF AddApprovedJob, Typed, Idle, Thinking
  <2>2. SmsJob(approver.row, "number") \in Job /\ ~IsPush(SmsJob(approver.row, "number"))
    BY <2>1, JobTypes DEF SmsJob, IsPush
  <2> QED BY <1>4, <1>5, <2>2 DEF AddApprovedJob
<1>6. ASSUME NEW n \in Ids, NEW res \in Results \ {"none"}, RadioReport(n, res)
      PROVE  Tokens(w)' \subseteq Tokens(w)
  <2>1. SentJob(n, res) \in Job /\ ~IsPush(SentJob(n, res))
    BY JobTypes DEF SentJob, IsPush
  <2> QED BY <1>4, <1>6, <2>1 DEF RadioReport
<1>7. CASE StoreJob
  <2>1. PICK j \in Job :
          /\ j.id = lastId + 1 /\ j.kind = adding[1].kind /\ j.row = adding[1].row
          /\ 1 \in DOMAIN adding
          /\ DOMAIN stored' = 1..(Len(stored) + 1) /\ DOMAIN stored = 1..Len(stored)
          /\ \A n \in DOMAIN stored : stored'[n] = stored[n]
          /\ stored'[Len(stored) + 1] = j
          /\ Len(stored) \in Nat
    BY <1>7, StoreFacts
  <2>2. /\ adding' = Tail(adding) /\ adding # <<>> /\ lastId' = lastId + 1 /\ sender' = sender
        /\ adding \in Seq(Job) /\ lastId \in Nat
    BY <1>7 DEF StoreJob, Typed
  <2>3. \A i \in DOMAIN stored' : i \in DOMAIN stored \/ i = Len(stored) + 1
    BY <2>1
  <2>4. ASSUME NEW t \in StoredIds(w)' PROVE t \in StoredIds(w) \cup AddingIds(w)
    <3>1. PICK i \in DOMAIN stored' : IsPush(stored'[i]) /\ stored'[i].row = w /\ t = stored'[i].id
      BY <2>4 DEF StoredIds
    <3>2. CASE i \in DOMAIN stored
      BY <2>1, <3>1, <3>2 DEF StoredIds
    <3>3. CASE i = Len(stored) + 1
      BY <2>1, <3>1, <3>3 DEF AddingIds, IsPush
    <3> QED BY <2>3, <3>2, <3>3
  <2>5. ASSUME NEW t \in AddingIds(w)' PROVE t \in AddingIds(w)
    <3>1. PICK i \in DOMAIN adding' : /\ IsPush(adding'[i]) /\ adding'[i].row = w
                                      /\ t = (lastId + 1) + i
      BY <2>2, <2>5 DEF AddingIds
    <3>2. i + 1 \in DOMAIN adding /\ adding'[i] = adding[i + 1]
      BY <2>2, <3>1, TailFacts
    <3>3. i \in Nat
      BY <2>2, <3>1
    <3>4. t = lastId + (i + 1)
      BY <2>2, <3>1, <3>3
    <3> QED BY <3>1, <3>2, <3>4 DEF AddingIds
  <2>6. SenderId(w)' = SenderId(w)
    BY <2>2 DEF SenderId
  <2> QED BY <2>4, <2>5, <2>6 DEF Tokens
<1>8. CASE Crash
  <2>1. stored' = stored /\ adding' = <<>> /\ sender' = Idle
    BY <1>8 DEF Crash
  <2>2. StoredIds(w)' = StoredIds(w) /\ AddingIds(w)' = {} /\ SenderId(w)' = {}
    BY <2>1 DEF StoredIds, AddingIds, SenderId, IsPush, Idle
  <2> QED BY <2>2 DEF Tokens
<1>9. ASSUME NEW c \in Consumers, FinishJob(c) PROVE Tokens(w)' \subseteq Tokens(w)
  <2>1. StoredIds(w)' \subseteq StoredIds(w)
    BY <1>9, FinishFacts, FewerStored
  <2>2. AddingIds(w)' = AddingIds(w) /\ SenderId(w)' = SenderId(w)
    BY <1>9 DEF FinishJob, AddingIds, SenderId, IsPush
  <2> QED BY <2>1, <2>2 DEF Tokens
<1>10. ASSUME NEW c \in Consumers, SentResult(c) PROVE Tokens(w)' \subseteq Tokens(w)
  <2>1. /\ SmsJob(consumer[c].job.row, "number") \in Job
        /\ ~IsPush(SmsJob(consumer[c].job.row, "number"))
    BY <1>10, BusyThread, JobTypes DEF SentResult, Delivering, Busy, SmsJob, IsPush
  <2> QED BY <1>4, <1>10, <2>1, SameTokens DEF SentResult
<1>11. \A c \in Consumers :
         (\/ TakeJob(c) \/ BeginRun(c) \/ PushUnregistered(c) \/ PushUntrusted(c)
          \/ MarkAsPush(c) \/ MarkAsSent(c) \/ MarkExpireStarted(c)
          \/ SmsUndeliverable(c) \/ PushDelivered(c)
          \/ PushIOException(c) \/ SmsHandedOver(c) \/ CancelJob(c))
           => UNCHANGED <<stored, adding, lastId, sender>>
  BY DEF TakeJob, BeginRun, PushUnregistered, PushUntrusted, MarkAsPush, MarkAsSent,
         MarkExpireStarted, SmsUndeliverable, PushDelivered, PushIOException,
         SmsHandedOver, CancelJob
<1>12. \A n \in Ids : DeleteMessage(n) \/ AskApproval(n)
         => UNCHANGED <<stored, adding, lastId, sender>>
  BY DEF DeleteMessage, AskApproval
<1>13. Refuse \/ MarkAsInsecure \/ MarkAsOutbox \/ MarkAsForcedSms
         => UNCHANGED <<stored, adding, lastId, sender>>
  BY DEF Refuse, MarkAsInsecure, MarkAsOutbox, MarkAsForcedSms
<1>14. \A r \in Requirements : LoseRequirement(r) \/ RegainRequirement(r)
         => UNCHANGED <<stored, adding, lastId, sender>>
  BY DEF LoseRequirement, RegainRequirement
<1>15. UNCHANGED vars => UNCHANGED <<stored, adding, lastId, sender>>
  BY DEF vars
<1>16. ASSUME UNCHANGED <<stored, adding, lastId, sender>>
       PROVE  Tokens(w)' \subseteq Tokens(w)
  BY <1>16, SameTokens
<1>17. ASSUME NEW c \in Consumers, TakeJob(c) \/ JobStep(c)
       PROVE  Tokens(w)' \subseteq Tokens(w)
  BY <1>9, <1>10, <1>11, <1>16, <1>17 DEF JobStep
<1> QED BY <1>1, <1>2, <1>3, <1>5, <1>6, <1>7, <1>8, <1>12, <1>13, <1>14, <1>15, <1>16,
           <1>17 DEF Next, ComposeAt, Approval

(* A thread that has had its answer keeps it until its job is forgotten.   *)
LEMMA AnsweredStep ==
  ASSUME Typed, NEW c \in Consumers, JobStep(c), consumer[c].pc \in Answered
  PROVE  \/ FinishJob(c)
         \/ consumer'[c].pc \in Answered /\ consumer'[c].job = consumer[c].job
<1>1. ASSUME NEW pc \in Answered, Goto(c, pc)
      PROVE  consumer'[c].pc \in Answered /\ consumer'[c].job = consumer[c].job
  <2>1. Busy(c)
    BY DEF Answered, Busy
  <2> QED BY <1>1, <2>1, BusyThread DEF Goto, Typed
<1>2. consumer[c].pc \notin {"run", "deliver"}
  BY DEF Answered
<1>3. MarkAsPush(c) \/ MarkAsSent(c) \/ MarkExpireStarted(c) \/ CancelJob(c) \/ FinishJob(c)
  BY <1>2 DEF JobStep, BeginRun, PushDelivered, PushIOException, PushUnregistered,
              PushUntrusted, SmsHandedOver, SmsUndeliverable, SentResult, Delivering
<1>4. MarkAsPush(c) \/ MarkAsSent(c) \/ MarkExpireStarted(c) \/ CancelJob(c)
        => \E pc \in {"expire", "done"} : Goto(c, pc)
  BY DEF MarkAsPush, MarkAsSent, MarkExpireStarted, CancelJob
<1>5. {"expire", "done"} \subseteq Answered
  BY DEF Answered
<1> QED BY <1>1, <1>3, <1>4, <1>5

LEMMA DueStep ==
  ASSUME Typed, Jobs, [Next]_vars, ~Crash, NEW w \in Ids
  PROVE  Due(w)' \ Due(w) \subseteq Tokens(w)' \ Tokens(w)
<1> SUFFICES ASSUME NEW t \in Tokens(w)', t \in Tokens(w), t \in IdsAt(Answered)
             PROVE  t \in IdsAt(Answered)'
  BY DEF Due
<1>1. PICK c \in Consumers : consumer[c].pc \in Answered /\ t = consumer[c].job.id
  BY DEF IdsAt
<1>2. CASE consumer'[c] = consumer[c]
  BY <1>1, <1>2 DEF IdsAt
<1>3. CASE consumer'[c] # consumer[c]
  <2>1. Busy(c)
    BY <1>1 DEF Answered, Busy
  <2>2. JobStep(c)
    BY <1>3, <2>1, Mover
  <2>3. CASE FinishJob(c)
    <3>1. PICK i \in DOMAIN stored :
            /\ stored[i].id = t
            /\ \A k \in DOMAIN stored' : \E n \in DOMAIN stored : n # i /\ stored'[k] = stored[n]
      BY <1>1, <2>3, FinishFacts
    <3>2. t \notin StoredIds(w)'
      BY <3>1, Twin DEF Jobs, StoredIds
    <3>3. t \in 1..lastId
      BY <3>1 DEF Jobs, Numbered
    <3>4. t \notin AddingIds(w)
      BY <3>3, TokenRanges
    <3>5. t \notin SenderId(w)
      BY <3>3, TokenRanges DEF SenderId
    <3>6. AddingIds(w)' = AddingIds(w) /\ SenderId(w)' = SenderId(w)
      BY <2>3 DEF FinishJob, AddingIds, SenderId, IsPush
    <3> QED BY <3>2, <3>4, <3>5, <3>6 DEF Tokens
  <2>4. CASE consumer'[c].pc \in Answered /\ consumer'[c].job = consumer[c].job
    BY <1>1, <2>4 DEF IdsAt
  <2> QED BY <1>1, <2>2, <2>3, <2>4, AnsweredStep
<1> QED BY <1>2, <1>3

LEMMA CrashDue ==
  ASSUME Typed, Jobs, Crash, [Next]_vars, NEW w \in Ids
  PROVE  \E t : Due(w)' \subseteq Due(w) \cup {t}
<1>1. /\ stored' = stored /\ adding' = <<>> /\ sender' = Idle
      /\ consumer' = [c \in Consumers |-> Idle]
  BY DEF Crash
<1>2. StoredIds(w)' = StoredIds(w) /\ AddingIds(w)' = {} /\ SenderId(w)' = {}
  BY <1>1 DEF StoredIds, AddingIds, SenderId, IsPush, Idle
<1>3. Due(w)' \subseteq StoredIds(w)
  BY <1>2 DEF Due, Tokens
<1>4. ASSUME NEW t \in StoredIds(w), NEW u \in StoredIds(w),
             t \in IdsAt(Answered), u \in IdsAt(Answered)
      PROVE  t = u
  <2>1. ASSUME NEW v \in StoredIds(w), v \in IdsAt(Answered)
        PROVE  \E c \in Consumers : Busy(c) /\ IsPush(consumer[c].job) /\ v = consumer[c].job.id
    <3>1. PICK i \in DOMAIN stored : IsPush(stored[i]) /\ v = stored[i].id
      BY DEF StoredIds
    <3>2. PICK c \in Consumers : consumer[c].pc \in Answered /\ v = consumer[c].job.id
      BY <2>1 DEF IdsAt
    <3>3. Busy(c)
      BY <3>2 DEF Answered, Busy
    <3>4. PICK n \in DOMAIN stored : SameJob(consumer[c].job, stored[n])
      BY <3>3 DEF Jobs, JobsStored
    <3>5. stored[n].id = stored[i].id
      BY <3>1, <3>2, <3>4, SameJobs
    <3>6. n = i
      BY <3>5, Twin DEF Jobs
    <3> QED BY <3>1, <3>2, <3>3, <3>4, <3>6, SameFormed
  <2> QED BY <1>4, <2>1, PushLine
<1>5. StoredIds(w) \ IdsAt(Answered) \subseteq Due(w)
  BY DEF Due, Tokens
<1>6. CASE StoredIds(w) \cap IdsAt(Answered) = {}
  BY <1>3, <1>5, <1>6
<1>7. CASE StoredIds(w) \cap IdsAt(Answered) # {}
  <2>1. PICK t \in StoredIds(w) : t \in IdsAt(Answered)
    BY <1>7
  <2>2. StoredIds(w) \subseteq Due(w) \cup {t}
    BY <1>4, <1>5, <2>1
  <2> QED BY <1>3, <2>2
<1> QED BY <1>6, <1>7

(* The push server takes a message from a running push job of it.          *)
Taken(c, m) ==
  /\ Delivering(c, "push") /\ consumer[c].m = m
  /\ log'.copies[m] = log.copies[m] + 1

SameOrTaken(m) ==
  \/ log'.copies[m] = log.copies[m]
  \/ \E c \in Consumers : /\ Taken(c, m)
                          /\ \/ PushDelivered(c)
                             \/ PushIOException(c) /\ log'.lostAcks = log.lostAcks + 1

LEMMA CopiesStep ==
  ASSUME Typed, [Next]_vars
  PROVE  /\ log'.lostAcks >= log.lostAcks /\ used'.crashes >= used.crashes
         /\ used'.resends >= used.resends /\ used'.deletes >= used.deletes
         /\ \A m \in Messages : SameOrTaken(m)
         /\ Crash => used'.crashes = used.crashes + 1 /\ log'.copies = log.copies
         /\ (\E n \in Ids : Resend(n)) => used'.resends = used.resends + 1
                                               /\ log'.copies = log.copies
         /\ (\E n \in Ids : DeleteMessage(n)) => used'.deletes = used.deletes + 1
<1>0. /\ log \in Log /\ log.copies \in [Messages -> Nat] /\ log.lostAcks \in Nat
      /\ used \in [outages : Nat, crashes : Nat, resends : Nat, noService : Nat, deletes : Nat]
      /\ used.crashes \in Nat /\ used.resends \in Nat /\ used.deletes \in Nat
  BY DEF Typed, Usage, Log
<1> DEFINE Still == /\ log'.copies = log.copies /\ log'.lostAcks = log.lostAcks
                    /\ used'.crashes >= used.crashes /\ used'.resends >= used.resends
                    /\ used'.deletes >= used.deletes
<1>1. ASSUME NEW c \in Consumers, PushDelivered(c) \/ PushIOException(c)
      PROVE  /\ used' = used
             /\ \/ log' = log
                \/ /\ Delivering(c, "push")
                   /\ log'.copies = [log.copies EXCEPT ![consumer[c].m] = @ + 1]
                   /\ \/ PushDelivered(c) /\ log'.lostAcks = log.lostAcks
                      \/ PushIOException(c) /\ log'.lostAcks = log.lostAcks + 1
  BY <1>0, <1>1 DEF PushDelivered, PushIOException, Accepted, Log
<1>2. ASSUME NEW c \in Consumers, PushDelivered(c) \/ PushIOException(c), NEW m \in Messages
      PROVE  /\ log'.lostAcks >= log.lostAcks /\ used' = used
             /\ \/ log'.copies[m] = log.copies[m]
                \/ Taken(c, m) /\ \/ PushDelivered(c)
                                  \/ PushIOException(c) /\ log'.lostAcks = log.lostAcks + 1
  <2>1. CASE log' = log
    BY <1>0, <1>1, <1>2, <2>1
  <2>2. CASE log' # log
    <3>1. /\ Delivering(c, "push")
          /\ log'.copies = [log.copies EXCEPT ![consumer[c].m] = @ + 1]
          /\ \/ PushDelivered(c) /\ log'.lostAcks = log.lostAcks
             \/ PushIOException(c) /\ log'.lostAcks = log.lostAcks + 1
      BY <1>1, <1>2, <2>2
    <3>2. CASE consumer[c].m = m
      <4>1. log'.copies[m] = log.copies[m] + 1
        BY <1>0, <3>1, <3>2
      <4> QED BY <1>0, <1>1, <1>2, <3>1, <3>2, <4>1 DEF Taken
    <3>3. CASE consumer[c].m # m
      BY <1>0, <1>1, <1>2, <3>1, <3>3
    <3> QED BY <3>2, <3>3
  <2> QED BY <2>1, <2>2
<1>3. ASSUME NEW n \in Ids, ComposeAt(n)
      PROVE  Still
  BY <1>0, <1>3 DEF ComposeAt, Compose, Log
<1>4. ASSUME NEW n \in Ids, DeleteMessage(n) \/ AskApproval(n)
      PROVE  Still /\ (DeleteMessage(n) => used'.deletes = used.deletes + 1)
  BY <1>0, <1>4 DEF DeleteMessage, AskApproval, Log
<1>5. ASSUME NEW n \in Ids, Resend(n)
      PROVE  Still /\ used'.resends = used.resends + 1
  BY <1>0, <1>5 DEF Resend
<1>6. ASSUME (\E isPush \in BOOLEAN : RouteMessage(isPush)) \/ Refuse \/ Approval \/ StoreJob
      PROVE  Still
  <2>1. CASE MarkAsInsecure
    <3>1. PICK x, y : log' = [log EXCEPT !.approved = x, !.mistaken = y]
      BY <1>0, <2>1 DEF MarkAsInsecure, Log
    <3>2. log'.copies = log.copies /\ log'.lostAcks = log.lostAcks /\ used' = used
      BY <1>0, <2>1, <3>1 DEF MarkAsInsecure, Log
    <3> QED BY <1>0, <3>2
  <2>2. CASE ~MarkAsInsecure
    <3>1. log' = log /\ used' = used
      BY <1>6, <2>2 DEF RouteMessage, Refuse, Approval, MarkAsOutbox, MarkAsForcedSms,
                        AddApprovedJob, StoreJob
    <3> QED BY <1>0, <3>1
  <2> QED BY <2>1, <2>2
<1>7. ASSUME NEW n \in Ids, NEW res \in Results \ {"none"}, RadioReport(n, res) PROVE Still
  BY <1>0, <1>7 DEF RadioReport
<1>8. ASSUME NEW r \in Requirements, LoseRequirement(r) \/ RegainRequirement(r) PROVE Still
  BY <1>0, <1>8 DEF LoseRequirement, RegainRequirement
<1>9. ASSUME NEW c \in Consumers,
             \/ TakeJob(c) \/ BeginRun(c) \/ PushUnregistered(c) \/ PushUntrusted(c)
             \/ MarkAsPush(c) \/ MarkAsSent(c) \/ MarkExpireStarted(c)
             \/ SmsUndeliverable(c) \/ FinishJob(c) \/ SentResult(c)
      PROVE  Still
  <2>1. log' = log /\ used' = used
    BY <1>9 DEF TakeJob, BeginRun, PushUnregistered, PushUntrusted, MarkAsPush,
            MarkAsSent, MarkExpireStarted, SmsUndeliverable, FinishJob, SentResult
  <2> QED BY <1>0, <2>1
<1>10. ASSUME NEW c \in Consumers, SmsHandedOver(c) \/ CancelJob(c) PROVE Still
  BY <1>0, <1>10 DEF SmsHandedOver, CancelJob, Log
<1>11. ASSUME Crash PROVE Still /\ used'.crashes = used.crashes + 1
  BY <1>0, <1>11 DEF Crash, Log
<1>12. ASSUME UNCHANGED vars PROVE Still
  BY <1>0, <1>12 DEF vars
<1>13. ASSUME Crash PROVE \A n \in Ids : ~Resend(n)
  BY <1>0, <1>13 DEF Crash, Resend
<1>15. ASSUME Still,
              Crash => used'.crashes = used.crashes + 1,
              (\E n \in Ids : Resend(n)) => used'.resends = used.resends + 1,
              (\E n \in Ids : DeleteMessage(n)) => used'.deletes = used.deletes + 1
       PROVE  /\ log'.lostAcks >= log.lostAcks /\ used'.crashes >= used.crashes
              /\ used'.resends >= used.resends /\ used'.deletes >= used.deletes
              /\ \A m \in Messages : SameOrTaken(m)
              /\ Crash => used'.crashes = used.crashes + 1 /\ log'.copies = log.copies
              /\ (\E n \in Ids : Resend(n)) => used'.resends = used.resends + 1
                                                    /\ log'.copies = log.copies
              /\ (\E n \in Ids : DeleteMessage(n)) => used'.deletes = used.deletes + 1
  BY <1>0, <1>15 DEF SameOrTaken
<1> HIDE DEF Still
<1>16. CASE \E c \in Consumers : PushDelivered(c) \/ PushIOException(c)
  <2>1. used' = used /\ log'.lostAcks >= log.lostAcks
    <3>1. PICK c \in Consumers : PushDelivered(c) \/ PushIOException(c)
      BY <1>16
    <3>2. /\ used' = used
          /\ \/ log' = log
             \/ log'.lostAcks = log.lostAcks \/ log'.lostAcks = log.lostAcks + 1
      BY <1>1, <3>1
    <3> QED BY <1>0, <3>2
  <2>2. ~Crash /\ \A n \in Ids : ~Resend(n) /\ ~DeleteMessage(n)
    BY <1>0, <1>4, <1>5, <1>11, <2>1
  <2>3. \A m \in Messages : SameOrTaken(m)
    BY <1>2, <1>16 DEF SameOrTaken
  <2> QED BY <1>0, <2>1, <2>2, <2>3
<1>17. ASSUME ~\E c \in Consumers : PushDelivered(c) \/ PushIOException(c) PROVE Still
  <2>1. \A c \in Consumers : JobStep(c) =>
          (\/ BeginRun(c) \/ PushUnregistered(c) \/ PushUntrusted(c)
           \/ MarkAsPush(c) \/ MarkAsSent(c) \/ MarkExpireStarted(c)
           \/ SmsUndeliverable(c) \/ FinishJob(c) \/ SentResult(c)
           \/ SmsHandedOver(c) \/ CancelJob(c))
    BY <1>17 DEF JobStep
  <2>2. (\E c \in Consumers : TakeJob(c) \/ JobStep(c)) => Still
    BY <1>9, <1>10, <2>1
  <2> QED BY <1>3, <1>4, <1>5, <1>6, <1>7, <1>8, <1>11, <1>12, <2>2 DEF Next, ComposeAt
<1> QED BY <1>4, <1>5, <1>11, <1>15, <1>16, <1>17

(* The job of a thread that has not had its answer is due.                 *)
LEMMA RunningDue ==
  ASSUME Typed, Jobs, NEW c \in Consumers, Busy(c), IsPush(consumer[c].job),
         consumer[c].pc \notin Answered
  PROVE  consumer[c].job.id \in Due(consumer[c].job.row)
<1>1. PICK i \in DOMAIN stored : SameJob(consumer[c].job, stored[i])
  BY DEF Jobs, JobsStored
<1>2. consumer[c].job.id \in StoredIds(consumer[c].job.row)
  BY <1>1 DEF StoredIds, SameJob, IsPush
<1>3. ASSUME NEW d \in Consumers, consumer[d].pc \in Answered,
             consumer[d].job.id = consumer[c].job.id
      PROVE  FALSE
  <2>1. Busy(d) /\ consumer[d].pc # consumer[c].pc
    BY <1>3 DEF Answered, Busy
  <2> QED BY <1>3, <2>1 DEF Jobs, JobsApart
<1> QED BY <1>2, <1>3 DEF Due, Tokens, IdsAt

LEMMA Counting ==
  ASSUME NEW A, NEW B, IsFiniteSet(A)
  PROVE  /\ B \subseteq A => Cardinality(B) <= Cardinality(A)
         /\ \A x : B \subseteq A \cup {x} => Cardinality(B) <= Cardinality(A) + 1
         /\ \A x \in A : B \subseteq A \ {x} => Cardinality(B) <= Cardinality(A) - 1
         /\ \A x \in A : \A y : B \subseteq (A \ {x}) \cup {y}
                                  => Cardinality(B) <= Cardinality(A)
         /\ Cardinality(A) \in Nat
         /\ IsFiniteSet(B) => Cardinality(B) \in Nat
<1>1. Cardinality(A) \in Nat /\ (IsFiniteSet(B) => Cardinality(B) \in Nat)
  BY FS_CardinalityType
<1>2. \A T : IsFiniteSet(T) /\ B \subseteq T
               => Cardinality(B) <= Cardinality(T) /\ IsFiniteSet(B)
  BY FS_Subset
<1>3. ASSUME NEW x, B \subseteq A \cup {x} PROVE Cardinality(B) <= Cardinality(A) + 1
  <2>1. /\ IsFiniteSet(A \cup {x})
        /\ Cardinality(A \cup {x}) \in {Cardinality(A), Cardinality(A) + 1}
    BY FS_AddElement
  <2>2. Cardinality(B) <= Cardinality(A \cup {x}) /\ Cardinality(B) \in Nat
    BY <1>1, <1>2, <1>3, <2>1
  <2> QED BY <1>1, <2>1, <2>2
<1>4. ASSUME NEW x \in A
      PROVE  IsFiniteSet(A \ {x}) /\ Cardinality(A \ {x}) = Cardinality(A) - 1
  BY FS_RemoveElement
<1>5. ASSUME NEW x \in A, NEW y, B \subseteq (A \ {x}) \cup {y}
      PROVE  Cardinality(B) <= Cardinality(A)
  <2> DEFINE C == A \ {x}
  <2>1. IsFiniteSet(C) /\ Cardinality(C) = Cardinality(A) - 1
    BY <1>4
  <2> HIDE DEF C
  <2>2. /\ IsFiniteSet(C \cup {y})
        /\ Cardinality(C \cup {y}) \in {Cardinality(C), Cardinality(C) + 1}
    BY <2>1, FS_AddElement
  <2>3. B \subseteq C \cup {y}
    BY <1>5 DEF C
  <2>4. Cardinality(B) <= Cardinality(C \cup {y}) /\ Cardinality(B) \in Nat
    BY <1>1, <1>2, <2>2, <2>3
  <2> QED BY <1>1, <2>1, <2>2, <2>4
<1> QED BY <1>1, <1>2, <1>3, <1>4, <1>5

(* The deliveries of a message still to come: those due under the id of    *)
(* its row, and those of the threads that hold it.                         *)
InFlight(m) ==
  {consumer[c].job.id :
     c \in {d \in Consumers : Delivering(d, "push") /\ consumer[d].m = m}}
DueFor(m)   ==
  InFlight(m) \cup {t \in Nat : \E w \in Ids : row[w].m = m /\ t \in Due(w)}

Causes       == 1 + log.lostAcks + used.crashes + used.resends
Inherited(m) == IF m \in log.heirs THEN used.deletes ELSE 0

(* An id without a row has one delivery to spare for the next message.     *)
IdsBounded ==
  \A w \in Ids :
    Cardinality(Due(w)) + (IF Present(w) THEN 0 ELSE 1) <= Causes + used.deletes

Bounded ==
  \A m \in Messages : log.copies[m] + Cardinality(DueFor(m)) <= Causes + Inherited(m)

FiniteDue ==
  /\ \A w \in Ids : IsFiniteSet(Due(w))
  /\ \A m \in Messages : IsFiniteSet(DueFor(m)) /\ 0 \notin InFlight(m)

LEMMA DueFinite == Typed /\ Jobs => FiniteDue
<1> SUFFICES ASSUME Typed, Jobs PROVE FiniteDue
  OBVIOUS
<1>1. /\ \A w \in Ids : IsFiniteSet(Due(w)) /\ Due(w) \subseteq 0..(lastId + Len(adding))
      /\ lastId \in Nat /\ Len(adding) \in Nat
  <2>1. lastId \in Nat /\ Len(adding) \in Nat
    BY AppendFacts DEF Typed
  <2> QED BY <2>1, TokenRanges DEF Due
<1>2. ASSUME NEW m \in Messages PROVE IsFiniteSet(DueFor(m)) /\ 0 \notin InFlight(m)
  <2>1. InFlight(m) \subseteq 1..lastId
    BY JobsHave DEF Jobs, InFlight, Delivering, Busy
  <2>2. DueFor(m) \subseteq 0..(lastId + Len(adding))
    BY <1>1, <2>1 DEF DueFor
  <2>3. IsFiniteSet(0..(lastId + Len(adding)))
    BY <1>1, FS_Interval
  <2>4. IsFiniteSet(DueFor(m))
    BY <2>2, <2>3, FS_Subset
  <2> QED BY <2>1, <2>4
<1> QED BY <1>1, <1>2 DEF FiniteDue

LEMMA CountTypes ==
  ASSUME Typed, NEW m \in Messages
  PROVE  /\ log.copies[m] \in Nat /\ log.lostAcks \in Nat /\ used.crashes \in Nat
         /\ used.resends \in Nat /\ used.deletes \in Nat
BY DEF Typed, Usage, Log

LEMMA CountTypesNext ==
  ASSUME Typed, [Next]_vars, NEW m \in Messages
  PROVE  /\ log'.copies[m] \in Nat /\ log'.lostAcks \in Nat /\ used'.crashes \in Nat
         /\ used'.resends \in Nat /\ used'.deletes \in Nat
BY TypedStep DEF Typed, Usage, Log

(* Under an id that nothing names no delivery is due but the sender's.     *)
LEMMA UnnamedDue ==
  ASSUME NEW w \in Ids, ~Named(w)
  PROVE  StoredIds(w) = {} /\ AddingIds(w) = {}
BY DEF Named, StoredIds, AddingIds

LEMMA ComposedDue ==
  ASSUME Typed, Jobs, [Next]_vars, NEW w \in Ids, ComposeAt(w)
  PROVE  /\ Due(w)' \subseteq Due(w) \cup {0}
         /\ ~Named(w) => Due(w)' \subseteq {0}
<1>1. UNCHANGED <<adding, stored, consumer, lastId>> /\ ~Crash
  <2>1. UNCHANGED <<adding, stored, consumer, lastId, used>>
    BY DEF ComposeAt, Compose
  <2>2. ~Crash
    BY <2>1 DEF Crash, Typed, Usage
  <2> QED BY <2>1, <2>2
<1>2. StoredIds(w)' = StoredIds(w) /\ AddingIds(w)' = AddingIds(w) /\ SenderId(w)' \subseteq {0}
  BY <1>1 DEF StoredIds, AddingIds, SenderId, IsPush
<1>3. IdsAt(Answered)' = IdsAt(Answered)
  BY <1>1 DEF IdsAt
<1> QED BY <1>2, <1>3, UnnamedDue DEF Due, Tokens

(* What is due for a message that is composed already.                     *)
LEMMA DueForStep ==
  ASSUME Typed, Jobs, Placed, [Next]_vars, ~Crash,
         NEW m \in Messages, m \in log.composed
  PROVE  /\ \/ DueFor(m)' \subseteq DueFor(m)
            \/ /\ \E n \in Ids : Resend(n)
               /\ DueFor(m)' \subseteq DueFor(m) \cup {0}
            \/ /\ \E isPush \in BOOLEAN : RouteMessage(isPush)
               /\ 0 \in DueFor(m) /\ 0 \notin DueFor(m)'
               /\ DueFor(m)' \subseteq DueFor(m) \cup {lastId + Len(adding) + 1}
         /\ \A c \in Consumers : PushDelivered(c) /\ consumer[c].m = m
              => consumer[c].job.id \in DueFor(m) /\ consumer[c].job.id \notin DueFor(m)'
<1>0. Typed' /\ Jobs' /\ Placed' /\ FiniteDue'
  BY TypedStep, JobsStep, PlacedStep, DueFinite, PTL
<1>d. ASSUME NEW w \in Ids, row[w].m = m PROVE Due(w) \subseteq DueFor(m)
  <2>1. Due(w) \subseteq Nat
    <3>1. Tokens(w) \subseteq 0..(lastId + Len(adding)) /\ lastId \in Nat /\ Len(adding) \in Nat
      BY TokenRanges
    <3> QED BY <3>1 DEF Due
  <2> QED BY <1>d, <2>1 DEF DueFor
<1>1. ASSUME NEW w \in Ids, row'[w].m = m PROVE row[w].m = m
  <2>1. ~ComposeAt(w)
    BY <1>1, ComposeFacts
  <2>2. row'[w] # NoRow
    BY <1>1, NoMessageAssumption DEF NoRow
  <2> QED BY <1>1, <2>1, <2>2, RowStep DEF BaseStep
<1>2. InFlight(m)' \subseteq DueFor(m)
  <2> SUFFICES ASSUME NEW c \in Consumers, Delivering(c, "push")', consumer'[c].m = m
               PROVE  consumer'[c].job.id \in DueFor(m)
    BY DEF InFlight
  <2>1. consumer'[c].pc = "deliver" /\ consumer'[c].job.kind = "push"
    BY DEF Delivering
  <2>2. CASE consumer'[c] = consumer[c]
    <3>1. consumer[c].job.id \in InFlight(m)
      BY <2>1, <2>2 DEF InFlight, Delivering
    <3> QED BY <2>2, <3>1 DEF DueFor
  <2>3. CASE LET w == consumer[c].job.row IN
             /\ BeginRun(c) /\ consumer'[c].job = consumer[c].job
             /\ consumer'[c].m = row[w].m
    <3>1. consumer[c].pc = "run" /\ Busy(c) /\ IsPush(consumer[c].job)
      BY <2>1, <2>3 DEF BeginRun, Busy, IsPush
    <3>2. consumer[c].job.row \in Ids /\ consumer[c].job.id \in Due(consumer[c].job.row)
      BY <3>1, BusyThread, RunningDue DEF Answered
    <3> QED BY <1>d, <2>3, <3>2
  <2>4. consumer'[c].pc \in Seeing
    BY <2>1 DEF Seeing
  <2> QED BY <2>1, <2>2, <2>3, <2>4, SeeingStep
<1>3. ASSUME NEW c \in Consumers, PushDelivered(c), consumer[c].m = m
      PROVE  consumer[c].job.id \in DueFor(m) /\ consumer[c].job.id \notin DueFor(m)'
  <2>1. consumer[c].job.id \in InFlight(m) /\ Busy(c) /\ Goto(c, "marksent")
    BY <1>3 DEF PushDelivered, Delivering, InFlight, Busy
  <2>2. consumer'[c].pc = "marksent" /\ consumer'[c].job = consumer[c].job
    BY <2>1, BusyThread DEF Goto, Typed
  <2>3. consumer[c].job.id \in IdsAt(Answered)'
    BY <2>2 DEF IdsAt, Answered
  <2>4. ASSUME NEW d \in Consumers, Delivering(d, "push")', consumer'[d].job.id = consumer[c].job.id
        PROVE  FALSE
    <3>1. d # c /\ Busy(d)' /\ Busy(c)'
      BY <2>2, <2>4 DEF Delivering, Busy
    <3> QED BY <1>0, <2>2, <2>4, <3>1 DEF Jobs, JobsApart
  <2>5. consumer[c].job.id \notin InFlight(m)'
    BY <2>4 DEF InFlight
  <2> QED BY <2>1, <2>3, <2>5 DEF DueFor, Due
<1>4. ASSUME ~\E w \in Ids : row'[w].m = m PROVE DueFor(m)' \subseteq DueFor(m)
  <2>1. DueFor(m)' = InFlight(m)'
    BY <1>4 DEF DueFor
  <2> QED BY <1>2, <2>1
<1>5. ASSUME NEW w \in Ids, row'[w].m = m
      PROVE  \/ DueFor(m)' \subseteq DueFor(m)
             \/ /\ \E n \in Ids : Resend(n)
                /\ DueFor(m)' \subseteq DueFor(m) \cup {0}
             \/ /\ \E isPush \in BOOLEAN : RouteMessage(isPush)
                /\ 0 \in DueFor(m) /\ 0 \notin DueFor(m)'
                /\ DueFor(m)' \subseteq DueFor(m) \cup {lastId + Len(adding) + 1}
  <2>0. row' \in [Ids -> Row \cup {NoRow}]
    BY <1>0 DEF Typed
  <2>1. Present(w)'
    BY <1>5, <2>0, NoMessageAssumption DEF Present, NoRow, Row, BaseTypes
  <2>2. DueFor(m)' \subseteq Due(w)' \cup InFlight(m)' /\ Due(w) \subseteq DueFor(m)
    <3>1. \A n \in Ids : row'[n].m = m => n = w
      BY <1>0, <1>5, <2>1 DEF Placed, RowsApart
    <3>2. DueFor(m)' \subseteq Due(w)' \cup InFlight(m)'
      BY <3>1 DEF DueFor
    <3>3. Due(w) \subseteq DueFor(m)
      BY <1>1, <1>5, <1>d
    <3> QED BY <3>2, <3>3
  <2>3. Due(w)' \subseteq Due(w) \cup (Tokens(w)' \ Tokens(w)) /\ Due(w)' \subseteq Tokens(w)'
    BY DueStep DEF Due
  <2>4. CASE Tokens(w)' \subseteq Tokens(w)
    BY <1>2, <2>2, <2>3, <2>4
  <2>5. CASE Resend(w) /\ Tokens(w)' \subseteq Tokens(w) \cup {0}
    BY <1>2, <2>2, <2>3, <2>5
  <2>6. CASE /\ \E isPush \in BOOLEAN : RouteMessage(isPush)
             /\ 0 \in Tokens(w)
             /\ Tokens(w)' \subseteq (Tokens(w) \ {0}) \cup {lastId + Len(adding) + 1}
    <3>1. 0 \in Due(w)
      <4>1. \A c \in Consumers : consumer[c].pc \in Answered => consumer[c].job.id \in 1..lastId
        BY JobsHave DEF Jobs, Answered, Busy
      <4> QED BY <2>6, <4>1 DEF Due, IdsAt
    <3>2. 0 \notin Tokens(w)'
      <4>1. lastId + Len(adding) + 1 # 0
        BY TokenRanges
      <4> QED BY <2>6, <4>1
    <3>3. 0 \notin InFlight(m)'
      BY <1>0 DEF FiniteDue
    <3> QED BY <1>2, <2>2, <2>3, <2>6, <3>1, <3>2, <3>3
  <2>7. ~ComposeAt(w)
    <3>1. Present(w)
      BY <1>1, <1>5, WholeRow
    <3> QED BY <3>1, ComposeFacts
  <2> QED BY <2>4, <2>5, <2>6, <2>7, TokensStep
<1> QED BY <1>3, <1>4, <1>5

LEMMA IdsBoundedStep ==
  ASSUME Typed, Jobs, IdsBounded, [Next]_vars
  PROVE  IdsBounded'
<1> SUFFICES ASSUME NEW w \in Ids
             PROVE  Cardinality(Due(w)') + (IF Present(w)' THEN 0 ELSE 1)
                      <= Causes' + used'.deletes
  BY DEF IdsBounded
<1> DEFINE A == Due(w)
           B == Due(w)'
           a == Cardinality(A)
           b == Cardinality(B)
           p == IF Present(w) THEN 0 ELSE 1
           q == IF Present(w)' THEN 0 ELSE 1
           S == log.lostAcks + used.crashes + used.resends + used.deletes
           T == log'.lostAcks + used'.crashes + used'.resends + used'.deletes
<1>1. /\ log.lostAcks \in Nat /\ used.crashes \in Nat
      /\ used.resends \in Nat /\ used.deletes \in Nat
      /\ log'.lostAcks \in Nat /\ used'.crashes \in Nat
      /\ used'.resends \in Nat /\ used'.deletes \in Nat
  BY TypedStep DEF Typed, Usage, Log
<1>2. a + p <= 1 + S
  BY <1>1 DEF IdsBounded, Causes
<1>3. IsFiniteSet(A) /\ IsFiniteSet(B)
  <2>1. FiniteDue /\ FiniteDue'
    BY TypedStep, JobsStep, DueFinite, PTL
  <2> QED BY <2>1 DEF FiniteDue
<1>4. /\ B \subseteq A => b <= a
      /\ \A x : B \subseteq A \cup {x} => b <= a + 1
      /\ \A x \in A : \A y : B \subseteq (A \ {x}) \cup {y} => b <= a
      /\ a \in Nat /\ b \in Nat
  BY <1>3, Counting
<1>5. /\ S \in Nat /\ T \in Nat /\ T >= S
      /\ Crash \/ (\E n \in Ids : Resend(n) \/ DeleteMessage(n)) => T >= S + 1
  BY <1>1, CopiesStep
<1>6. /\ p \in {0, 1} /\ q \in {0, 1}
      /\ q = p \/ (q = 1 /\ DeleteMessage(w)) \/ (q = 0 /\ p = 1)
      /\ ComposeAt(w) => q = 0 /\ p = 1
  <2>1. row' \in [Ids -> Row \cup {NoRow}]
    BY TypedStep DEF Typed
  <2>2. ComposeAt(w) => Present(w)' /\ ~Present(w)
    BY ComposeFacts DEF Present
  <2>3. /\ Present(w) <=> row[w].m \in Messages
        /\ Present(w)' <=> row'[w].m \in Messages
    BY <2>1, WholeRow, NoMessageAssumption DEF Present, NoRow, Row, BaseTypes
  <2>4. (Present(w) <=> Present(w)') \/ DeleteMessage(w) \/ ComposeAt(w)
    <3>1. row'[w].m = row[w].m \/ DeleteMessage(w) \/ ComposeAt(w)
      BY RowStep DEF BaseStep
    <3> QED BY <2>3, <3>1
  <2> QED BY <2>2, <2>4
<1>7. CASE Crash
  <2>1. PICK t : B \subseteq A \cup {t}
    BY <1>7, CrashDue
  <2>2. q = p
    BY <1>7 DEF Crash, Present
  <2> HIDE DEF A, B
  <2>3. b <= a + 1
    BY <1>4, <2>1
  <2> HIDE DEF a, b, p, q, S, T
  <2>4. b + q <= 1 + T
    BY <1>2, <1>4, <1>5, <1>6, <1>7, <2>2, <2>3
  <2> QED BY <1>1, <2>4 DEF b, q, T, B, Causes
<1>8. CASE ~Crash
  <2>1. B \subseteq A \cup (Tokens(w)' \ Tokens(w))
    BY <1>8, DueStep
  <2>2. CASE ComposeAt(w) \/ Resend(w)
    <3>1. B \subseteq A \cup {0}
      <4>1. ComposeAt(w) => B \subseteq A \cup {0}
        BY ComposedDue
      <4>2. Resend(w) => Tokens(w)' \subseteq Tokens(w) \cup {0}
        <5>1. Resend(w) => /\ UNCHANGED <<stored, adding, lastId>>
                           /\ SenderId(w)' \subseteq {0}
          BY DEF Resend, SenderId
        <5> QED BY <5>1 DEF Tokens, StoredIds, AddingIds, IsPush
      <4> QED BY <2>1, <2>2, <4>1, <4>2
    <3>2. Resend(w) => q = p
      BY DEF Resend, Present
    <3> HIDE DEF A, B
    <3>3. b <= a + 1
      BY <1>4, <3>1
    <3> HIDE DEF a, b, p, q, S, T
    <3>4. b + q <= 1 + T
      BY <1>2, <1>4, <1>5, <1>6, <2>2, <3>2, <3>3
    <3> QED BY <1>1, <3>4 DEF b, q, T, B, Causes
  <2>3. CASE ~(ComposeAt(w) \/ Resend(w))
    <3>1. b <= a
      <4>1. CASE Tokens(w)' \subseteq Tokens(w)
        BY <1>4, <2>1, <4>1
      <4>2. CASE /\ 0 \in Tokens(w)
                 /\ Tokens(w)' \subseteq (Tokens(w) \ {0}) \cup {lastId + Len(adding) + 1}
        <5> DEFINE x == lastId + Len(adding) + 1
        <5>1. \A c \in Consumers : consumer[c].pc \in Answered => consumer[c].job.id \in 1..lastId
          BY JobsHave DEF Jobs, Answered, Busy
        <5>2. 0 \in A
          BY <4>2, <5>1 DEF Due, IdsAt
        <5>3. x # 0
          BY TokenRanges
        <5>4. B \subseteq (A \ {0}) \cup {x}
          BY <2>1, <4>2, <5>3 DEF Due
        <5> HIDE DEF A, B, x
        <5> QED BY <1>4, <5>2, <5>4
      <4> QED BY <2>3, <4>1, <4>2, TokensStep
    <3> HIDE DEF a, b, p, q, S, T
    <3>2. b + q <= 1 + T
      BY <1>2, <1>4, <1>5, <1>6, <3>1
    <3> QED BY <1>1, <3>2 DEF b, q, T, B, Causes
  <2> QED BY <2>2, <2>3
<1> QED BY <1>7, <1>8

LEMMA DueForCrash ==
  ASSUME Typed, Jobs, Placed, Crash, [Next]_vars, NEW m \in Messages
  PROVE  \E t : DueFor(m)' \subseteq DueFor(m) \cup {t}
<1>1. row' = row /\ InFlight(m)' = {}
  <2>1. row' = row /\ \A c \in Consumers : consumer'[c].pc # "deliver"
    BY DEF Crash, Idle
  <2> QED BY <2>1 DEF InFlight, Delivering
<1>2. CASE ~\E w \in Ids : row[w].m = m
  BY <1>1, <1>2 DEF DueFor
<1>3. ASSUME NEW w \in Ids, row[w].m = m PROVE \E t : DueFor(m)' \subseteq DueFor(m) \cup {t}
  <2>1. \A n \in Ids : row[n].m = m => n = w
    <3>1. Present(w)
      BY <1>3, WholeRow
    <3> QED BY <1>3, <3>1 DEF Placed, RowsApart
  <2>2. DueFor(m)' \subseteq Due(w)'
    BY <1>1, <2>1 DEF DueFor
  <2>3. Due(w) \subseteq DueFor(m)
    <3>1. Tokens(w) \subseteq 0..(lastId + Len(adding)) /\ lastId \in Nat /\ Len(adding) \in Nat
      BY TokenRanges
    <3>2. Due(w) \subseteq Nat
      BY <3>1 DEF Due
    <3> QED BY <1>3, <3>2 DEF DueFor
  <2>4. PICK t : Due(w)' \subseteq Due(w) \cup {t}
    BY CrashDue
  <2> QED BY <2>2, <2>3, <2>4
<1> QED BY <1>2, <1>3

(* A message just composed under w.                                        *)
LEMMA DueForFresh ==
  ASSUME Typed, Jobs, Placed, [Next]_vars, NEW m \in Messages, m \notin log.composed,
         NEW w \in Ids, ComposeAt(w), row'[w].m = m
  PROVE  /\ DueFor(m)' \subseteq Due(w)'
         /\ log'.copies[m] = 0
         /\ Named(w) => m \in log'.heirs
<1>1. Placed' /\ Typed'
  BY PlacedStep, TypedStep
<1>2. PICK n \in Messages, secure \in BOOLEAN :
        /\ n \notin log.composed /\ ~Present(w)
        /\ row'[w].m = n /\ row'[w].secure = secure /\ row'[w].base = "sending"
        /\ \A o \in Ids : o # w => row'[o] = row[o]
        /\ log'.composed = log.composed \cup {n}
        /\ log'.secure = IF secure THEN log.secure \cup {n} ELSE log.secure
        /\ log'.heirs = IF Named(w) THEN log.heirs \cup {n} ELSE log.heirs
        /\ log'.clear = log.clear /\ log'.copies = log.copies
        /\ sender'.pc = "route" /\ sender'.row = w
        /\ UNCHANGED <<adding, stored, queue, consumer, lastId, radio, used>>
  BY ComposeFacts
<1>3. InFlight(m)' = {}
  <2>1. \A c \in Consumers : Delivering(c, "push")' => consumer'[c].m # m
    BY <1>2 DEF Placed, Known, Delivering, Seeing
  <2> QED BY <2>1 DEF InFlight
<1>4. \A o \in Ids : row'[o].m = m => o = w
  <2>1. Present(w)'
    BY <1>2 DEF Present
  <2> QED BY <1>1, <2>1 DEF Placed, RowsApart
<1>5. log'.copies[m] = 0
  <2>1. log.copies[m] \in Nat
    BY CountTypes
  <2> QED BY <1>2, <2>1 DEF Placed, Known
<1>6. DueFor(m)' \subseteq Due(w)'
  BY <1>3, <1>4 DEF DueFor
<1> HIDE DEF Named
<1>7. Named(w) => m \in log'.heirs
  BY <1>2
<1> QED BY <1>5, <1>6, <1>7

LEMMA BoundedStep ==
  ASSUME Typed, Jobs, Placed, IdsBounded, Bounded, [Next]_vars
  PROVE  Bounded'
<1> SUFFICES ASSUME NEW m \in Messages
             PROVE  log'.copies[m] + Cardinality(DueFor(m)') <= Causes' + Inherited(m)'
  BY DEF Bounded
<1> DEFINE A == DueFor(m)
           B == DueFor(m)'
           a == Cardinality(A)
           b == Cardinality(B)
           h == IF m \in log.heirs THEN used.deletes ELSE 0
           k == IF m \in log'.heirs THEN used'.deletes ELSE 0
           S == log.lostAcks + used.crashes + used.resends
           T == log'.lostAcks + used'.crashes + used'.resends
<1>1. /\ log.copies[m] \in Nat /\ log.lostAcks \in Nat /\ used.crashes \in Nat
      /\ used.resends \in Nat /\ used.deletes \in Nat
      /\ log'.copies[m] \in Nat /\ log'.lostAcks \in Nat /\ used'.crashes \in Nat
      /\ used'.resends \in Nat /\ used'.deletes \in Nat
  BY CountTypes, CountTypesNext
<1>3. IsFiniteSet(A) /\ IsFiniteSet(B)
  <2>1. FiniteDue /\ FiniteDue'
    BY TypedStep, JobsStep, DueFinite, PTL
  <2> QED BY <2>1 DEF FiniteDue
<1>4. /\ B \subseteq A => b <= a
      /\ \A x : B \subseteq A \cup {x} => b <= a + 1
      /\ \A x \in A : B \subseteq A \ {x} => b <= a - 1
      /\ \A x \in A : \A y : B \subseteq (A \ {x}) \cup {y} => b <= a
      /\ a \in Nat /\ b \in Nat
  BY <1>3, Counting
<1>5. /\ S \in Nat /\ T \in Nat /\ T >= S /\ h \in Nat /\ k \in Nat /\ k >= h
      /\ Crash => T >= S + 1 /\ log'.copies[m] = log.copies[m]
      /\ (\E n \in Ids : Resend(n)) => T >= S + 1 /\ log'.copies[m] = log.copies[m]
  BY <1>1, CopiesStep, LogGrows
<1>2. log.copies[m] + a <= 1 + S + h
  <2>1. log.copies[m] + a <= Causes + h
    BY DEF Bounded, Inherited
  <2>2. Causes = 1 + S
    BY <1>1 DEF Causes
  <2> HIDE DEF a, S, h
  <2> QED BY <2>1, <2>2
<1>6. /\ SameOrTaken(m)
      /\ log'.lostAcks = log.lostAcks + 1 => T >= S + 1
  BY <1>1, CopiesStep
<1>7. ASSUME log'.copies[m] + b <= 1 + T + k
      PROVE  log'.copies[m] + Cardinality(DueFor(m)') <= Causes' + Inherited(m)'
  <2>1. Causes' = 1 + T
    BY <1>1 DEF Causes
  <2>2. Inherited(m)' = k
    BY DEF Inherited
  <2>3. b = Cardinality(DueFor(m)')
    OBVIOUS
  <2> HIDE DEF b, T, k
  <2> QED BY <1>7, <2>1, <2>2, <2>3
<1>8. ASSUME log'.copies[m] = log.copies[m], b <= a \/ (b <= a + 1 /\ T >= S + 1)
      PROVE  log'.copies[m] + b <= 1 + T + k
  <2> HIDE DEF a, b, h, k, S, T
  <2> QED BY <1>1, <1>2, <1>4, <1>5, <1>8
<1>9. CASE Crash
  <2>1. PICK t : B \subseteq A \cup {t}
    BY <1>9, DueForCrash
  <2> HIDE DEF A, B
  <2>2. b <= a + 1
    BY <1>4, <2>1
  <2> HIDE DEF a, b, h, k, S, T
  <2> QED BY <1>5, <1>7, <1>8, <1>9, <2>2
<1>10. CASE ~Crash /\ m \in log.composed
  <2>1. /\ \/ B \subseteq A
           \/ (\E n \in Ids : Resend(n)) /\ B \subseteq A \cup {0}
           \/ /\ \E isPush \in BOOLEAN : RouteMessage(isPush)
              /\ 0 \in A /\ 0 \notin B
              /\ B \subseteq A \cup {lastId + Len(adding) + 1}
        /\ \A c \in Consumers : PushDelivered(c) /\ consumer[c].m = m
             => consumer[c].job.id \in A /\ consumer[c].job.id \notin B
    BY <1>10, DueForStep
  <2> HIDE DEF A, B
  <2>2. CASE log'.copies[m] = log.copies[m]
    <3>1. CASE B \subseteq A
      BY <1>4, <1>7, <1>8, <2>2, <3>1
    <3>2. CASE (\E n \in Ids : Resend(n)) /\ B \subseteq A \cup {0}
      <4>1. b <= a + 1 /\ T >= S + 1
        BY <1>4, <1>5, <3>2
      <4> HIDE DEF a, b, h, k, S, T
      <4> QED BY <1>7, <1>8, <2>2, <4>1
    <3>3. CASE 0 \in A /\ 0 \notin B /\ B \subseteq A \cup {lastId + Len(adding) + 1}
      <4>1. PICK x : x = lastId + Len(adding) + 1
        OBVIOUS
      <4>2. B \subseteq (A \ {0}) \cup {x}
        BY <3>3, <4>1
      <4>3. b <= a
        BY <1>4, <3>3, <4>2
      <4> HIDE DEF a, b, h, k, S, T
      <4> QED BY <1>7, <1>8, <2>2, <4>3
    <3> QED BY <2>1, <3>1, <3>2, <3>3
  <2>3. ASSUME NEW c \in Consumers, Taken(c, m),
               PushDelivered(c) \/ (PushIOException(c) /\ log'.lostAcks = log.lostAcks + 1)
        PROVE  log'.copies[m] + b <= 1 + T + k
    <3>1. log'.copies[m] = log.copies[m] + 1 /\ consumer[c].m = m
      BY <2>3 DEF Taken
    <3>2. B \subseteq A
      <4>1. ~(\E n \in Ids : Resend(n))
        BY <1>1, <1>5, <3>1
      <4>2. ~(\E isPush \in BOOLEAN : RouteMessage(isPush))
        <5>1. (\E isPush \in BOOLEAN : RouteMessage(isPush)) => log' = log
          BY DEF RouteMessage
        <5> QED BY <1>1, <3>1, <5>1
      <4> QED BY <2>1, <4>1, <4>2
    <3>3. CASE PushDelivered(c)
      <4>1. PICK t : t = consumer[c].job.id
        OBVIOUS
      <4>2. t \in A /\ B \subseteq A \ {t}
        BY <2>1, <3>1, <3>2, <3>3, <4>1
      <4>3. b <= a - 1
        BY <1>4, <4>2
      <4> HIDE DEF a, b, h, k, S, T
      <4> QED BY <1>1, <1>2, <1>4, <1>5, <3>1, <4>3
    <3>4. CASE log'.lostAcks = log.lostAcks + 1
      <4>1. b <= a /\ T >= S + 1
        BY <1>4, <1>6, <3>2, <3>4
      <4> HIDE DEF a, b, h, k, S, T
      <4> QED BY <1>1, <1>2, <1>4, <1>5, <3>1, <4>1
    <3> QED BY <2>3, <3>3, <3>4
  <2> QED BY <1>6, <1>7, <2>2, <2>3 DEF SameOrTaken
<1>11. CASE m \notin log.composed /\ m \notin log'.composed
  <2>1. Known' /\ Typed'
    BY PlacedStep, TypedStep DEF Placed
  <2>2. log'.copies[m] = 0
    BY <1>1, <1>11, <2>1 DEF Known
  <2>3. B = {}
    <3>1. row' \in [Ids -> Row \cup {NoRow}]
      BY <2>1 DEF Typed
    <3>2. \A w \in Ids : row'[w].m # m
      BY <1>11, <2>1, <3>1, NoMessageAssumption DEF Known, Present, NoRow, Row, BaseTypes
    <3>3. InFlight(m)' = {}
      BY <1>11, <2>1 DEF Known, InFlight, Delivering, Seeing
    <3> QED BY <3>2, <3>3 DEF DueFor
  <2> HIDE DEF B
  <2>4. b = 0
    BY <2>3, FS_EmptySet
  <2> HIDE DEF a, b, h, k, S, T
  <2> QED BY <1>5, <1>7, <2>2, <2>4
<1>12. CASE m \notin log.composed /\ m \in log'.composed
  <2>1. PICK w \in Ids : ComposeAt(w) /\ row'[w].m = m
    <3>1. PICK w \in Ids : ComposeAt(w)
      BY <1>12, LogGrows
    <3>2. row'[w].m = m
      BY <1>12, <3>1, FreshRow
    <3> QED BY <3>1, <3>2
  <2>2. /\ B \subseteq Due(w)' /\ log'.copies[m] = 0
        /\ Named(w) => m \in log'.heirs
    BY <1>12, <2>1, DueForFresh
  <2>3. Due(w)' \subseteq Due(w) \cup {0} /\ (~Named(w) => Due(w)' \subseteq {0})
    BY <2>1, ComposedDue
  <2>4. CASE ~Named(w)
    <3>1. B \subseteq {} \cup {0}
      BY <2>2, <2>3, <2>4
    <3> HIDE DEF B
    <3>2. b <= 0 + 1
      BY <3>1, Counting, FS_EmptySet
    <3> HIDE DEF a, b, h, k, S, T
    <3> QED BY <1>4, <1>5, <1>7, <2>2, <3>2
  <2>5. CASE Named(w)
    <3>1. B \subseteq Due(w) \cup {0} /\ m \in log'.heirs
      BY <2>2, <2>3, <2>5
    <3>2. IsFiniteSet(Due(w))
      BY DueFinite DEF FiniteDue
    <3>3. ~Present(w)
      BY <2>1, ComposeFacts
    <3>4. Cardinality(Due(w)) + 1 <= 1 + S + used.deletes
      <4>1. Cardinality(Due(w)) + 1 <= Causes + used.deletes
        BY <3>3 DEF IdsBounded
      <4>2. Causes = 1 + S
        BY <1>1 DEF Causes
      <4> HIDE DEF S
      <4> QED BY <4>1, <4>2
    <3>5. used'.deletes >= used.deletes
      BY CopiesStep
    <3>6. Cardinality(Due(w)) \in Nat
      BY <3>2, FS_CardinalityType
    <3> HIDE DEF B
    <3>7. b <= Cardinality(Due(w)) + 1
      BY <3>1, <3>2, Counting
    <3>8. k = used'.deletes
      BY <3>1
    <3> HIDE DEF a, b, h, k, S, T
    <3> QED BY <1>1, <1>4, <1>5, <1>7, <2>2, <3>4, <3>5, <3>6, <3>7, <3>8
  <2> QED BY <2>4, <2>5
<1> QED BY <1>9, <1>10, <1>11, <1>12

(* The server is given a message once, and once more at most for every     *)
(* answer that was lost, every crash and every time the user sends a       *)
(* message again.  Only a message under an id that was still named may     *)
(* come once more for every deletion: a job of the deleted message finds   *)
(* it.  A row that is gone has left that job behind, which the bound on    *)
(* what is due under its id counts beforehand.                             *)
THEOREM RepeatsHaveCauses == Spec => []RepeatsExplained
<1>1. Init => IdsBounded /\ Bounded
  <2> SUFFICES ASSUME Init PROVE IdsBounded /\ Bounded
    OBVIOUS
  <2>1. /\ log.lostAcks = 0 /\ used.crashes = 0 /\ used.resends = 0 /\ used.deletes = 0
        /\ \A m \in Messages : log.copies[m] = 0 /\ m \notin log.heirs
    BY DEF Init
  <2>2. \A w \in Ids : Due(w) = {}
    BY DEF Init, StoredIds, AddingIds, SenderId, Idle, Tokens, Due
  <2>3. \A m \in Messages : DueFor(m) = {}
    BY <2>2 DEF Init, DueFor, InFlight, Delivering, Idle
  <2>4. Cardinality({}) = 0
    BY FS_EmptySet
  <2>5. IdsBounded
    BY <2>1, <2>2, <2>4 DEF IdsBounded, Causes
  <2>6. Bounded
    BY <2>1, <2>3, <2>4 DEF Bounded, Causes, Inherited
  <2> QED BY <2>5, <2>6
<1>2. /\ IdsBounded /\ Bounded /\ Placed /\ Typed /\ Jobs /\ [Next]_vars
           => (IdsBounded /\ Bounded)'
  BY IdsBoundedStep, BoundedStep
<1>3. Typed /\ Jobs /\ Bounded => RepeatsExplained
  <2> SUFFICES ASSUME Typed, Jobs, Bounded, NEW m \in Messages
               PROVE  log.copies[m] <= Causes + Inherited(m)
    BY DEF RepeatsExplained, Causes, Inherited
  <2>1. Cardinality(DueFor(m)) \in Nat
    BY DueFinite, FS_CardinalityType DEF FiniteDue
  <2>2. log.copies[m] + Cardinality(DueFor(m)) <= Causes + Inherited(m)
    BY DEF Bounded
  <2>3. Causes \in Nat /\ Inherited(m) \in Nat
    BY CountTypes DEF Causes, Inherited
  <2>4. log.copies[m] \in Nat
    BY CountTypes
  <2> QED BY <2>1, <2>2, <2>3, <2>4
<1> QED BY <1>1, <1>2, <1>3, AlwaysTyped, AlwaysJobs, AlwaysPlaced, PTL DEF Spec
=============================================================================
