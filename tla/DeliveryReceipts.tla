-------------------------- MODULE DeliveryReceipts --------------------------
(***************************************************************************)
(* Receipts for the messages of this account.  A receipt names a message   *)
(* by its timestamp and comes from one who received it.  It is counted in  *)
(* the row of that message; as nobody knows in which table that row is,    *)
(* both are asked, and each that has none keeps the receipt in a cache of  *)
(* its own, for the case that the row is yet to come.  It is yet to come   *)
(* when a linked device has sent the message: the receipt is handled by    *)
(* the thread that reads from the server, and the transcript by a job.     *)
(*                                                                         *)
(* The insertion of a row first looks in the cache and then inserts; a     *)
(* receipt is first looked up and then counted or cached.                  *)
(***************************************************************************)
EXTENDS Naturals, Sequences, FiniteSets

Seqs == INSTANCE SequencesExt

CONSTANTS
  Times,          \* timestamps, each of one message
  Texts,          \* the messages in the SMS table; the others are media
  Groups,         \* the media messages to a group
  Linked,         \* the messages a linked device has sent
  Retimed,        \* those whose transcript brings another timer
  Members,        \* of a group
  Handlers,       \* threads that read from the server
  CacheSize,      \* the code's 100
  Repeated,       \* bound: the messages whose receipts may come again,
  MaxDeliveries,  \* bound: and how often they come
  MaxCrashes      \* bound

ASSUME MessagesAssumption ==
  /\ Texts \subseteq Times /\ Groups \subseteq Times \ Texts
  /\ Linked \subseteq Times /\ Retimed \subseteq Linked
ASSUME HandlersAssumption == IsFiniteSet(Handlers)
ASSUME CacheAssumption    == CacheSize \in Nat \ {0}
ASSUME ReceiptBoundAssumption == MaxDeliveries \in Nat \ {0} /\ MaxCrashes \in Nat

Tables == {"sms", "mms"}

Senders(time) == IF time \in Groups THEN Members ELSE {"recipient"}

Receipts == {r \in [time : Times, sender : Members \cup {"recipient"}] :
               r.sender \in Senders(r.time)}

(* A transcript that brings another timer inserts a media row of its own   *)
(* first, under the same timestamp.                                        *)
Rows == {r \in [time : Times, kind : {"message", "update"}] :
           r.kind = "update" => r.time \in Retimed}

Table(r) == IF r.kind = "message" /\ r.time \in Texts THEN "sms" ELSE "mms"

(* What insertMessageOutbox looks for: the number of a group is nobody's.  *)
Key(r) == [time |-> r.time, sender |-> "recipient"]

Matching(receipt, table) ==
  {r \in Rows : r.time = receipt.time /\ Table(r) = table}

VARIABLES
  row,         \* none, taken (the cache was looked at), present, gone
  count,       \* RECEIPT_COUNT, from "taken" on
  cache,       \* EarlyReceiptCache of each table: [Receipts -> Nat]
  order,       \* the keys of a cache, the eldest first
  handler,     \* what each thread does
  deliveries,  \* how often a receipt was given
  counted,     \* ghost: rows for which a receipt was dealt with
  missed,      \* ghost: rows some receipt of which is excused, see below
  crashes

vars == <<row, count, cache, order, handler, deliveries, counted,
          missed, crashes>>

Idle == [at |-> "idle"]

Init ==
  /\ row        = [r \in Rows |-> "none"]
  /\ count      = [r \in Rows |-> 0]
  /\ cache      = [t \in Tables |-> [k \in Receipts |-> 0]]
  /\ order      = [t \in Tables |-> <<>>]
  /\ handler    = [h \in Handlers |-> Idle]
  /\ deliveries = [k \in Receipts |-> 0]
  /\ counted = {} /\ missed = {}
  /\ crashes = 0

-----------------------------------------------------------------------------
(* EarlyReceiptCache                                                       *)

(* Mutant: the eldest entry goes one too late.                             *)
IncrementOneMore(table, key) ==
  LET grown == IF cache[table][key] # 0 THEN order[table]
                                        ELSE Append(order[table], key)
      full  == Len(grown) > CacheSize + 1
  IN  /\ order' = [order EXCEPT ![table] = IF full THEN Tail(grown) ELSE grown]
      /\ cache' = [cache EXCEPT ![table] =
           [k \in Receipts |-> IF full /\ k = Head(grown) THEN 0
                               ELSE IF k = key THEN @[k] + 1 ELSE @[k]]]

(* A new entry beyond the size drops the eldest; one that is counted again *)
(* keeps its place.                                                        *)
Increment(table, key) ==
  LET grown == IF cache[table][key] # 0 THEN order[table]
                                        ELSE Append(order[table], key)
      full  == Len(grown) > CacheSize
  IN  /\ order' = [order EXCEPT ![table] = IF full THEN Tail(grown) ELSE grown]
      /\ cache' = [cache EXCEPT ![table] =
           [k \in Receipts |-> IF full /\ k = Head(grown) THEN 0
                               ELSE IF k = key THEN @[k] + 1 ELSE @[k]]]

(* Mutant: the entry stays.                                                *)
Peek(table, key) == UNCHANGED <<cache, order>>

Remove(table, key) ==
  /\ cache' = [cache EXCEPT ![table] =
                [k \in Receipts |-> IF k = key THEN 0 ELSE @[k]]]
  /\ \/ /\ cache[table][key] = 0
        /\ UNCHANGED order
     \/ \E i \in DOMAIN order[table] :
          /\ order[table][i] = key
          /\ order' = [order EXCEPT ![table] = Seqs!RemoveAt(@, i)]

(* Early receipts a row would take over; a group's row takes none.         *)
Held(r) == IF r.time \in Groups THEN 0 ELSE cache[Table(r)][Key(r)]

-----------------------------------------------------------------------------
(* insertMessageOutbox, on the sender's thread or in a decryption job.     *)

Awaits(r) == r.kind = "message" /\ r.time \in Retimed
               => row[[time |-> r.time, kind |-> "update"]] \in {"present", "gone"}

(* A row of the same timestamp and table gets nothing of what this one     *)
(* takes.                                                                  *)
LookUp(r) ==
  /\ row[r] = "none" /\ Awaits(r)
  /\ row' = [row EXCEPT ![r] = "taken"]
  /\ IF r.time \in Groups
     THEN UNCHANGED <<count, cache, order, missed>>
     ELSE /\ count' = [count EXCEPT ![r] = Held(r)]
          /\ missed' = IF Held(r) = 0 THEN missed
                       ELSE missed \cup (Matching(Key(r), Table(r)) \ {r})
          /\ Remove(Table(r), Key(r))
  /\ UNCHANGED <<handler, deliveries, counted, crashes>>

(* Mutant: the column keeps its default.                                   *)
InsertUncounted(r) ==
  /\ row[r] = "taken"
  /\ row' = [row EXCEPT ![r] = "present"]
  /\ count' = [count EXCEPT ![r] = 0]
  /\ UNCHANGED <<cache, order, handler, deliveries, counted, missed,
                 crashes>>

InsertRow(r) ==
  /\ row[r] = "taken"
  /\ row' = [row EXCEPT ![r] = "present"]
  /\ UNCHANGED <<count, cache, order, handler, deliveries, counted,
                 missed, crashes>>

DeleteRow(r) ==
  /\ row[r] = "present"
  /\ row' = [row EXCEPT ![r] = "gone"]
  /\ UNCHANGED <<count, cache, order, handler, deliveries, counted,
                 missed, crashes>>

-----------------------------------------------------------------------------
(* PushReceivedJob.handleReceipt, on a thread that reads from the server.  *)

Do(h, step) == handler' = [handler EXCEPT ![h] = step]

Query(receipt, table) ==
  [at |-> "query", receipt |-> receipt, table |-> table]

After(receipt, table) ==
  IF table = "sms" THEN Query(receipt, "mms")
                   ELSE Idle

(* Nobody has a message before it was sent, and this phone sends its own   *)
(* after it has inserted the row.  The thread acknowledges when it is done *)
(* with both tables; that may be lost, so that the receipt comes again,    *)
(* also to the other thread meanwhile.                                     *)
Deliver(h, receipt) ==
  /\ handler[h] = Idle
  /\ deliveries[receipt] < IF receipt.time \in Repeated THEN MaxDeliveries ELSE 1
  /\ receipt.time \notin Linked =>
       row[[time |-> receipt.time, kind |-> "message"]] \in {"present", "gone"}
  /\ Do(h, Query(receipt, "sms"))
  /\ deliveries' = [deliveries EXCEPT ![receipt] = @ + 1]
  /\ UNCHANGED <<row, count, cache, order, counted, missed, crashes>>

(* The rows of the cursor; a row that is yet to come gets nothing if there *)
(* is another.                                                             *)
FindRows(h) ==
  /\ handler[h].at = "query"
  /\ LET receipt == handler[h].receipt
         table   == handler[h].table
         found   == {r \in Matching(receipt, table) : row[r] = "present"}
         others  == Matching(receipt, table) \ found
     IN  IF found = {}
         THEN /\ Do(h, [at |-> "cache", receipt |-> receipt, table |-> table])
              /\ UNCHANGED <<counted, missed>>
         ELSE /\ Do(h, [at |-> "update", receipt |-> receipt, table |-> table,
                        rows |-> found])
              /\ counted' = counted \cup others /\ missed' = missed \cup others
  /\ UNCHANGED <<row, count, cache, order, deliveries, crashes>>

(* An UPDATE of a row that was deleted meanwhile changes nothing.          *)
UpdateRow(h, r) ==
  /\ handler[h].at = "update" /\ r \in handler[h].rows
  /\ count' = IF row[r] = "present" THEN [count EXCEPT ![r] = @ + 1] ELSE count
  /\ Do(h, [handler[h] EXCEPT !.rows = @ \ {r}])
  /\ counted' = counted \cup {r}
  /\ UNCHANGED <<row, cache, order, deliveries, missed, crashes>>

Updated(h) ==
  /\ handler[h].at = "update" /\ handler[h].rows = {}
  /\ Do(h, After(handler[h].receipt, handler[h].table))
  /\ UNCHANGED <<row, count, cache, order, deliveries, counted, missed,
                 crashes>>

(* In vain for a row that has looked in the cache, for one to a group, and *)
(* for one whose entry is dropped.                                         *)
CacheReceipt(h) ==
  /\ handler[h].at = "cache"
  /\ LET receipt == handler[h].receipt
         table   == handler[h].table
         rows    == Matching(receipt, table)
     IN  /\ Increment(table, receipt)
         /\ Do(h, After(receipt, table))
         /\ counted' = counted \cup rows
         /\ missed' = missed
              \cup {r \in rows : row[r] # "none" \/ r.time \in Groups}
              \cup {r \in Rows : Held(r) > Held(r)'}
  /\ UNCHANGED <<row, count, deliveries, crashes>>

(* A decryption job is between the first and the last row of a transcript. *)
UnderWay(time) ==
  /\ time \in Linked
  /\ row[[time |-> time, kind |-> "message"]] \in {"none", "taken"}
  /\ \E r \in Rows : r.time = time /\ row[r] # "none"

(* The caches are in memory.  What is left of a transcript that a crash    *)
(* interrupts never comes: the cipher takes it for a duplicate.            *)
Crash ==
  /\ crashes < MaxCrashes
  /\ crashes' = crashes + 1
  /\ row' = [r \in Rows |-> IF row[r] \in {"present", "gone"} THEN row[r]
                            ELSE IF UnderWay(r.time) THEN "gone" ELSE "none"]
  /\ missed' = missed \cup {r \in Rows : Held(r) > 0}
  /\ cache' = [t \in Tables |-> [k \in Receipts |-> 0]]
  /\ order' = [t \in Tables |-> <<>>]
  /\ handler' = [h \in Handlers |-> Idle]
  /\ UNCHANGED <<count, deliveries, counted>>

Next ==
  \/ \E r \in Rows : LookUp(r) \/ InsertRow(r) \/ DeleteRow(r)
  \/ \E h \in Handlers :
       \/ \E receipt \in Receipts : Deliver(h, receipt)
       \/ FindRows(h)
       \/ \E r \in Rows : UpdateRow(h, r)
       \/ Updated(h) \/ CacheReceipt(h)
  \/ Crash

Spec == Init /\ [][Next]_vars
-----------------------------------------------------------------------------
(* Properties                                                              *)

Steps ==
  {Idle}
  \cup [at : {"query", "cache"}, receipt : Receipts, table : Tables]
  \cup [at : {"update"}, receipt : Receipts, table : Tables, rows : SUBSET Rows]

(* The types, and that a cache never holds more than it may: each of its   *)
(* keys is in the order, once.                                             *)
TypeOK ==
  /\ row \in [Rows -> {"none", "taken", "present", "gone"}]
  /\ count \in [Rows -> Nat]
  /\ cache \in [Tables -> [Receipts -> Nat]]
  /\ order \in [Tables -> Seq(Receipts)]
  /\ \A t \in Tables :
       /\ Len(order[t]) <= CacheSize
       /\ {order[t][i] : i \in 1 .. Len(order[t])}
            = {k \in Receipts : cache[t][k] # 0}
       /\ Len(order[t]) = Cardinality({k \in Receipts : cache[t][k] # 0})
  /\ handler \in [Handlers -> Steps]
  /\ deliveries \in [Receipts -> 0 .. MaxDeliveries]
  /\ counted \subseteq Rows /\ missed \subseteq Rows
  /\ crashes \in 0 .. MaxCrashes

(* A thread with a receipt that may still count it for a row.              *)
Owes(h, r) ==
  /\ handler[h].at \in {"query", "update", "cache"}
  /\ handler[h].receipt = Key(r)
  /\ \/ handler[h].table = "sms" /\ Table(r) = "mms"
     \/ /\ handler[h].table = Table(r)
        /\ handler[h].at = "update" => r \in handler[h].rows

(* No receipt is counted twice for a message to one recipient, by the row, *)
(* by the cache, or by both when the row takes over what the cache holds:  *)
(* the counts and the threads under way are covered by deliveries.         *)
CountedOnce ==
  \A r \in Rows :
    r.time \notin Groups =>
      count[r] + Held(r) + Cardinality({h \in Handlers : Owes(h, r)})
        <= deliveries[Key(r)]

(* A message is shown as delivered once a receipt for it was dealt with: a *)
(* message of this phone always, one of a linked device unless its receipt *)
(* came while the row was being inserted, or was dropped from the cache by *)
(* a hundred others or a crash, or was taken by the row of a timer change, *)
(* or came early from a member of a group.                                 *)
DeliveryShown ==
  \A r \in counted :
    row[r] = "present" => count[r] > 0 \/ (r.time \in Linked /\ r \in missed)
=============================================================================
