----------------------- MODULE DeliveryReceiptsProofs -----------------------
(***************************************************************************)
(* Proofs about DeliveryReceipts, for any number of messages, receipts,    *)
(* threads, repetitions and crashes and a cache of any size: no receipt is *)
(* counted twice, the variables keep their types and the caches their      *)
(* size, and what was received is shown.                                   *)
(*                                                                         *)
(* Counted once: for one row, the threads that still owe it a receipt      *)
(* (Owers) carry the receipt from its delivery to the row or the cache,    *)
(* and the cache from there to the row: each step moves what it moves, or  *)
(* drops it.  How the cache chooses its eldest does not matter for that.   *)
(***************************************************************************)
EXTENDS DeliveryReceipts, FiniteSetTheorems, SequenceTheorems, TLAPS

Typed ==
  /\ count \in [Rows -> Nat]
  /\ cache \in [Tables -> [Receipts -> Nat]]
  /\ deliveries \in [Receipts -> Nat]
  /\ handler \in [Handlers -> Steps]

(* A thread updates rows that match its receipt.                           *)
UpdatesMatch ==
  \A h \in Handlers : handler[h].at = "update" =>
    handler[h].rows \subseteq Matching(handler[h].receipt, handler[h].table)

Owers(r) == {h \in Handlers : Owes(h, r)}

(* What is counted, or may be, for a row.                                  *)
Sum(r) == count[r] + Held(r) + Cardinality(Owers(r))

Covered(r) == r.time \notin Groups => Sum(r) <= deliveries[Key(r)]

Inv == Typed /\ UpdatesMatch /\ \A r \in Rows : Covered(r)

-----------------------------------------------------------------------------
(* The key of a row to one recipient is a receipt.                         *)
LEMMA KeyIsReceipt ==
  ASSUME NEW r \in Rows, r.time \notin Groups
  PROVE  Key(r) \in Receipts
  BY DEF Key, Receipts, Rows, Senders

(* The only receipt for such a row is its key.                             *)
LEMMA MatchIsKey ==
  ASSUME NEW receipt \in Receipts, NEW table, NEW r \in Matching(receipt, table),
         r.time \notin Groups
  PROVE  receipt = Key(r)
  <1>1. r.time = receipt.time
    BY DEF Matching
  <1>2. receipt.sender = "recipient"
    BY <1>1 DEF Receipts, Senders
  <1>3. receipt = [time |-> receipt.time, sender |-> receipt.sender]
    BY DEF Receipts
  <1> QED
    BY <1>1, <1>2, <1>3 DEF Key

LEMMA TableIsTable == ASSUME NEW r \in Rows PROVE Table(r) \in Tables
  BY DEF Table, Tables

(* Of finite sets: a part is no larger, one more is at most one larger, and *)
(* one less is one smaller.                                                *)
LEMMA PartIsSmaller ==
  ASSUME NEW S, NEW U, S \subseteq U, U \subseteq Handlers
  PROVE  /\ Cardinality(S) \in Nat /\ Cardinality(U) \in Nat
         /\ Cardinality(S) <= Cardinality(U)
  BY HandlersAssumption, FS_Subset, FS_CardinalityType

LEMMA OneMore ==
  ASSUME NEW U, U \subseteq Handlers, NEW h \in Handlers,
         NEW S, S \subseteq U \cup {h}
  PROVE  /\ Cardinality(S) \in Nat /\ Cardinality(U) \in Nat
         /\ Cardinality(S) <= Cardinality(U) + 1
  <1>1. IsFiniteSet(U)
    BY HandlersAssumption, FS_Subset
  <1>2. Cardinality(U \cup {h}) <= Cardinality(U) + 1
    <2>1. Cardinality(U) \in Nat
      BY <1>1, FS_CardinalityType
    <2>2. Cardinality(U \cup {h})
            = IF h \in U THEN Cardinality(U) ELSE Cardinality(U) + 1
      BY <1>1, FS_AddElement
    <2> QED
      BY <2>1, <2>2
  <1>3. Cardinality(S) <= Cardinality(U \cup {h})
    BY PartIsSmaller
  <1> QED
    BY <1>2, <1>3, PartIsSmaller

LEMMA OneLess ==
  ASSUME NEW U, U \subseteq Handlers, NEW h \in U, NEW S, S \subseteq U \ {h}
  PROVE  /\ Cardinality(S) \in Nat /\ Cardinality(U) \in Nat
         /\ Cardinality(S) + 1 <= Cardinality(U)
  <1>1. IsFiniteSet(U)
    BY HandlersAssumption, FS_Subset
  <1>2. Cardinality(U \ {h}) = Cardinality(U) - 1
    BY <1>1, FS_RemoveElement
  <1>3. Cardinality(S) <= Cardinality(U \ {h})
    BY PartIsSmaller
  <1> QED
    BY <1>2, <1>3, PartIsSmaller

(* The three parts of a sum are numbers.                                   *)
LEMMA SumTyped ==
  ASSUME Typed, NEW r \in Rows
  PROVE  /\ count[r] \in Nat /\ Held(r) \in Nat
         /\ Cardinality(Owers(r)) \in Nat
         /\ r.time \notin Groups => deliveries[Key(r)] \in Nat
  <1>1. Owers(r) \subseteq Handlers
    BY DEF Owers
  <1>2. Cardinality(Owers(r)) \in Nat
    BY <1>1, PartIsSmaller
  <1>3. CASE r.time \in Groups
    BY <1>2, <1>3 DEF Typed, Held
  <1>4. CASE r.time \notin Groups
    BY <1>2, <1>4, KeyIsReceipt, TableIsTable DEF Typed, Held
  <1> QED
    BY <1>3, <1>4

(* A row stays covered when no part of its sum grows.                      *)
LEMMA NothingAdded ==
  ASSUME Typed, Typed', NEW r \in Rows, Covered(r), deliveries' = deliveries,
         count'[r] <= count[r], Held(r)' <= Held(r), Owers(r)' \subseteq Owers(r)
  PROVE  Covered(r)'
  <1>1. Cardinality(Owers(r)') <= Cardinality(Owers(r))
    BY PartIsSmaller DEF Owers
  <1>2. /\ count'[r] \in Nat /\ Held(r)' \in Nat
        /\ Cardinality(Owers(r)') \in Nat
    <2>1. Owers(r)' \subseteq Handlers
      BY DEF Owers
    <2>2. Cardinality(Owers(r)') \in Nat
      BY <2>1, PartIsSmaller
    <2>3. CASE r.time \in Groups
      BY <2>2, <2>3 DEF Typed, Held
    <2>4. CASE r.time \notin Groups
      BY <2>2, <2>4, KeyIsReceipt, TableIsTable DEF Typed, Held
    <2> QED
      BY <2>3, <2>4
  <1>3. Sum(r)' <= Sum(r) /\ Sum(r) \in Nat /\ Sum(r)' \in Nat
    BY <1>1, <1>2, SumTyped DEF Sum
  <1> QED
    BY <1>3, SumTyped DEF Covered, Key

(* A row stays covered by a delivery when its sum grows by one at most.    *)
LEMMA OneDelivered ==
  ASSUME Typed, Typed', NEW r \in Rows, Covered(r), NEW h \in Handlers,
         r.time \notin Groups => deliveries'[Key(r)] = deliveries[Key(r)] + 1,
         count' = count, cache' = cache, Owers(r)' \subseteq Owers(r) \cup {h}
  PROVE  Covered(r)'
  <1>1. Held(r)' = Held(r)
    BY DEF Held
  <1>2. Cardinality(Owers(r)') <= Cardinality(Owers(r)) + 1
    BY OneMore DEF Owers
  <1>3. Owers(r)' \subseteq Handlers
    BY DEF Owers
  <1>4. Cardinality(Owers(r)') \in Nat
    BY <1>3, PartIsSmaller
  <1>5. Sum(r)' <= Sum(r) + 1 /\ Sum(r) \in Nat /\ Sum(r)' \in Nat
    BY <1>1, <1>2, <1>4, SumTyped DEF Sum
  <1> QED
    BY <1>5, SumTyped DEF Covered, Key

(* A row stays covered when one thread pays what it owes, to the row or to *)
(* the cache.                                                              *)
LEMMA OnePaid ==
  ASSUME Typed, Typed', NEW r \in Rows, Covered(r), deliveries' = deliveries,
         NEW h \in Owers(r), Owers(r)' \subseteq Owers(r) \ {h},
         count'[r] \in Nat, Held(r)' \in Nat,
         count'[r] + Held(r)' <= count[r] + Held(r) + 1
  PROVE  Covered(r)'
  <1>1. Cardinality(Owers(r)') + 1 <= Cardinality(Owers(r))
    BY OneLess DEF Owers
  <1>2. Owers(r)' \subseteq Handlers
    BY DEF Owers
  <1>3. Cardinality(Owers(r)') \in Nat
    BY <1>2, PartIsSmaller
  <1>4. Sum(r)' <= Sum(r) /\ Sum(r) \in Nat /\ Sum(r)' \in Nat
    BY <1>1, <1>3, SumTyped DEF Sum
  <1> QED
    BY <1>4, SumTyped DEF Covered, Key

-----------------------------------------------------------------------------
(* The caches.                                                             *)

LEMMA RemoveEmpties ==
  ASSUME Typed, NEW table \in Tables, NEW key \in Receipts, Remove(table, key)
  PROVE  /\ cache' \in [Tables -> [Receipts -> Nat]]
         /\ cache'[table][key] = 0
         /\ \A t \in Tables, k \in Receipts : cache'[t][k] <= cache[t][k]
  <1> DEFINE emptied == [k \in Receipts |-> IF k = key THEN 0 ELSE cache[table][k]]
  <1>1. cache' = [cache EXCEPT ![table] = emptied]
    BY DEF Remove
  <1>2. /\ emptied \in [Receipts -> Nat] /\ emptied[key] = 0
        /\ \A k \in Receipts : emptied[k] <= cache[table][k]
    BY DEF Typed
  <1> HIDE DEF emptied
  <1>3. cache' \in [Tables -> [Receipts -> Nat]]
    BY <1>1, <1>2 DEF Typed
  <1>4. cache'[table] = emptied /\ \A t \in Tables \ {table} : cache'[t] = cache[t]
    BY <1>1 DEF Typed
  <1>5. \A t \in Tables, k \in Receipts : cache[t][k] \in Nat
    BY DEF Typed
  <1> QED
    BY <1>2, <1>3, <1>4, <1>5

LEMMA IncrementAddsOne ==
  ASSUME Typed, NEW table \in Tables, NEW key \in Receipts, Increment(table, key)
  PROVE  /\ cache' \in [Tables -> [Receipts -> Nat]]
         /\ cache'[table][key] <= cache[table][key] + 1
         /\ \A t \in Tables, k \in Receipts :
              t # table \/ k # key => cache'[t][k] <= cache[t][k]
  <1> DEFINE grown == IF cache[table][key] # 0 THEN order[table]
                                               ELSE Append(order[table], key)
             drops(k) == Len(grown) > CacheSize /\ k = Head(grown)
             next == [k \in Receipts |-> IF drops(k) THEN 0
                                         ELSE IF k = key THEN cache[table][k] + 1
                                                         ELSE cache[table][k]]
  <1>1. cache' = [cache EXCEPT ![table] = next]
    BY DEF Increment
  <1> HIDE DEF drops
  <1>2. /\ next \in [Receipts -> Nat] /\ next[key] <= cache[table][key] + 1
        /\ \A k \in Receipts \ {key} : next[k] <= cache[table][k]
    BY DEF Typed
  <1> HIDE DEF next
  <1>3. cache' \in [Tables -> [Receipts -> Nat]]
    BY <1>1, <1>2 DEF Typed
  <1>4. cache'[table] = next /\ \A t \in Tables \ {table} : cache'[t] = cache[t]
    BY <1>1 DEF Typed
  <1>5. \A t \in Tables, k \in Receipts : cache[t][k] \in Nat
    BY DEF Typed
  <1> QED
    BY <1>2, <1>3, <1>4, <1>5

-----------------------------------------------------------------------------
(* The threads.                                                            *)

(* A thread that does something else leaves the others as they are.        *)
LEMMA DoKeeps ==
  ASSUME Typed, UpdatesMatch, NEW h \in Handlers, NEW step \in Steps, Do(h, step),
         step.at = "update" =>
           step.rows \subseteq Matching(step.receipt, step.table)
  PROVE  /\ handler' \in [Handlers -> Steps] /\ UpdatesMatch'
         /\ handler'[h] = step
         /\ \A g \in Handlers \ {h} : handler'[g] = handler[g]
  BY DEF Typed, UpdatesMatch, Do, Matching, Table

(* Then only what that thread owes may change.                             *)
LEMMA OthersOwe ==
  ASSUME NEW h \in Handlers, NEW r \in Rows,
         \A g \in Handlers \ {h} : handler'[g] = handler[g]
  PROVE  /\ Owers(r)' \subseteq Owers(r) \cup {h}
         /\ Owes(h, r) /\ ~Owes(h, r)' =>
              h \in Owers(r) /\ Owers(r)' \subseteq Owers(r) \ {h}
         /\ (Owes(h, r)' => Owes(h, r)) => Owers(r)' \subseteq Owers(r)
  BY DEF Owers, Owes, Key, Table

(* A step that leaves the counts and the caches, and makes one thread owe  *)
(* no more than before.                                                    *)
LEMMA StepKeeps ==
  ASSUME Inv, NEW h \in Handlers, NEW step \in Steps, Do(h, step),
         step.at = "update" =>
           step.rows \subseteq Matching(step.receipt, step.table),
         UNCHANGED <<count, cache, deliveries>>,
         \A r \in Rows : Owes(h, r)' => Owes(h, r)
  PROVE  Inv'
  <1>1. Typed' /\ UpdatesMatch' /\ \A g \in Handlers \ {h} : handler'[g] = handler[g]
    BY DoKeeps DEF Inv, Typed
  <1>2. ASSUME NEW r \in Rows PROVE Covered(r)'
    <2>1. Owers(r)' \subseteq Owers(r)
      BY <1>1, OthersOwe
    <2>2. count'[r] <= count[r] /\ Held(r)' <= Held(r)
      BY SumTyped DEF Inv, Held
    <2> QED
      BY <1>1, <2>1, <2>2, NothingAdded DEF Inv
  <1> QED
    BY <1>1, <1>2 DEF Inv

LEMMA DeliverKeeps ==
  ASSUME Inv, NEW h \in Handlers, NEW receipt \in Receipts, Deliver(h, receipt)
  PROVE  Inv'
  <1>1. Query(receipt, "sms") \in Steps
    BY DEF Query, Steps, Tables
  <1>2. handler' \in [Handlers -> Steps] /\ UpdatesMatch'
        /\ handler'[h] = Query(receipt, "sms")
        /\ \A g \in Handlers \ {h} : handler'[g] = handler[g]
    BY <1>1, DoKeeps DEF Inv, Deliver, Query
  <1>3. Typed'
    BY <1>2 DEF Inv, Typed, Deliver
  <1>4. ASSUME NEW r \in Rows PROVE Covered(r)'
    <2>1. CASE r.time \notin Groups /\ receipt = Key(r)
      <3>1. deliveries'[Key(r)] = deliveries[Key(r)] + 1
        BY <2>1 DEF Deliver, Inv, Typed
      <3> QED
        BY <1>2, <1>3, <3>1, OthersOwe, OneDelivered DEF Inv, Deliver
    <2>2. CASE r.time \notin Groups /\ receipt # Key(r)
      <3>1. ~Owes(h, r)'
        BY <1>2, <2>2 DEF Owes, Query, Key
      <3>2. Owers(r)' \subseteq Owers(r)
        BY <1>2, <3>1, OthersOwe
      <3>3. Cardinality(Owers(r)') <= Cardinality(Owers(r)) /\ Cardinality(Owers(r)') \in Nat
        BY <3>2, PartIsSmaller DEF Owers
      <3>4. Held(r)' = Held(r) /\ count' = count
        BY DEF Deliver, Held
      <3>5. Sum(r)' <= Sum(r) /\ Sum(r) \in Nat /\ Sum(r)' \in Nat
        BY <3>3, <3>4, SumTyped DEF Sum, Inv
      <3>6. deliveries'[Key(r)] = deliveries[Key(r)]
        BY <2>2, KeyIsReceipt DEF Deliver, Inv, Typed
      <3> QED
        BY <3>5, <3>6, SumTyped DEF Covered, Inv, Key
    <2>3. CASE r.time \in Groups
      BY <2>3 DEF Covered
    <2> QED
      BY <2>1, <2>2, <2>3
  <1> QED
    BY <1>2, <1>3, <1>4 DEF Inv

(* The step after a table owes what is left for the other one.             *)
LEMMA AfterIsStep ==
  ASSUME NEW receipt \in Receipts, NEW table \in Tables
  PROVE  /\ After(receipt, table) \in Steps
         /\ After(receipt, table).at # "update"
  BY DEF After, Query, Steps, Idle, Tables

LEMMA StepTyped ==
  ASSUME Inv, NEW h \in Handlers, handler[h].at \in {"query", "cache", "update"}
  PROVE  /\ handler[h].receipt \in Receipts /\ handler[h].table \in Tables
         /\ handler[h].at = "update" =>
              /\ handler[h].rows \subseteq Matching(handler[h].receipt, handler[h].table)
              /\ handler[h] \in [at : {"update"}, receipt : Receipts,
                                 table : Tables, rows : SUBSET Rows]
  <1>1. handler[h] \in Steps
    BY DEF Inv, Typed
  <1> QED
    BY <1>1 DEF Inv, UpdatesMatch, Steps, Idle

LEMMA FindRowsKeeps ==
  ASSUME Inv, NEW h \in Handlers, FindRows(h)
  PROVE  Inv'
  <1> DEFINE receipt == handler[h].receipt
             table   == handler[h].table
             found   == {r \in Matching(receipt, table) : row[r] = "present"}
  <1>1. handler[h].at = "query" /\ receipt \in Receipts /\ table \in Tables
    BY StepTyped DEF FindRows
  <1>2. UNCHANGED <<count, cache, deliveries>>
    BY DEF FindRows
  <1>3. CASE Do(h, [at |-> "cache", receipt |-> receipt, table |-> table])
    <2> DEFINE step == [at |-> "cache", receipt |-> receipt, table |-> table]
    <2>1. step \in Steps /\ step.at # "update"
      BY <1>1 DEF Steps
    <2>2. handler'[h] = step
      BY <1>3, <2>1, DoKeeps DEF Inv
    <2>3. \A r \in Rows : Owes(h, r)' => Owes(h, r)
      BY <1>1, <2>2 DEF Owes, Key, Table
    <2> QED
      BY <1>2, <1>3, <2>1, <2>3, StepKeeps
  <1>4. CASE Do(h, [at |-> "update", receipt |-> receipt, table |-> table,
                    rows |-> found])
    <2> DEFINE step == [at |-> "update", receipt |-> receipt, table |-> table,
                        rows |-> found]
    <2>1. found \subseteq Matching(receipt, table) /\ found \in SUBSET Rows
      BY DEF Matching
    <2>2. step \in Steps
      BY <1>1, <2>1 DEF Steps
    <2>3. handler'[h] = step
      BY <1>4, <2>1, <2>2, DoKeeps DEF Inv
    <2>4. \A r \in Rows : Owes(h, r)' => Owes(h, r)
      BY <1>1, <2>3 DEF Owes, Key, Table
    <2> QED
      BY <1>2, <1>4, <2>1, <2>2, <2>4, StepKeeps
  <1> QED
    BY <1>3, <1>4 DEF FindRows

LEMMA UpdatedKeeps ==
  ASSUME Inv, NEW h \in Handlers, Updated(h)
  PROVE  Inv'
  <1> DEFINE step == After(handler[h].receipt, handler[h].table)
  <1>1. /\ handler[h].at = "update" /\ handler[h].rows = {}
        /\ handler[h].receipt \in Receipts /\ handler[h].table \in Tables
    BY StepTyped DEF Updated
  <1>2. step \in Steps /\ step.at # "update"
    BY <1>1, AfterIsStep
  <1>3. Do(h, step) /\ UNCHANGED <<count, cache, deliveries>>
    BY DEF Updated
  <1>4. handler'[h] = step
    BY <1>2, <1>3, DoKeeps DEF Inv
  <1>5. \A r \in Rows : Owes(h, r)' => Owes(h, r)
    BY <1>1, <1>4 DEF Owes, After, Query, Idle, Key, Table, Tables
  <1> QED
    BY <1>2, <1>3, <1>5, StepKeeps

(* The row gains what the thread no longer owes.                           *)
LEMMA UpdateRowKeeps ==
  ASSUME Inv, NEW h \in Handlers, NEW r \in Rows, UpdateRow(h, r)
  PROVE  Inv'
  <1> DEFINE step == [handler[h] EXCEPT !.rows = @ \ {r}]
  <1>1. /\ handler[h].at = "update" /\ r \in handler[h].rows
        /\ handler[h].receipt \in Receipts /\ handler[h].table \in Tables
        /\ handler[h].rows \subseteq Matching(handler[h].receipt, handler[h].table)
        /\ handler[h] \in [at : {"update"}, receipt : Receipts,
                           table : Tables, rows : SUBSET Rows]
    BY StepTyped DEF UpdateRow
  <1>2. /\ step \in Steps /\ step.at = "update"
        /\ step.receipt = handler[h].receipt /\ step.table = handler[h].table
        /\ step.rows = handler[h].rows \ {r}
    BY <1>1 DEF Steps
  <1>3. /\ handler' \in [Handlers -> Steps] /\ UpdatesMatch'
        /\ handler'[h] = step
        /\ \A g \in Handlers \ {h} : handler'[g] = handler[g]
    <2>1. step.rows \subseteq Matching(step.receipt, step.table)
      BY <1>1, <1>2
    <2>2. Do(h, step)
      BY DEF UpdateRow
    <2> HIDE DEF step
    <2> QED
      BY <1>2, <2>1, <2>2, DoKeeps DEF Inv
  <1> HIDE DEF step
  <1>4. /\ count' \in [Rows -> Nat] /\ count'[r] \in Nat
        /\ count'[r] <= count[r] + 1
        /\ \A q \in Rows \ {r} : count'[q] = count[q]
    BY DEF UpdateRow, Inv, Typed
  <1>5. Typed' /\ cache' = cache /\ deliveries' = deliveries
    BY <1>3, <1>4 DEF Inv, Typed, UpdateRow
  <1>6. \A q \in Rows : Held(q)' = Held(q) /\ Held(q) \in Nat /\ count[q] \in Nat
    BY <1>5, SumTyped DEF Held, Inv
  <1>7. ASSUME NEW q \in Rows PROVE Covered(q)'
    <2>1. CASE q = r /\ r.time \notin Groups
      <3>1. handler[h].receipt = Key(r) /\ Table(r) = handler[h].table
        BY <1>1, <2>1, MatchIsKey DEF Matching
      <3>2. Owes(h, r)
        BY <1>1, <3>1 DEF Owes
      <3>3. ~Owes(h, r)'
        BY <1>2, <1>3, <3>1 DEF Owes, Table, Key, Tables
      <3>4. h \in Owers(r) /\ Owers(r)' \subseteq Owers(r) \ {h}
        BY <1>3, <3>2, <3>3, OthersOwe
      <3> QED
        BY <1>4, <1>5, <1>6, <2>1, <3>4, OnePaid DEF Inv
    <2>2. CASE q # r
      <3>1. Owes(h, q)' => Owes(h, q)
        BY <1>1, <1>2, <1>3, <2>2 DEF Owes, Table, Key
      <3>2. Owers(q)' \subseteq Owers(q)
        BY <1>3, <3>1, OthersOwe
      <3> QED
        BY <1>4, <1>5, <1>6, <2>2, <3>2, NothingAdded DEF Inv
    <2>3. CASE q.time \in Groups
      BY <2>3 DEF Covered
    <2> QED
      BY <2>1, <2>2, <2>3
  <1> QED
    BY <1>3, <1>5, <1>7 DEF Inv

(* The cache gains what the thread no longer owes.                         *)
LEMMA CacheReceiptKeeps ==
  ASSUME Inv, NEW h \in Handlers, CacheReceipt(h)
  PROVE  Inv'
  <1> DEFINE receipt == handler[h].receipt
             table   == handler[h].table
             step    == After(receipt, table)
  <1>1. handler[h].at = "cache" /\ receipt \in Receipts /\ table \in Tables
    BY StepTyped DEF CacheReceipt
  <1>2. step \in Steps /\ step.at # "update"
    BY <1>1, AfterIsStep
  <1>3. /\ Do(h, step) /\ Increment(table, receipt)
        /\ count' = count /\ deliveries' = deliveries
    BY DEF CacheReceipt
  <1>4. /\ handler' \in [Handlers -> Steps] /\ UpdatesMatch'
        /\ handler'[h] = step
        /\ \A g \in Handlers \ {h} : handler'[g] = handler[g]
    BY <1>2, <1>3, DoKeeps DEF Inv
  <1>5. /\ cache' \in [Tables -> [Receipts -> Nat]]
        /\ cache'[table][receipt] <= cache[table][receipt] + 1
        /\ \A t \in Tables, k \in Receipts :
             t # table \/ k # receipt => cache'[t][k] <= cache[t][k]
    BY <1>1, <1>3, IncrementAddsOne DEF Inv
  <1>6. Typed'
    BY <1>3, <1>4, <1>5 DEF Inv, Typed
  <1>7. ASSUME NEW r \in Rows, r.time \notin Groups PROVE Covered(r)'
    <2>1. Key(r) \in Receipts /\ Table(r) \in Tables
      BY <1>7, KeyIsReceipt, TableIsTable
    <2>2. /\ Held(r) = cache[Table(r)][Key(r)] /\ Held(r)' = cache'[Table(r)][Key(r)]
          /\ Held(r) \in Nat /\ Held(r)' \in Nat /\ count[r] \in Nat
      BY <1>5, <1>7, <2>1 DEF Held, Table, Key, Inv, Typed
    <2>3. CASE receipt = Key(r) /\ table = Table(r)
      <3>1. Owes(h, r)
        BY <1>1, <2>3 DEF Owes
      <3>2. ~Owes(h, r)'
        BY <1>4, <2>1, <2>3 DEF Owes, After, Query, Idle, Table, Key, Tables
      <3>3. h \in Owers(r) /\ Owers(r)' \subseteq Owers(r) \ {h}
        BY <1>4, <3>1, <3>2, OthersOwe
      <3>4. Held(r)' <= Held(r) + 1
        BY <1>5, <2>2, <2>3
      <3>5. count'[r] \in Nat /\ count'[r] + Held(r)' <= count[r] + Held(r) + 1
        BY <1>3, <2>2, <3>4
      <3> HIDE DEF step
      <3> QED
        BY <1>3, <1>6, <2>2, <3>3, <3>5, OnePaid DEF Inv
    <2>4. CASE receipt # Key(r) \/ table # Table(r)
      <3>1. Owes(h, r)' => Owes(h, r)
        BY <1>1, <1>4 DEF Owes, After, Query, Idle, Table, Key, Tables
      <3>2. Owers(r)' \subseteq Owers(r)
        BY <1>4, <3>1, OthersOwe
      <3>3. Held(r)' <= Held(r)
        BY <1>5, <2>1, <2>2, <2>4
      <3>4. count'[r] <= count[r]
        BY <1>3, <2>2
      <3> QED
        BY <1>3, <1>6, <3>2, <3>3, <3>4, NothingAdded DEF Inv
    <2> QED
      BY <2>3, <2>4
  <1>8. \A r \in Rows : Covered(r)'
    BY <1>7 DEF Covered
  <1> QED
    BY <1>4, <1>6, <1>8 DEF Inv

-----------------------------------------------------------------------------
(* The row takes over what the cache gives up.                             *)
LEMMA LookUpKeeps ==
  ASSUME Inv, NEW r \in Rows, LookUp(r)
  PROVE  Inv'
  <1>1. handler' = handler /\ deliveries' = deliveries
    BY DEF LookUp
  <1>2. UpdatesMatch' /\ \A q \in Rows : Owers(q)' = Owers(q)
    BY <1>1 DEF Inv, UpdatesMatch, Matching, Table, Owers, Owes, Key
  <1>3. CASE r.time \in Groups
    <2>1. count' = count /\ cache' = cache
      BY <1>3 DEF LookUp
    <2>2. Typed'
      BY <1>1, <2>1 DEF Inv, Typed
    <2>3. \A q \in Rows : Held(q)' <= Held(q) /\ count'[q] <= count[q]
      BY <2>1, SumTyped DEF Inv, Held
    <2> QED
      BY <1>1, <1>2, <2>2, <2>3, NothingAdded DEF Inv
  <1>4. CASE r.time \notin Groups
    <2>1. Key(r) \in Receipts /\ Table(r) \in Tables
      BY <1>4, KeyIsReceipt, TableIsTable
    <2>2. count' = [count EXCEPT ![r] = Held(r)] /\ Remove(Table(r), Key(r))
      BY <1>4 DEF LookUp
    <2>3. /\ cache' \in [Tables -> [Receipts -> Nat]]
          /\ cache'[Table(r)][Key(r)] = 0
          /\ \A t \in Tables, k \in Receipts : cache'[t][k] <= cache[t][k]
      BY <2>1, <2>2, RemoveEmpties DEF Inv
    <2>4. /\ count' \in [Rows -> Nat] /\ count'[r] = Held(r)
          /\ \A q \in Rows \ {r} : count'[q] = count[q]
      BY <2>2, SumTyped DEF Inv, Typed
    <2>5. Typed'
      BY <1>1, <2>3, <2>4 DEF Inv, Typed
    <2>6. ASSUME NEW q \in Rows, q.time \notin Groups PROVE Covered(q)'
      <3>1. Key(q) \in Receipts /\ Table(q) \in Tables
        BY <2>6, KeyIsReceipt, TableIsTable
      <3>2. Held(q)' <= Held(q) /\ Held(q)' \in Nat
        BY <2>3, <2>6, <3>1 DEF Held, Table, Key
      <3>3. CASE q # r
        BY <1>1, <1>2, <2>4, <2>5, <3>2, <3>3, SumTyped, NothingAdded DEF Inv
      <3>4. CASE q = r
        <4>1. Held(r)' = 0
          BY <1>4, <2>3 DEF Held, Table, Key
        <4>2. Sum(r)' = Held(r) + Cardinality(Owers(r))
          BY <1>2, <2>4, <4>1, SumTyped DEF Sum, Inv
        <4>3. Sum(r)' <= Sum(r) /\ Sum(r) \in Nat /\ Sum(r)' \in Nat
          BY <4>2, SumTyped DEF Sum, Inv
        <4> QED
          BY <1>1, <1>4, <3>4, <4>3, SumTyped DEF Covered, Key, Inv
      <3> QED
        BY <3>3, <3>4
    <2>7. \A q \in Rows : Covered(q)'
      BY <2>6 DEF Covered
    <2> QED
      BY <1>2, <2>5, <2>7 DEF Inv
  <1> QED
    BY <1>3, <1>4

(* A crash forgets the caches and the threads, and leaves the rows.        *)
LEMMA CrashKeeps == ASSUME Inv, Crash PROVE Inv'
  <1>1. /\ count' = count /\ deliveries' = deliveries
        /\ handler' = [h \in Handlers |-> Idle]
        /\ cache' = [t \in Tables |-> [k \in Receipts |-> 0]]
    BY DEF Crash
  <1>2. \A h \in Handlers : handler'[h].at = "idle"
    BY <1>1 DEF Idle
  <1>3. Typed' /\ UpdatesMatch'
    BY <1>1, <1>2 DEF Inv, Typed, UpdatesMatch, Steps
  <1>4. ASSUME NEW r \in Rows PROVE Covered(r)'
    <2>1. Owers(r)' \subseteq Owers(r)
      BY <1>2 DEF Owers, Owes
    <2>2. Held(r)' = 0
      <3>1. CASE r.time \in Groups
        BY <3>1 DEF Held
      <3>2. CASE r.time \notin Groups
        BY <1>1, <3>2, KeyIsReceipt, TableIsTable DEF Held, Table, Key
      <3> QED
        BY <3>1, <3>2
    <2>3. Held(r)' <= Held(r) /\ count'[r] <= count[r]
      BY <1>1, <2>2, SumTyped DEF Inv
    <2> QED
      BY <1>1, <1>3, <2>1, <2>3, NothingAdded DEF Inv
  <1> QED
    BY <1>3, <1>4 DEF Inv

(* What leaves the sums alone.                                             *)
LEMMA RestKeeps ==
  ASSUME Inv, UNCHANGED <<count, cache, handler, deliveries>>
  PROVE  Inv'
  BY DEF Inv, Typed, UpdatesMatch, Covered, Sum, Held, Owers, Owes, Key, Table,
         Matching

LEMMA InitInv == Init => Inv
  <1> SUFFICES ASSUME Init PROVE Inv
    OBVIOUS
  <1>1. \A h \in Handlers : handler[h].at = "idle"
    BY DEF Init, Idle
  <1>2. Typed /\ UpdatesMatch
    BY <1>1 DEF Init, Typed, UpdatesMatch, Steps
  <1>3. ASSUME NEW r \in Rows, r.time \notin Groups PROVE Sum(r) <= deliveries[Key(r)]
    <2>1. Owers(r) = {}
      BY <1>1 DEF Owers, Owes
    <2>2. Cardinality(Owers(r)) = 0
      BY <2>1, FS_EmptySet
    <2>3. count[r] = 0 /\ Held(r) = 0 /\ deliveries[Key(r)] = 0
      BY <1>3, KeyIsReceipt, TableIsTable DEF Init, Held
    <2> QED
      BY <2>2, <2>3 DEF Sum
  <1> QED
    BY <1>2, <1>3 DEF Inv, Covered

LEMMA NextInv == Inv /\ [Next]_vars => Inv'
  <1> SUFFICES ASSUME Inv, [Next]_vars PROVE Inv'
    OBVIOUS
  <1>1. ASSUME NEW r \in Rows, LookUp(r) PROVE Inv'
    BY <1>1, LookUpKeeps
  <1>2. ASSUME NEW r \in Rows, InsertRow(r) \/ DeleteRow(r) PROVE Inv'
    BY <1>2, RestKeeps DEF InsertRow, DeleteRow
  <1>3. ASSUME NEW h \in Handlers, NEW receipt \in Receipts, Deliver(h, receipt)
        PROVE  Inv'
    BY <1>3, DeliverKeeps
  <1>4. ASSUME NEW h \in Handlers, FindRows(h) PROVE Inv'
    BY <1>4, FindRowsKeeps
  <1>5. ASSUME NEW h \in Handlers, NEW r \in Rows, UpdateRow(h, r) PROVE Inv'
    BY <1>5, UpdateRowKeeps
  <1>6. ASSUME NEW h \in Handlers, Updated(h) PROVE Inv'
    BY <1>6, UpdatedKeeps
  <1>7. ASSUME NEW h \in Handlers, CacheReceipt(h) PROVE Inv'
    BY <1>7, CacheReceiptKeeps
  <1>8. ASSUME Crash PROVE Inv'
    BY <1>8, CrashKeeps
  <1>9. CASE UNCHANGED vars
    BY <1>9, RestKeeps DEF vars
  <1> QED
    BY <1>1, <1>2, <1>3, <1>4, <1>5, <1>6, <1>7, <1>8, <1>9 DEF Next

(* No receipt is counted twice for a message to one recipient, however the *)
(* receipt, the transcript, its repetitions and crashes interleave.        *)
THEOREM NeverCountedTwice == Spec => []CountedOnce
  <1>1. Inv => CountedOnce
    BY DEF Inv, Covered, Sum, Owers, CountedOnce
  <1> QED
    BY <1>1, InitInv, NextInv, PTL DEF Spec

-----------------------------------------------------------------------------
(* The caches keep their order.                                            *)

(* The keys of a cache are in its order, once each, and no more of them    *)
(* than it may hold.                                                       *)
Keeps(s, held) ==
  /\ Len(s) <= CacheSize
  /\ \A i, j \in 1 .. Len(s) : s[i] = s[j] => i = j
  /\ \A k \in Receipts : held[k] # 0 <=> \E i \in 1 .. Len(s) : s[i] = k

Ordered ==
  /\ order \in [Tables -> Seq(Receipts)]
  /\ \A t \in Tables : Keeps(order[t], cache[t])

(* What is left of a sequence without its i-th element.                    *)
LEMMA RemoveAtFacts ==
  ASSUME NEW S, NEW s \in Seq(S), NEW i \in 1 .. Len(s)
  PROVE  /\ Seqs!RemoveAt(s, i) \in Seq(S)
         /\ Len(Seqs!RemoveAt(s, i)) = Len(s) - 1
         /\ \A k \in 1 .. Len(s) - 1 :
              /\ k < i => Seqs!RemoveAt(s, i)[k] = s[k]
              /\ k >= i => Seqs!RemoveAt(s, i)[k] = s[k + 1]
  <1>1. i \in 1 .. Len(s) /\ Len(s) \in Nat
    OBVIOUS
  <1> DEFINE a == SubSeq(s, 1, i - 1)
             b == SubSeq(s, i + 1, Len(s))
  <1>2. a \in Seq(S) /\ Len(a) = i - 1 /\ \A k \in 1 .. (i - 1) : a[k] = s[k]
    BY <1>1
  <1>3. b \in Seq(S) /\ Len(b) = Len(s) - i /\ \A k \in 1 .. (Len(s) - i) : b[k] = s[k + i]
    BY <1>1
  <1>4. Seqs!RemoveAt(s, i) = a \o b
    BY DEF Seqs!RemoveAt
  <1> HIDE DEF a, b
  <1>5. a \o b \in Seq(S) /\ Len(a \o b) = Len(s) - 1
    <2>1. a \o b \in Seq(S) /\ Len(a \o b) = Len(a) + Len(b)
      BY <1>2, <1>3, ConcatProperties
    <2> QED
      BY <1>1, <1>2, <1>3, <2>1
  <1>6. ASSUME NEW k \in 1 .. (Len(s) - 1)
        PROVE  (k < i => (a \o b)[k] = s[k]) /\ (k >= i => (a \o b)[k] = s[k + 1])
    <2>1. k \in 1 .. (Len(a) + Len(b)) /\ k \in Int
      BY <1>1, <1>2, <1>3
    <2>2. (a \o b)[k] = IF k <= Len(a) THEN a[k] ELSE b[k - Len(a)]
      BY <1>2, <1>3, <2>1, ConcatProperties
    <2>3. k < i => (a \o b)[k] = s[k]
      BY <1>1, <1>2, <2>1, <2>2
    <2>4. ASSUME k >= i PROVE (a \o b)[k] = s[k + 1]
      <3>1. k - Len(a) \in 1 .. (Len(s) - i) /\ k - Len(a) + i = k + 1 /\ ~(k <= Len(a))
        BY <1>1, <1>2, <2>1, <2>4
      <3> QED
        BY <1>3, <2>2, <3>1
    <2> QED
      BY <2>3, <2>4
  <1> QED
    BY <1>1, <1>4, <1>5, <1>6

(* Where the k-th element was before the i-th went.                        *)
Place(i, k) == IF k < i THEN k ELSE k + 1

LEMMA RemoveAtPlaces ==
  ASSUME NEW S, NEW s \in Seq(S), NEW i \in 1 .. Len(s),
         NEW r, r = Seqs!RemoveAt(s, i), NEW n, n = Len(s) - 1
  PROVE  /\ \A k \in 1 .. n : /\ Place(i, k) \in 1 .. Len(s) /\ Place(i, k) # i
                              /\ r[k] = s[Place(i, k)]
         /\ \A k, l \in 1 .. n : Place(i, k) = Place(i, l) => k = l
         /\ \A j \in 1 .. Len(s) : j # i => \E k \in 1 .. n : Place(i, k) = j
  <1>1. \A k \in 1 .. n : (k < i => r[k] = s[k]) /\ (k >= i => r[k] = s[k + 1])
    BY RemoveAtFacts
  <1>2. Len(s) \in Nat /\ i \in 1 .. Len(s)
    OBVIOUS
  <1>3. ASSUME NEW j \in 1 .. Len(s), j # i PROVE \E k \in 1 .. n : Place(i, k) = j
    <2>1. CASE j < i
      <3>1. j \in 1 .. n /\ Place(i, j) = j
        BY <1>2, <2>1 DEF Place
      <3> QED
        BY <3>1
    <2>2. CASE j > i
      <3>1. j - 1 \in 1 .. n /\ Place(i, j - 1) = j
        BY <1>2, <2>2 DEF Place
      <3> QED
        BY <3>1
    <2> QED
      BY <1>2, <1>3, <2>1, <2>2
  <1>4. \A k \in 1 .. n :
          Place(i, k) \in 1 .. Len(s) /\ Place(i, k) # i /\ r[k] = s[Place(i, k)]
    BY <1>1, <1>2 DEF Place
  <1>5. \A k, l \in 1 .. n : Place(i, k) = Place(i, l) => k = l
    BY <1>1, <1>2 DEF Place
  <1> QED
    BY <1>3, <1>4, <1>5

(* Without its key, the order fits the cache without its entry.            *)
LEMMA RemovedKeeps ==
  ASSUME NEW s \in Seq(Receipts), NEW held, Keeps(s, held),
         NEW i \in 1 .. Len(s), NEW next,
         \A k \in Receipts : next[k] = IF k = s[i] THEN 0 ELSE held[k]
  PROVE  Seqs!RemoveAt(s, i) \in Seq(Receipts) /\ Keeps(Seqs!RemoveAt(s, i), next)
  <1>0. PICK r : r = Seqs!RemoveAt(s, i)
    OBVIOUS
  <1>1. r \in Seq(Receipts) /\ Len(r) = Len(s) - 1 /\ Len(s) \in Nat
    BY <1>0, RemoveAtFacts
  <1>2. PICK n : n = Len(s) - 1
    OBVIOUS
  <1>3. /\ \A k \in 1 .. n : /\ Place(i, k) \in 1 .. Len(s) /\ Place(i, k) # i
                             /\ r[k] = s[Place(i, k)]
        /\ \A k, l \in 1 .. n : Place(i, k) = Place(i, l) => k = l
        /\ \A j \in 1 .. Len(s) : j # i => \E k \in 1 .. n : Place(i, k) = j
    <2>1. s \in Seq(Receipts) /\ i \in 1 .. Len(s)
      OBVIOUS
    <2>2. \A k \in 1 .. n : /\ Place(i, k) \in 1 .. Len(s) /\ Place(i, k) # i
                             /\ r[k] = s[Place(i, k)]
      BY <1>0, <1>2, <2>1, RemoveAtPlaces
    <2>3. \A k, l \in 1 .. n : Place(i, k) = Place(i, l) => k = l
      BY <1>0, <1>2, <2>1, RemoveAtPlaces
    <2>4. \A j \in 1 .. Len(s) : j # i => \E k \in 1 .. n : Place(i, k) = j
      BY <1>0, <1>2, <2>1, RemoveAtPlaces
    <2> QED
      BY <2>2, <2>3, <2>4
  <1>4. /\ \A j, k \in 1 .. Len(s) : s[j] = s[k] => j = k
        /\ \A k \in Receipts : held[k] # 0 <=> \E j \in 1 .. Len(s) : s[j] = k
    BY DEF Keeps
  <1>5. ASSUME NEW j \in 1 .. n, NEW k \in 1 .. n, r[j] = r[k] PROVE j = k
    <2>1. s[Place(i, j)] = s[Place(i, k)]
      BY <1>3, <1>5
    <2>2. Place(i, j) = Place(i, k)
      BY <1>3, <1>4, <2>1
    <2> QED
      BY <1>3, <2>2
  <1>6. ASSUME NEW k \in Receipts
        PROVE  next[k] # 0 <=> \E j \in 1 .. n : r[j] = k
    <2>1. CASE k = s[i]
      <3>1. ASSUME NEW j \in 1 .. n, r[j] = k PROVE FALSE
        <4>1. s[Place(i, j)] = s[i] /\ Place(i, j) # i /\ Place(i, j) \in 1 .. Len(s)
          BY <1>3, <2>1, <3>1
        <4> QED
          BY <1>4, <4>1
      <3> QED
        BY <2>1, <3>1
    <2>2. CASE k # s[i]
      <3>1. ASSUME NEW j \in 1 .. n, r[j] = k PROVE \E l \in 1 .. Len(s) : s[l] = k
        BY <1>3, <3>1
      <3>2. ASSUME NEW l \in 1 .. Len(s), s[l] = k PROVE \E j \in 1 .. n : r[j] = k
        <4>1. PICK j \in 1 .. n : Place(i, j) = l
          BY <1>3, <2>2, <3>2
        <4> QED
          BY <1>3, <3>2, <4>1
      <3>3. next[k] = held[k]
        BY <2>2
      <3> QED
        BY <1>4, <3>1, <3>2, <3>3
    <2> QED
      BY <2>1, <2>2
  <1>7. Len(r) <= CacheSize /\ Len(r) = n
    BY <1>1, <1>2, CacheAssumption DEF Keeps
  <1>8. Keeps(r, next)
    BY <1>5, <1>6, <1>7 DEF Keeps
  <1> QED
    BY <1>0, <1>1, <1>8

(* Without its first key likewise.                                         *)
LEMMA TailKeeps ==
  ASSUME NEW s \in Seq(Receipts), s # <<>>, NEW held, NEW next, NEW key,
         \A i, j \in 1 .. Len(s) : s[i] = s[j] => i = j,
         \A k \in Receipts : held[k] # 0 <=> \E i \in 1 .. Len(s) : s[i] = k,
         \A k \in Receipts : next[k] # 0 <=> k # Head(s) /\ held[k] # 0,
         Len(s) <= CacheSize + 1
  PROVE  Tail(s) \in Seq(Receipts) /\ Keeps(Tail(s), next)
  <1>1. /\ Tail(s) \in Seq(Receipts) /\ Len(Tail(s)) = Len(s) - 1
        /\ Len(s) \in Nat /\ Len(s) # 0 /\ Head(s) = s[1]
        /\ \A k \in 1 .. Len(Tail(s)) : Tail(s)[k] = s[k + 1]
    BY HeadTailProperties
  <1>2. \A i, j \in 1 .. Len(Tail(s)) : Tail(s)[i] = Tail(s)[j] => i = j
    BY <1>1
  <1>3. ASSUME NEW k \in Receipts
        PROVE  next[k] # 0 <=> \E n \in 1 .. Len(Tail(s)) : Tail(s)[n] = k
    <2>1. ASSUME NEW n \in 1 .. Len(Tail(s)), Tail(s)[n] = k
          PROVE  k # Head(s) /\ \E i \in 1 .. Len(s) : s[i] = k
      <3>1. n + 1 \in 1 .. Len(s) /\ 1 \in 1 .. Len(s) /\ n + 1 # 1 /\ s[n + 1] = k
        BY <1>1, <2>1
      <3> QED
        BY <1>1, <3>1
    <2>2. ASSUME NEW i \in 1 .. Len(s), s[i] = k, k # Head(s)
          PROVE  \E n \in 1 .. Len(Tail(s)) : Tail(s)[n] = k
      <3>1. i # 1
        BY <1>1, <2>2
      <3>2. i - 1 \in 1 .. Len(Tail(s)) /\ Tail(s)[i - 1] = s[(i - 1) + 1]
            /\ (i - 1) + 1 = i
        BY <1>1, <3>1
      <3> QED
        BY <2>2, <3>2
    <2> QED
      BY <2>1, <2>2
  <1> QED
    BY <1>1, <1>2, <1>3, CacheAssumption DEF Keeps

(* A new key goes to the end; the first one then makes room, and is another. *)
LEMMA AppendKeeps ==
  ASSUME NEW s \in Seq(Receipts), NEW held, Keeps(s, held),
         NEW key \in Receipts, held[key] = 0, NEW g, g = Append(s, key)
  PROVE  /\ g \in Seq(Receipts) /\ Len(g) = Len(s) + 1 /\ g # <<>>
         /\ \A i, j \in 1 .. Len(g) : g[i] = g[j] => i = j
         /\ \A k \in Receipts :
              held[k] # 0 \/ k = key <=> \E i \in 1 .. Len(g) : g[i] = k
         /\ Len(g) > CacheSize => Head(g) # key /\ Head(g) \in Receipts
  <1>1. /\ g \in Seq(Receipts) /\ g # <<>> /\ Len(g) = Len(s) + 1
        /\ \A i \in 1 .. Len(s) : g[i] = s[i]
        /\ g[Len(s) + 1] = key
    BY AppendProperties
  <1>2. Len(s) \in Nat
    OBVIOUS
  <1>3. /\ \A i, j \in 1 .. Len(s) : s[i] = s[j] => i = j
        /\ \A k \in Receipts : held[k] # 0 <=> \E i \in 1 .. Len(s) : s[i] = k
    BY DEF Keeps
  <1>4. 1 .. Len(g) = (1 .. Len(s)) \cup {Len(s) + 1}
    BY <1>1, <1>2
  <1>5. \A i \in 1 .. Len(s) : g[i] # key
    BY <1>1, <1>3
  <1>6. \A i, j \in 1 .. Len(g) : g[i] = g[j] => i = j
    BY <1>1, <1>3, <1>4, <1>5
  <1>7. ASSUME NEW k \in Receipts
        PROVE  held[k] # 0 \/ k = key <=> \E i \in 1 .. Len(g) : g[i] = k
    <2>1. (\E i \in 1 .. Len(g) : g[i] = k) <=> k = key \/ \E i \in 1 .. Len(s) : g[i] = k
      BY <1>1, <1>4
    <2>2. (\E i \in 1 .. Len(s) : g[i] = k) <=> \E i \in 1 .. Len(s) : s[i] = k
      BY <1>1
    <2> QED
      BY <1>3, <2>1, <2>2
  <1>8. ASSUME Len(g) > CacheSize PROVE Head(g) # key /\ Head(g) \in Receipts
    <2>1. 1 \in 1 .. Len(s)
      BY <1>1, <1>2, <1>8, CacheAssumption
    <2>2. Head(g) = g[1] /\ Head(g) \in Receipts
      BY <1>1
    <2> QED
      BY <1>5, <2>1, <2>2
  <1> QED
    BY <1>1, <1>6, <1>7, <1>8

LEMMA IncrementOrdered ==
  ASSUME Typed, Ordered, NEW table \in Tables, NEW key \in Receipts,
         Increment(table, key)
  PROVE  Ordered' /\ cache'[table][key] # 0
  <1> DEFINE s == order[table]  held == cache[table]
  <1>1. /\ s \in Seq(Receipts) /\ Len(s) \in Nat /\ Keeps(s, held)
        /\ \A k \in Receipts : held[k] \in Nat
    BY DEF Ordered, Typed
  <1>2. PICK grown : grown = IF held[key] # 0 THEN s ELSE Append(s, key)
    OBVIOUS
  <1>3. PICK next : next = [k \in Receipts |-> IF Len(grown) > CacheSize /\ k = Head(grown)
                                               THEN 0
                                               ELSE IF k = key THEN held[k] + 1 ELSE held[k]]
    OBVIOUS
  <1>4. PICK rest : rest = IF Len(grown) > CacheSize THEN Tail(grown) ELSE grown
    OBVIOUS
  <1>5. /\ cache' = [cache EXCEPT ![table] = next]
        /\ order' = [order EXCEPT ![table] = rest]
    BY <1>2, <1>3, <1>4 DEF Increment
  <1> HIDE DEF s, held
  <1>6. rest \in Seq(Receipts) /\ Keeps(rest, next) /\ next[key] # 0
    <2>1. CASE held[key] # 0
      <3>1. grown = s /\ rest = s /\ ~(Len(grown) > CacheSize)
        BY <1>1, <1>2, <1>4, <2>1, CacheAssumption DEF Keeps
      <3>2. \A k \in Receipts : next[k] = IF k = key THEN held[k] + 1 ELSE held[k]
        BY <1>3, <3>1
      <3>3. \A k \in Receipts : next[k] # 0 <=> held[k] # 0
        BY <1>1, <2>1, <3>2
      <3>4. next[key] # 0
        BY <2>1, <3>3
      <3> QED
        BY <1>1, <3>1, <3>3, <3>4 DEF Keeps
    <2>2. CASE held[key] = 0
      <3>0. grown = Append(s, key)
        BY <1>2, <2>2
      <3>1. /\ grown \in Seq(Receipts) /\ Len(grown) = Len(s) + 1 /\ grown # <<>>
            /\ \A i, j \in 1 .. Len(grown) : grown[i] = grown[j] => i = j
            /\ \A k \in Receipts :
                 held[k] # 0 \/ k = key <=> \E i \in 1 .. Len(grown) : grown[i] = k
            /\ Len(grown) > CacheSize => Head(grown) # key /\ Head(grown) \in Receipts
        <4>1. s \in Seq(Receipts) /\ Keeps(s, held) /\ held[key] = 0
          BY <1>1, <2>2
        <4>2. grown \in Seq(Receipts) /\ Len(grown) = Len(s) + 1 /\ grown # <<>>
          BY <3>0, <4>1, AppendKeeps
        <4>3. \A i, j \in 1 .. Len(grown) : grown[i] = grown[j] => i = j
          BY <3>0, <4>1, AppendKeeps
        <4>4. \A k \in Receipts :
                held[k] # 0 \/ k = key <=> \E i \in 1 .. Len(grown) : grown[i] = k
          BY <3>0, <4>1, AppendKeeps
        <4>5. Len(grown) > CacheSize => Head(grown) # key /\ Head(grown) \in Receipts
          BY <3>0, <4>1, AppendKeeps
        <4> QED
          BY <4>2, <4>3, <4>4, <4>5
      <3>2. \A k \in Receipts :
              next[k] # 0 <=> /\ ~(Len(grown) > CacheSize /\ k = Head(grown))
                              /\ held[k] # 0 \/ k = key
        BY <1>1, <1>3
      <3>3. next[key] # 0
        BY <3>1, <3>2
      <3>4. CASE Len(grown) > CacheSize
        <4>1. rest = Tail(grown)
          BY <1>4, <3>4
        <4>2. PICK full : full = [k \in Receipts |-> IF held[k] # 0 \/ k = key THEN 1 ELSE 0]
          OBVIOUS
        <4>3. \A k \in Receipts : full[k] # 0 <=> \E i \in 1 .. Len(grown) : grown[i] = k
          BY <3>1, <4>2
        <4>4. \A k \in Receipts : next[k] # 0 <=> k # Head(grown) /\ full[k] # 0
          BY <3>2, <3>4, <4>2
        <4>5. Len(grown) <= CacheSize + 1
          BY <1>1, <3>1, CacheAssumption DEF Keeps
        <4>6. rest \in Seq(Receipts) /\ Keeps(rest, next)
          BY <3>1, <4>1, <4>3, <4>4, <4>5, TailKeeps
        <4> QED
          BY <3>3, <4>6
      <3>5. CASE ~(Len(grown) > CacheSize)
        <4>1. rest = grown /\ Len(grown) <= CacheSize
          BY <1>1, <1>4, <3>1, <3>5, CacheAssumption
        <4>2. \A k \in Receipts : next[k] # 0 <=> \E i \in 1 .. Len(grown) : grown[i] = k
          BY <3>1, <3>2, <3>5
        <4> QED
          BY <3>1, <3>3, <4>1, <4>2 DEF Keeps
      <3> QED
        BY <3>4, <3>5
    <2> QED
      BY <2>1, <2>2
  <1>7. cache'[table] = next /\ order'[table] = rest
    BY <1>5 DEF Typed, Ordered
  <1>8. \A t \in Tables \ {table} : cache'[t] = cache[t] /\ order'[t] = order[t]
    BY <1>5 DEF Typed, Ordered
  <1>9. order' \in [Tables -> Seq(Receipts)]
    BY <1>5, <1>6 DEF Ordered
  <1>10. \A t \in Tables : Keeps(order'[t], cache'[t])
    BY <1>6, <1>7, <1>8 DEF Ordered
  <1>11. Ordered'
    BY <1>9, <1>10 DEF Ordered, Keeps
  <1> QED
    BY <1>6, <1>7, <1>11

LEMMA RemoveOrdered ==
  ASSUME Typed, Ordered, NEW table \in Tables, NEW key \in Receipts,
         Remove(table, key)
  PROVE  /\ Ordered'
         /\ \A t \in Tables, k \in Receipts :
              t # table \/ k # key => cache'[t][k] = cache[t][k]
  <1> DEFINE s == order[table]  held == cache[table]
  <1>1. s \in Seq(Receipts) /\ Len(s) \in Nat /\ Keeps(s, held)
    BY DEF Ordered, Typed
  <1>2. PICK next : next = [k \in Receipts |-> IF k = key THEN 0 ELSE held[k]]
    OBVIOUS
  <1>3. cache' = [cache EXCEPT ![table] = next]
    BY <1>2 DEF Remove
  <1>4. \E rest : /\ order' = [order EXCEPT ![table] = rest]
                  /\ rest \in Seq(Receipts) /\ Keeps(rest, next)
    <2>1. CASE held[key] = 0 /\ UNCHANGED order
      <3>1. \A k \in Receipts : next[k] = held[k]
        BY <1>2, <2>1
      <3>2. Keeps(s, next)
        BY <1>1, <3>1 DEF Keeps
      <3>3. order' = [order EXCEPT ![table] = s]
        BY <2>1 DEF Ordered
      <3> QED
        BY <1>1, <3>2, <3>3
    <2>2. ASSUME NEW i \in DOMAIN s, s[i] = key,
                 order' = [order EXCEPT ![table] = Seqs!RemoveAt(@, i)]
          PROVE  \E rest : /\ order' = [order EXCEPT ![table] = rest]
                           /\ rest \in Seq(Receipts) /\ Keeps(rest, next)
      <3>1. i \in 1 .. Len(s)
        BY <1>1
      <3>2. \A k \in Receipts : next[k] = IF k = s[i] THEN 0 ELSE held[k]
        BY <1>2, <2>2
      <3>3. PICK rest : rest = Seqs!RemoveAt(s, i)
        OBVIOUS
      <3>4. rest \in Seq(Receipts) /\ Keeps(rest, next)
        BY <1>1, <3>1, <3>2, <3>3, RemovedKeeps
      <3>5. order' = [order EXCEPT ![table] = rest]
        BY <2>2, <3>3 DEF Ordered
      <3> QED
        BY <3>4, <3>5
    <2> QED
      BY <2>1, <2>2 DEF Remove
  <1>5. PICK rest : /\ order' = [order EXCEPT ![table] = rest]
                    /\ rest \in Seq(Receipts) /\ Keeps(rest, next)
    BY <1>4
  <1> HIDE DEF s
  <1>6. cache'[table] = next /\ order'[table] = rest
    BY <1>3, <1>5 DEF Typed, Ordered
  <1>7. \A t \in Tables \ {table} : cache'[t] = cache[t] /\ order'[t] = order[t]
    BY <1>3, <1>5 DEF Typed, Ordered
  <1>8. order' \in [Tables -> Seq(Receipts)]
    BY <1>5 DEF Ordered
  <1>9. \A t \in Tables : Keeps(order'[t], cache'[t])
    BY <1>5, <1>6, <1>7 DEF Ordered
  <1>10. Ordered'
    BY <1>8, <1>9 DEF Ordered, Keeps
  <1>11. \A t \in Tables, k \in Receipts :
           t # table \/ k # key => cache'[t][k] = cache[t][k]
    BY <1>2, <1>6, <1>7
  <1> QED
    BY <1>10, <1>11

-----------------------------------------------------------------------------
(* Types.                                                                  *)

Rest ==
  /\ row \in [Rows -> {"none", "taken", "present", "gone"}]
  /\ deliveries \in [Receipts -> 0 .. MaxDeliveries]
  /\ counted \subseteq Rows /\ missed \subseteq Rows
  /\ crashes \in 0 .. MaxCrashes

TypeInv == Inv /\ Ordered /\ Rest

(* As many keys as places in the order: the order is a bijection.          *)
LEMMA KeptCount ==
  ASSUME NEW s \in Seq(Receipts), NEW held, Keeps(s, held)
  PROVE  /\ {s[i] : i \in 1 .. Len(s)} = {k \in Receipts : held[k] # 0}
         /\ Len(s) = Cardinality({k \in Receipts : held[k] # 0})
  <1>1. Len(s) \in Nat /\ \A i \in 1 .. Len(s) : s[i] \in Receipts
    OBVIOUS
  <1>2. PICK H : H = {k \in Receipts : held[k] # 0}
    OBVIOUS
  <1>3. PICK f : f = [i \in 1 .. Len(s) |-> s[i]]
    OBVIOUS
  <1>4. \A k \in H : \E i \in 1 .. Len(s) : f[i] = k
    BY <1>2, <1>3 DEF Keeps
  <1>5. \A i \in 1 .. Len(s) : f[i] \in H
    BY <1>1, <1>2, <1>3 DEF Keeps
  <1>6. \A i, j \in 1 .. Len(s) : f[i] = f[j] => i = j
    BY <1>3 DEF Keeps
  <1>7. f \in [1 .. Len(s) -> H]
    BY <1>3, <1>5
  <1>8. f \in Bijection(1 .. Len(s), H)
    BY <1>4, <1>6, <1>7 DEF Bijection, Injection, Surjection, IsInjective
  <1>9. ExistsBijection(1 .. Len(s), H)
    BY <1>8 DEF ExistsBijection
  <1>10. IsFiniteSet(1 .. Len(s)) /\ Cardinality(1 .. Len(s)) = Len(s)
    <2>1. PICK n \in Nat : n = Len(s)
      BY <1>1
    <2>2. IsFiniteSet(1 .. n) /\ Cardinality(1 .. n) = n
      BY FS_Interval
    <2> QED
      BY <2>1, <2>2
  <1>11. Cardinality(H) = Len(s)
    BY <1>9, <1>10, FS_Bijection
  <1>12. {s[i] : i \in 1 .. Len(s)} = H
    BY <1>3, <1>4, <1>5
  <1> QED
    BY <1>2, <1>11, <1>12

LEMMA TypesFollow == TypeInv => TypeOK
  <1> SUFFICES ASSUME TypeInv PROVE TypeOK
    OBVIOUS
  <1>1. ASSUME NEW t \in Tables
        PROVE  /\ Len(order[t]) <= CacheSize
               /\ {order[t][i] : i \in 1 .. Len(order[t])}
                    = {k \in Receipts : cache[t][k] # 0}
               /\ Len(order[t]) = Cardinality({k \in Receipts : cache[t][k] # 0})
    <2>1. order[t] \in Seq(Receipts) /\ Keeps(order[t], cache[t])
      BY DEF TypeInv, Ordered
    <2> QED
      BY <2>1, KeptCount DEF Keeps
  <1> QED
    BY <1>1 DEF TypeInv, Inv, Typed, Ordered, Rest, TypeOK

LEMMA TypeInductive ==
  ASSUME TypeInv, [Next]_vars
  PROVE  TypeInv'
  <1>1. Inv'
    BY NextInv DEF TypeInv
  <1>2. Typed
    BY DEF TypeInv, Inv
  <1>3. ASSUME UNCHANGED <<cache, order>> PROVE Ordered'
    BY <1>3 DEF TypeInv, Ordered, Keeps
  <1>4. Ordered'
    <2>1. ASSUME NEW r \in Rows, LookUp(r) PROVE Ordered'
      <3>1. CASE r.time \in Groups
        BY <1>3, <2>1, <3>1 DEF LookUp
      <3>2. CASE r.time \notin Groups
        <4>1. Remove(Table(r), Key(r)) /\ Key(r) \in Receipts /\ Table(r) \in Tables
          BY <2>1, <3>2, KeyIsReceipt, TableIsTable DEF LookUp
        <4> QED
          BY <1>2, <4>1, RemoveOrdered DEF TypeInv
      <3> QED
        BY <3>1, <3>2
    <2>2. ASSUME NEW h \in Handlers, CacheReceipt(h) PROVE Ordered'
      <3>1. /\ handler[h].receipt \in Receipts /\ handler[h].table \in Tables
            /\ Increment(handler[h].table, handler[h].receipt)
        BY <2>2, StepTyped DEF CacheReceipt, TypeInv
      <3> QED
        BY <1>2, <3>1, IncrementOrdered DEF TypeInv
    <2>3. CASE Crash
      <3>1. order' = [t \in Tables |-> <<>>] /\ cache' = [t \in Tables |-> [k \in Receipts |-> 0]]
        BY <2>3 DEF Crash
      <3> QED
        BY <3>1, CacheAssumption DEF Ordered, Keeps
    <2>4. ASSUME NEW r \in Rows, InsertRow(r) \/ DeleteRow(r) PROVE Ordered'
      BY <1>3, <2>4 DEF InsertRow, DeleteRow
    <2>5. ASSUME NEW h \in Handlers,
                 \/ \E receipt \in Receipts : Deliver(h, receipt)
                 \/ FindRows(h) \/ Updated(h)
                 \/ \E r \in Rows : UpdateRow(h, r)
          PROVE  Ordered'
      BY <1>3, <2>5 DEF Deliver, FindRows, Updated, UpdateRow
    <2>6. CASE UNCHANGED vars
      BY <1>3, <2>6 DEF vars
    <2> QED
      BY <2>1, <2>2, <2>3, <2>4, <2>5, <2>6 DEF Next
  <1>5. Rest'
    <2> USE DEF TypeInv, Rest
    <2>1. ASSUME NEW r \in Rows, LookUp(r) \/ InsertRow(r) \/ DeleteRow(r) PROVE Rest'
      BY <2>1 DEF LookUp, InsertRow, DeleteRow, Matching
    <2>2. ASSUME NEW h \in Handlers, NEW receipt \in Receipts, Deliver(h, receipt)
          PROVE  Rest'
      <3>1. deliveries[receipt] < MaxDeliveries
        BY <2>2, ReceiptBoundAssumption DEF Deliver
      <3>2. deliveries[receipt] + 1 \in 0 .. MaxDeliveries
        BY <3>1, ReceiptBoundAssumption
      <3> QED
        BY <2>2, <3>2 DEF Deliver
    <2>3. ASSUME NEW h \in Handlers, FindRows(h) \/ Updated(h) \/ CacheReceipt(h)
          PROVE  Rest'
      BY <2>3 DEF FindRows, Updated, CacheReceipt, Matching
    <2>4. ASSUME NEW h \in Handlers, NEW r \in Rows, UpdateRow(h, r) PROVE Rest'
      BY <2>4 DEF UpdateRow
    <2>5. CASE Crash
      <3>1. crashes' \in 0 .. MaxCrashes
        BY <2>5, ReceiptBoundAssumption DEF Crash
      <3> QED
        BY <2>5, <3>1 DEF Crash
    <2>6. CASE UNCHANGED vars
      BY <2>6 DEF vars
    <2> QED
      BY <2>1, <2>2, <2>3, <2>4, <2>5, <2>6 DEF Next
  <1> QED
    BY <1>1, <1>4, <1>5 DEF TypeInv

LEMMA TypeInitial == Init => TypeInv
  <1> SUFFICES ASSUME Init PROVE TypeInv
    OBVIOUS
  <1>1. Ordered
    BY CacheAssumption DEF Init, Ordered, Keeps
  <1>2. Rest
    BY ReceiptBoundAssumption DEF Init, Rest
  <1> QED
    BY <1>1, <1>2, InitInv DEF TypeInv

(* The variables keep their types, and a cache never holds more than it    *)
(* may: it has an entry for each key in its order, which has each once.    *)
THEOREM ReceiptsTypeCorrect == Spec => []TypeOK
  <1>1. TypeInv /\ [Next]_vars => TypeInv'
    BY TypeInductive
  <1> QED
    BY <1>1, TypeInitial, TypesFollow, PTL DEF Spec

-----------------------------------------------------------------------------
(* What was received is shown.                                             *)

MessageOf(time) == [time |-> time, kind |-> "message"]
UpdateOf(time)  == [time |-> time, kind |-> "update"]

Inserted(r) == row[r] \in {"present", "gone"}

(* The row of a timer change precedes the message that brought it.         *)
UpdatesFirst ==
  \A time \in Retimed : row[MessageOf(time)] # "none" => Inserted(UpdateOf(time))

(* A thread has the receipt of a message of this phone only after its row  *)
(* was inserted, and takes it to the cache only after the row is gone; the *)
(* rows it updates it has found.                                           *)
Honest(h) ==
  /\ handler[h].at # "idle" /\ handler[h].receipt.time \notin Linked =>
       /\ Inserted(MessageOf(handler[h].receipt.time))
       /\ handler[h].at = "cache" =>
            \A r \in Matching(handler[h].receipt, handler[h].table) : row[r] = "gone"
  /\ handler[h].at = "update" => \A r \in handler[h].rows : Inserted(r)

(* Where the receipt of a row is that one was dealt with for: before its   *)
(* insertion in the cache, then in the count, or excused.                  *)
Shown(r) ==
  /\ row[r] = "none" => r.time \in Linked /\ (r \in missed \/ Held(r) > 0)
  /\ row[r] = "taken" => r.time \in Linked /\ (r \in missed \/ count[r] > 0)
  /\ row[r] = "present" => count[r] > 0 \/ (r.time \in Linked /\ r \in missed)

ShownInv ==
  /\ TypeInv /\ UpdatesFirst
  /\ \A h \in Handlers : Honest(h)
  /\ \A r \in counted : Shown(r)

LEMMA RowNames ==
  /\ \A time \in Times : MessageOf(time) \in Rows
  /\ \A time \in Retimed : UpdateOf(time) \in Rows
  /\ \A r \in Rows : \/ r.kind = "message" /\ r = MessageOf(r.time) /\ r.time \in Times
                     \/ r.kind = "update" /\ r = UpdateOf(r.time)
                        /\ r.time \in Retimed /\ r.time \in Linked
  BY MessagesAssumption DEF Rows, MessageOf, UpdateOf

(* Rows that were inserted stay so, and what is gone is gone.              *)
RowsLast ==
  \A r \in Rows : /\ Inserted(r) => Inserted(r)'
                  /\ row[r] = "gone" => row'[r] = "gone"

LEMMA HonestKept ==
  ASSUME TypeInv, RowsLast, NEW h \in Handlers, Honest(h), handler'[h] = handler[h]
  PROVE  Honest(h)'
  <1>1. \A r \in Matching(handler[h].receipt, handler[h].table) : r \in Rows
    BY DEF Matching
  <1>2. handler[h].at # "idle" => /\ handler[h].receipt \in Receipts
                                  /\ handler[h].receipt.time \in Times
    BY DEF TypeInv, Inv, Typed, Steps, Idle, Receipts
  <1>3. handler[h].at = "update" => handler[h].rows \subseteq Rows
    BY StepTyped DEF TypeInv, Matching
  <1>4. handler[h].at # "idle" => MessageOf(handler[h].receipt.time) \in Rows
    BY <1>2, RowNames
  <1>5. Matching(handler[h].receipt, handler[h].table)'
          = Matching(handler[h].receipt, handler[h].table)
    BY DEF Matching, Table
  <1>6. MessageOf(handler[h].receipt.time)' = MessageOf(handler[h].receipt.time)
    BY DEF MessageOf
  <1> QED
    BY <1>1, <1>3, <1>4, <1>5, <1>6 DEF Honest, RowsLast, Inserted

(* What leaves the row, its count, the cache and the excuses.              *)
LEMMA ShownKept ==
  ASSUME NEW r \in Rows, Shown(r), row'[r] = row[r], count'[r] = count[r],
         cache' = cache, missed \subseteq missed'
  PROVE  Shown(r)'
  BY DEF Shown, Held, Table, Key

(* The cache gives a row what it held; another row under the same key is   *)
(* excused.                                                                *)
LEMMA LookUpShown ==
  ASSUME ShownInv, TypeInv', NEW r \in Rows, LookUp(r)
  PROVE  ShownInv'
  <1> USE DEF ShownInv
  <1>1. /\ row[r] = "none" /\ row'[r] = "taken" /\ Awaits(r)
        /\ \A q \in Rows \ {r} : row'[q] = row[q]
        /\ handler' = handler /\ counted' = counted /\ missed \subseteq missed'
    BY DEF LookUp, TypeInv, Rest
  <1>2. RowsLast
    BY <1>1 DEF RowsLast, Inserted
  <1>3. \A h \in Handlers : Honest(h)'
    BY <1>1, <1>2, HonestKept
  <1>4. UpdatesFirst'
    <2> SUFFICES ASSUME NEW time \in Retimed, row'[MessageOf(time)] # "none"
                 PROVE  Inserted(UpdateOf(time))'
      BY DEF UpdatesFirst
    <2>1. MessageOf(time) \in Rows /\ UpdateOf(time) \in Rows
      BY RowNames, MessagesAssumption
    <2>2. CASE r = MessageOf(time)
      <3>1. row[UpdateOf(time)] \in {"present", "gone"}
        BY <1>1, <2>2 DEF Awaits, MessageOf, UpdateOf
      <3> QED
        BY <1>2, <2>1, <3>1 DEF RowsLast, Inserted
    <2>3. CASE r # MessageOf(time)
      <3>1. Inserted(UpdateOf(time))
        BY <1>1, <2>1, <2>3 DEF UpdatesFirst
      <3> QED
        BY <1>2, <2>1, <3>1 DEF RowsLast
    <2> QED
      BY <2>2, <2>3
  <1>5. ASSUME NEW q \in counted PROVE Shown(q)'
    <2>0. q \in Rows /\ Shown(q) /\ count[q] \in Nat
      BY DEF TypeInv, Rest, Inv, Typed
    <2>1. CASE r.time \in Groups
      <3>1. cache' = cache /\ count' = count
        BY <2>1 DEF LookUp
      <3>2. CASE q # r
        BY <1>1, <2>0, <3>1, <3>2, ShownKept
      <3>3. CASE q = r
        <4>1. r.time \in Linked /\ r \in missed
          BY <1>1, <2>0, <2>1, <3>3 DEF Shown, Held
        <4> QED
          BY <1>1, <3>3, <4>1 DEF Shown
      <3> QED
        BY <3>2, <3>3
    <2>2. CASE r.time \notin Groups
      <3>1. /\ count' = [count EXCEPT ![r] = Held(r)]
            /\ missed' = IF Held(r) = 0 THEN missed
                         ELSE missed \cup (Matching(Key(r), Table(r)) \ {r})
            /\ Remove(Table(r), Key(r))
            /\ Key(r) \in Receipts /\ Table(r) \in Tables
        BY <2>2, KeyIsReceipt, TableIsTable DEF LookUp
      <3>2. \A t \in Tables, k \in Receipts :
              t # Table(r) \/ k # Key(r) => cache'[t][k] = cache[t][k]
        BY <3>1, RemoveOrdered DEF TypeInv, Inv
      <3>3. CASE q = r
        <4>1. count'[r] = Held(r)
          BY <3>1 DEF TypeInv, Inv, Typed
        <4>2. r.time \in Linked /\ (r \in missed \/ Held(r) > 0)
          BY <1>1, <2>0, <3>3 DEF Shown
        <4> QED
          BY <1>1, <3>3, <4>1, <4>2 DEF Shown
      <3>4. CASE q # r
        <4>1. count'[q] = count[q] /\ row'[q] = row[q]
          BY <1>1, <2>0, <3>1, <3>4 DEF TypeInv, Inv, Typed
        <4>2. CASE row[q] # "none"
          BY <1>1, <2>0, <4>1, <4>2 DEF Shown
        <4>3. CASE row[q] = "none"
          <5>1. q.time \in Linked /\ (q \in missed \/ Held(q) > 0)
            BY <2>0, <4>3 DEF Shown
          <5>2. ASSUME Held(q) > 0, q \notin missed'
                PROVE  Held(q)' > 0
            <6>1. q.time \notin Groups /\ Held(q) = cache[Table(q)][Key(q)]
              BY <5>2 DEF Held
            <6>2. Key(q) \in Receipts /\ Table(q) \in Tables
              BY <2>0, <6>1, KeyIsReceipt, TableIsTable
            <6>3. Table(q) # Table(r) \/ Key(q) # Key(r)
              <7>1. ASSUME Table(q) = Table(r), Key(q) = Key(r) PROVE FALSE
                <8>1. Held(r) = Held(q)
                  BY <2>2, <6>1, <7>1 DEF Held
                <8>2. q.time = Key(r).time
                  BY <7>1 DEF Key
                <8>3. q \in Matching(Key(r), Table(r)) \ {r}
                  BY <2>0, <3>4, <7>1, <8>2 DEF Matching
                <8> QED
                  BY <3>1, <5>2, <8>1, <8>3
              <7> QED
                BY <7>1
            <6>4. Held(q)' = cache'[Table(q)][Key(q)]
              BY <6>1 DEF Held, Table, Key
            <6> QED
              BY <3>2, <5>2, <6>1, <6>2, <6>3, <6>4
          <5> QED
            BY <1>1, <4>1, <4>3, <5>1, <5>2 DEF Shown
        <4> QED
          BY <4>2, <4>3
      <3> QED
        BY <3>3, <3>4
    <2> QED
      BY <2>1, <2>2
  <1> QED
    BY <1>1, <1>3, <1>4, <1>5

LEMMA RowStepShown ==
  ASSUME ShownInv, TypeInv', NEW r \in Rows, InsertRow(r) \/ DeleteRow(r)
  PROVE  ShownInv'
  <1> USE DEF ShownInv
  <1>1. /\ \/ row[r] = "taken" /\ row'[r] = "present"
           \/ row[r] = "present" /\ row'[r] = "gone"
        /\ \A q \in Rows \ {r} : row'[q] = row[q]
        /\ UNCHANGED <<handler, counted, missed, count, cache>>
    BY DEF InsertRow, DeleteRow, TypeInv, Rest
  <1>2. RowsLast
    BY <1>1 DEF RowsLast, Inserted
  <1>3. \A h \in Handlers : Honest(h)'
    BY <1>1, <1>2, HonestKept
  <1>4. ASSUME NEW time \in Retimed, row'[MessageOf(time)] # "none"
        PROVE  Inserted(UpdateOf(time))'
    <2>1. MessageOf(time) \in Rows /\ UpdateOf(time) \in Rows
      BY RowNames, MessagesAssumption
    <2>2. row[MessageOf(time)] # "none"
      BY <1>1, <1>4, <2>1
    <2> QED
      BY <1>2, <2>1, <2>2 DEF UpdatesFirst, RowsLast
  <1>5. ASSUME NEW q \in counted PROVE Shown(q)'
    <2>1. q \in Rows /\ Shown(q)
      BY DEF TypeInv, Rest
    <2>2. CASE q # r
      BY <1>1, <2>1, <2>2, ShownKept
    <2>3. CASE q = r
      BY <1>1, <2>1, <2>3 DEF Shown
    <2> QED
      BY <2>2, <2>3
  <1> QED
    BY <1>1, <1>3, <1>4, <1>5 DEF UpdatesFirst

(* A step of one thread: its own honesty and the rows it deals with.       *)
LEMMA ThreadShown ==
  ASSUME ShownInv, TypeInv', NEW h \in Handlers,
         row' = row, \A g \in Handlers \ {h} : handler'[g] = handler[g],
         Honest(h)', \A r \in counted' : Shown(r)'
  PROVE  ShownInv'
  <1>1. RowsLast
    BY DEF RowsLast, Inserted
  <1>2. \A g \in Handlers : Honest(g)'
    BY <1>1, HonestKept DEF ShownInv
  <1>3. UpdatesFirst'
    BY DEF ShownInv, UpdatesFirst, Inserted, MessageOf, UpdateOf
  <1> QED
    BY <1>2, <1>3 DEF ShownInv

(* What a thread with a receipt knows of the rows it is for.               *)
LEMMA ThreadRows ==
  ASSUME ShownInv, NEW h \in Handlers, handler[h].at # "idle",
         NEW r \in Matching(handler[h].receipt, handler[h].table)
  PROVE  /\ r \in Rows /\ handler[h].receipt \in Receipts
         /\ r.time = handler[h].receipt.time
         /\ r.time \notin Linked => Inserted(r)
  <1>1. handler[h].receipt \in Receipts
    BY DEF ShownInv, TypeInv, Inv, Typed, Steps, Idle
  <1>2. r \in Rows /\ r.time = handler[h].receipt.time
    BY DEF Matching
  <1>3. r.time \notin Linked => r = MessageOf(handler[h].receipt.time)
    BY <1>2, RowNames
  <1> QED
    BY <1>1, <1>2, <1>3 DEF ShownInv, Honest

LEMMA DeliverShown ==
  ASSUME ShownInv, TypeInv', NEW h \in Handlers, NEW receipt \in Receipts,
         Deliver(h, receipt)
  PROVE  ShownInv'
  <1>1. /\ UNCHANGED <<row, count, cache, counted, missed>>
        /\ Do(h, Query(receipt, "sms"))
        /\ receipt.time \notin Linked =>
             row[MessageOf(receipt.time)] \in {"present", "gone"}
    BY DEF Deliver, MessageOf
  <1>2. /\ handler'[h] = Query(receipt, "sms")
        /\ \A g \in Handlers \ {h} : handler'[g] = handler[g]
    BY <1>1 DEF Do, ShownInv, TypeInv, Inv, Typed
  <1>3. Honest(h)'
    BY <1>1, <1>2 DEF Honest, Query, Inserted, MessageOf
  <1>4. \A r \in counted' : Shown(r)'
    BY <1>1, ShownKept DEF ShownInv, TypeInv, Rest
  <1> QED
    BY <1>1, <1>2, <1>3, <1>4, ThreadShown

(* A row that is not among those found is excused, and this phone has no   *)
(* such rows but those it has deleted.                                     *)
LEMMA FindRowsShown ==
  ASSUME ShownInv, TypeInv', NEW h \in Handlers, FindRows(h)
  PROVE  ShownInv'
  <1> DEFINE receipt == handler[h].receipt
             table   == handler[h].table
             found   == {r \in Matching(receipt, table) : row[r] = "present"}
             others  == Matching(receipt, table) \ found
  <1>1. /\ handler[h].at = "query" /\ UNCHANGED <<row, count, cache>>
        /\ Honest(h)
    BY DEF FindRows, ShownInv
  <1>2. \A r \in Matching(receipt, table) :
          r \in Rows /\ r.time = receipt.time /\ (r.time \notin Linked => Inserted(r))
    BY <1>1, ThreadRows
  <1>3. \A r \in counted : r \in Rows /\ Shown(r)
    BY DEF ShownInv, TypeInv, Rest
  <1>4. CASE /\ found = {}
             /\ Do(h, [at |-> "cache", receipt |-> receipt, table |-> table])
             /\ UNCHANGED <<counted, missed>>
    <2>1. /\ handler'[h] = [at |-> "cache", receipt |-> receipt, table |-> table]
          /\ \A g \in Handlers \ {h} : handler'[g] = handler[g]
      BY <1>4 DEF Do, ShownInv, TypeInv, Inv, Typed
    <2>2. \A r \in Matching(receipt, table) : r.time \notin Linked => row[r] = "gone"
      BY <1>2, <1>4 DEF Inserted
    <2>3. Honest(h)'
      BY <1>1, <1>2, <2>1, <2>2 DEF Honest, Inserted, MessageOf, Matching, Table
    <2>4. \A r \in counted' : Shown(r)'
      BY <1>1, <1>3, <1>4, ShownKept
    <2> QED
      BY <1>1, <2>1, <2>3, <2>4, ThreadShown
  <1>5. CASE /\ Do(h, [at |-> "update", receipt |-> receipt, table |-> table,
                       rows |-> found])
             /\ counted' = counted \cup others /\ missed' = missed \cup others
    <2>1. /\ handler'[h] = [at |-> "update", receipt |-> receipt, table |-> table,
                            rows |-> found]
          /\ \A g \in Handlers \ {h} : handler'[g] = handler[g]
      BY <1>5 DEF Do, ShownInv, TypeInv, Inv, Typed
    <2>2. Honest(h)'
      BY <1>1, <2>1 DEF Honest, Inserted, MessageOf
    <2>3. ASSUME NEW r \in counted' PROVE Shown(r)'
      <3>1. CASE r \in others
        <4>1. r \in missed' /\ row[r] # "present" /\ (r.time \notin Linked => Inserted(r))
          BY <1>2, <1>5, <3>1
        <4> QED
          BY <1>1, <4>1 DEF Shown, Inserted
      <3>2. CASE r \in counted
        BY <1>1, <1>3, <1>5, <3>2, ShownKept
      <3> QED
        BY <1>5, <3>1, <3>2
    <2> QED
      BY <1>1, <2>1, <2>2, <2>3, ThreadShown
  <1> QED
    BY <1>4, <1>5 DEF FindRows

(* The count of the row grows, if it is still there.                       *)
LEMMA UpdateRowShown ==
  ASSUME ShownInv, TypeInv', NEW h \in Handlers, NEW r \in Rows, UpdateRow(h, r)
  PROVE  ShownInv'
  <1>1. /\ handler[h].at = "update" /\ r \in handler[h].rows
        /\ UNCHANGED <<row, cache, missed>> /\ counted' = counted \cup {r}
        /\ Honest(h)
    BY DEF UpdateRow, ShownInv
  <1>2. handler[h] \in [at : {"update"}, receipt : Receipts,
                        table : Tables, rows : SUBSET Rows]
    BY <1>1, StepTyped DEF ShownInv, TypeInv
  <1>3. PICK step : step = [handler[h] EXCEPT !.rows = @ \ {r}]
    OBVIOUS
  <1>4. /\ step.at = "update" /\ step.receipt = handler[h].receipt
        /\ step.table = handler[h].table /\ step.rows = handler[h].rows \ {r}
    BY <1>2, <1>3
  <1>5. handler'[h] = step /\ \A g \in Handlers \ {h} : handler'[g] = handler[g]
    BY <1>3 DEF UpdateRow, Do, ShownInv, TypeInv, Inv, Typed
  <1>6. Honest(h)'
    BY <1>1, <1>4, <1>5 DEF Honest, Inserted, MessageOf
  <1>7. ASSUME NEW q \in counted' PROVE Shown(q)'
    <2>1. CASE q = r
      <3>1. row[r] \in {"present", "gone"}
        BY <1>1 DEF Honest, Inserted
      <3>2. row[r] = "present" => count'[r] = count[r] + 1 /\ count[r] \in Nat
        BY DEF UpdateRow, ShownInv, TypeInv, Inv, Typed
      <3> QED
        BY <1>1, <2>1, <3>1, <3>2 DEF Shown
    <2>2. CASE q # r
      <3>1. q \in Rows /\ Shown(q)
        BY <1>1, <2>2 DEF ShownInv, TypeInv, Rest
      <3>2. count'[q] = count[q]
        BY <2>2, <3>1 DEF UpdateRow, ShownInv, TypeInv, Inv, Typed
      <3> QED
        BY <1>1, <3>1, <3>2, ShownKept
    <2> QED
      BY <2>1, <2>2
  <1> QED
    BY <1>1, <1>5, <1>6, <1>7, ThreadShown

LEMMA UpdatedShown ==
  ASSUME ShownInv, TypeInv', NEW h \in Handlers, Updated(h)
  PROVE  ShownInv'
  <1>1. /\ handler[h].at = "update"
        /\ Do(h, After(handler[h].receipt, handler[h].table))
        /\ UNCHANGED <<row, count, cache, counted, missed>>
        /\ Honest(h)
    BY DEF Updated, ShownInv
  <1>2. /\ handler'[h] = After(handler[h].receipt, handler[h].table)
        /\ \A g \in Handlers \ {h} : handler'[g] = handler[g]
    BY <1>1 DEF Do, ShownInv, TypeInv, Inv, Typed
  <1>3. Honest(h)'
    BY <1>1, <1>2 DEF Honest, After, Query, Idle, Inserted, MessageOf
  <1>4. \A r \in counted' : Shown(r)'
    BY <1>1, ShownKept DEF ShownInv, TypeInv, Rest
  <1> QED
    BY <1>1, <1>2, <1>3, <1>4, ThreadShown

(* The cache holds the receipt for the row to come, and who loses an entry *)
(* is excused.                                                             *)
LEMMA CacheReceiptShown ==
  ASSUME ShownInv, TypeInv', NEW h \in Handlers, CacheReceipt(h)
  PROVE  ShownInv'
  <1> DEFINE receipt == handler[h].receipt
             table   == handler[h].table
             rows    == Matching(receipt, table)
  <1>1. /\ handler[h].at = "cache" /\ Increment(table, receipt)
        /\ Do(h, After(receipt, table))
        /\ counted' = counted \cup rows
        /\ missed' = missed
              \cup {r \in rows : row[r] # "none" \/ r.time \in Groups}
              \cup {r \in Rows : Held(r) > Held(r)'}
        /\ UNCHANGED <<row, count>> /\ Honest(h)
    BY DEF CacheReceipt, ShownInv
  <1>2. receipt \in Receipts /\ table \in Tables
    BY <1>1, StepTyped DEF ShownInv, TypeInv
  <1>3. /\ handler'[h] = After(receipt, table)
        /\ \A g \in Handlers \ {h} : handler'[g] = handler[g]
    BY <1>1 DEF Do, ShownInv, TypeInv, Inv, Typed
  <1>4. Honest(h)'
    BY <1>1, <1>3 DEF Honest, After, Query, Idle, Inserted, MessageOf
  <1>5. cache'[table][receipt] # 0
    BY <1>1, <1>2, IncrementOrdered DEF ShownInv, TypeInv, Inv
  <1>6. ASSUME NEW r \in rows PROVE Shown(r)'
    <2>1. /\ r \in Rows /\ r.time = receipt.time
          /\ r.time \notin Linked => row[r] = "gone"
      <3>1. r \in Rows /\ r.time = receipt.time
        BY DEF Matching
      <3> QED
        BY <1>1, <3>1 DEF Honest
    <2>2. row[r] # "none" => r \in missed'
      BY <1>1
    <2>3. CASE row[r] = "none"
      <3>1. r.time \in Groups => r \in missed'
        BY <1>1
      <3>2. ASSUME r.time \notin Groups PROVE Held(r)' > 0
        <4>1. receipt = Key(r) /\ Table(r) = table
          BY <1>2, <3>2, MatchIsKey DEF Matching
        <4>2. Held(r)' = cache'[table][receipt]
          BY <3>2, <4>1 DEF Held, Table, Key
        <4>3. cache'[table][receipt] \in Nat
          BY <1>2 DEF TypeInv, Inv, Typed
        <4> QED
          BY <1>5, <4>2, <4>3
      <3> QED
        BY <1>1, <2>1, <2>3, <3>1, <3>2 DEF Shown
    <2> QED
      BY <1>1, <2>1, <2>2, <2>3 DEF Shown
  <1>7. ASSUME NEW r \in counted PROVE Shown(r)'
    <2>1. r \in Rows /\ Shown(r)
      BY DEF ShownInv, TypeInv, Rest
    <2>2. Held(r) > 0 => r \in missed' \/ Held(r)' > 0
      <3>1. Held(r) \in Nat
        BY <2>1, SumTyped DEF ShownInv, TypeInv, Inv
      <3>2. Held(r)' \in Nat
        <4>1. CASE r.time \in Groups
          BY <4>1 DEF Held
        <4>2. CASE r.time \notin Groups
          BY <2>1, <4>2, KeyIsReceipt, TableIsTable
             DEF TypeInv, Inv, Typed, Held, Key, Table
        <4> QED
          BY <4>1, <4>2
      <3>3. Held(r) > Held(r)' => r \in missed'
        BY <1>1, <2>1
      <3> QED
        BY <3>1, <3>2, <3>3
    <2> QED
      BY <1>1, <2>1, <2>2 DEF Shown
  <1>8. \A r \in counted' : Shown(r)'
    BY <1>1, <1>6, <1>7
  <1> QED
    BY <1>1, <1>3, <1>4, <1>8, ThreadShown

(* A transcript that a crash interrupts never comes, and what the cache    *)
(* held is excused.                                                        *)
LEMMA CrashShown ==
  ASSUME ShownInv, TypeInv', Crash
  PROVE  ShownInv'
  <1> USE DEF ShownInv
  <1>1. /\ \A r \in Rows : row'[r] = IF row[r] \in {"present", "gone"} THEN row[r]
                                     ELSE IF UnderWay(r.time) THEN "gone" ELSE "none"
        /\ missed' = missed \cup {r \in Rows : Held(r) > 0}
        /\ count' = count /\ counted' = counted
        /\ \A h \in Handlers : handler'[h] = Idle
    BY DEF Crash
  <1>2. \A h \in Handlers : Honest(h)'
    BY <1>1 DEF Honest, Idle
  <1>3. ASSUME NEW time \in Retimed, row'[MessageOf(time)] # "none"
        PROVE  Inserted(UpdateOf(time))'
    <2>1. /\ MessageOf(time) \in Rows /\ UpdateOf(time) \in Rows
          /\ MessageOf(time).time = time /\ UpdateOf(time).time = time
      BY RowNames, MessagesAssumption DEF MessageOf, UpdateOf
    <2>2. CASE row[MessageOf(time)] # "none"
      BY <1>1, <2>1, <2>2 DEF UpdatesFirst, Inserted
    <2>3. CASE row[MessageOf(time)] = "none"
      BY <1>1, <1>3, <2>1, <2>3 DEF Inserted
    <2> QED
      BY <2>2, <2>3
  <1>4. ASSUME NEW r \in counted PROVE Shown(r)'
    <2>1. r \in Rows /\ Shown(r) /\ row[r] \in {"none", "taken", "present", "gone"}
      BY DEF TypeInv, Rest
    <2>2. CASE row[r] \in {"present", "gone"}
      BY <1>1, <2>1, <2>2 DEF Shown
    <2>3. CASE row[r] = "none"
      BY <1>1, <2>1, <2>3 DEF Shown
    <2>4. CASE row[r] = "taken"
      <3>1. r.time \in Linked
        BY <2>1, <2>4 DEF Shown
      <3>2. row[MessageOf(r.time)] \in {"none", "taken"}
        <4>1. CASE r = MessageOf(r.time)
          BY <2>4, <4>1
        <4>2. CASE r = UpdateOf(r.time) /\ r.time \in Retimed
          BY <2>4, <4>2 DEF UpdatesFirst, Inserted
        <4> QED
          BY <2>1, <4>1, <4>2, RowNames
      <3>3. UnderWay(r.time)
        BY <2>1, <2>4, <3>1, <3>2 DEF UnderWay, MessageOf
      <3> QED
        BY <1>1, <2>1, <2>4, <3>3 DEF Shown
    <2> QED
      BY <2>1, <2>2, <2>3, <2>4
  <1> QED
    BY <1>1, <1>2, <1>3, <1>4 DEF UpdatesFirst

LEMMA ShownInductive ==
  ASSUME ShownInv, [Next]_vars
  PROVE  ShownInv'
  <1>1. TypeInv'
    BY TypeInductive DEF ShownInv
  <1>2. CASE UNCHANGED vars
    <2>1. \A h \in Handlers : Honest(h)'
      BY <1>2 DEF vars, ShownInv, Honest, Inserted, MessageOf, Matching, Table
    <2>2. \A r \in counted' : Shown(r)'
      BY <1>2, ShownKept DEF vars, ShownInv, TypeInv, Rest
    <2>3. UpdatesFirst'
      BY <1>2 DEF vars, ShownInv, UpdatesFirst, Inserted, MessageOf, UpdateOf
    <2> QED
      BY <1>1, <2>1, <2>2, <2>3 DEF ShownInv
  <1> QED
    BY <1>1, <1>2, LookUpShown, RowStepShown, DeliverShown, FindRowsShown,
       UpdateRowShown, UpdatedShown, CacheReceiptShown, CrashShown DEF Next

(* A message for which a receipt was dealt with is shown as delivered,     *)
(* however the thread with the receipt, the insertion, the cache and a     *)
(* crash interleave, but in the cases the property names; a message this   *)
(* phone has sent always is.                                               *)
THEOREM ReceivedIsShown == Spec => []DeliveryShown
  <1>1. Init => ShownInv
    <2> SUFFICES ASSUME Init PROVE ShownInv
      OBVIOUS
    <2>1. \A h \in Handlers : Honest(h)
      BY DEF Init, Idle, Honest
    <2>2. UpdatesFirst
      BY RowNames, MessagesAssumption DEF Init, UpdatesFirst
    <2>3. counted = {}
      BY DEF Init
    <2> QED
      BY <2>1, <2>2, <2>3, TypeInitial DEF ShownInv
  <1>2. ShownInv /\ [Next]_vars => ShownInv'
    BY ShownInductive
  <1>3. ShownInv => DeliveryShown
    BY DEF ShownInv, Shown, DeliveryShown
  <1> QED
    BY <1>1, <1>2, <1>3, PTL DEF Spec
=============================================================================
