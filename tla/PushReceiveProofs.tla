-------------------------- MODULE PushReceiveProofs --------------------------
(* Proofs about PushReceive.                                               *)
EXTENDS PushReceive, FiniteSetTheorems, SequenceTheorems, WellFoundedInduction, TLAPS

Fields == {"pc", "job", "e", "row", "todo"}

(* What the argument needs of the shape of the variables.                  *)
Shape ==
  /\ \E S : inbox \in Seq(S)
  /\ DOMAIN thread = Threads
  /\ \A t \in Threads : DOMAIN thread[t] = Fields

Shows(c) == thread[c].pc = "show" /\ thread[c].e \notin Corrupt

(* A message that is shown, or about to be, has used up its key.           *)
KeysUsed ==
  /\ \A i \in DOMAIN inbox : inbox[i] \notin Corrupt => inbox[i] \in session
  /\ \A c \in Consumers : Shows(c) => thread[c].e \in session

(* A message about to be shown has not been shown yet, and one thread is   *)
(* about to show it: only the first to decrypt it got its text.            *)
NotYetShown ==
  \A c \in Consumers : Shows(c) =>
    /\ \A i \in DOMAIN inbox : inbox[i] # thread[c].e
    /\ \A d \in Consumers : Shows(d) /\ thread[d].e = thread[c].e => d = c

Inv == Shape /\ KeysUsed /\ NotYetShown /\ ShownOnce

-----------------------------------------------------------------------------
(* The invariant holds before anything is sent.                            *)
LEMMA InitInv == Init => Inv
<1> SUFFICES ASSUME Init PROVE Inv
  OBVIOUS
<1>1. inbox \in Seq({}) /\ DOMAIN inbox = {}
  BY DEF Init
<1>2. Shape
  BY <1>1 DEF Init, Shape, Fields, Rest, Start
<1>3. \A c \in Consumers : ~Shows(c)
  BY ConsumersAssumption DEF Init, Shows, Rest, Threads
<1> QED
  BY <1>1, <1>2, <1>3 DEF Inv, KeysUsed, NotYetShown, ShownOnce

(* Steps that bring no thread to showing a message and show none.          *)
Quiet ==
  /\ inbox' = inbox
  /\ session' = session
  /\ DOMAIN thread' = Threads
  /\ \A t \in Threads :
       \/ thread'[t] = thread[t]
       \/ DOMAIN thread'[t] = Fields /\ (t \in Consumers => thread'[t].pc # "show")

(* They keep the invariant, since it only speaks of threads that show.     *)
LEMMA QuietStep ==
  ASSUME Inv, Quiet
  PROVE  Inv'
<1>1. Shape'
  BY DEF Inv, Shape, Quiet
<1>2. \A c \in Consumers : Shows(c)' => Shows(c) /\ thread'[c] = thread[c]
  BY DEF Quiet, Shows, Threads
<1>3. KeysUsed'
  BY <1>2 DEF Inv, KeysUsed, Quiet
<1>4. NotYetShown'
  BY <1>2 DEF Inv, NotYetShown, Quiet
<1>5. ShownOnce'
  BY DEF Inv, ShownOnce, Quiet
<1> QED
  BY <1>1, <1>3, <1>4, <1>5 DEF Inv

(* Goto moves one thread.                                                  *)
LEMMA GotoSteps ==
  ASSUME Shape, NEW t \in Threads, NEW pc, pc # "show", Goto(t, pc)
  PROVE  /\ DOMAIN thread' = Threads
         /\ \A u \in Threads :
              \/ thread'[u] = thread[u]
              \/ DOMAIN thread'[u] = Fields /\ thread'[u].pc # "show"
  BY DEF Shape, Goto, Fields

(* A retry puts the job back or starts it again.                           *)
LEMMA RetrySteps ==
  ASSUME Shape, NEW t \in Threads, RetryLater(t)
  PROVE  /\ DOMAIN thread' = Threads
         /\ \A u \in Threads :
              \/ thread'[u] = thread[u]
              \/ DOMAIN thread'[u] = Fields /\ thread'[u].pc # "show"
<1>1. CASE thread' = [thread EXCEPT ![t] = Rest]
  BY <1>1 DEF Shape, Fields, Rest
<1>2. CASE thread' # [thread EXCEPT ![t] = Rest]
  <2> DEFINE j == [thread[t].job EXCEPT !.iter = @ + 1]
             pc == IF j.iter < Retries(j) THEN "run" ELSE "done"
  <2>1. thread' = [thread EXCEPT ![t] = [Rest EXCEPT !.job = j, !.pc = pc]]
    BY <1>2 DEF RetryLater
  <2>2. pc # "show"
    OBVIOUS
  <2> HIDE DEF j, pc
  <2> QED
    BY <2>1, <2>2 DEF Shape, Fields, Rest
<1> QED
  BY <1>1, <1>2

-----------------------------------------------------------------------------
(* Decrypting gives the text to the first thread only: the key is new, so  *)
(* the message is neither shown nor with another thread.                   *)
LEMMA DecryptInv ==
  ASSUME Inv, NEW c \in Consumers, Decrypt(c)
  PROVE  Inv'
<1> DEFINE e == thread[c].e
<1>0. c \in Threads /\ DOMAIN thread = Threads /\ DOMAIN thread[c] = Fields /\ inbox' = inbox
  BY DEF Inv, Shape, Decrypt, Threads
<1>1. CASE e \notin Corrupt /\ e \in session
  <2>1. Goto(c, "delete") /\ session' = session
    BY <1>1 DEF Decrypt
  <2> QED
    BY <2>1, <1>0, GotoSteps, QuietStep DEF Inv, Quiet
<1>2. CASE e \in Corrupt \/ e \notin session
  <2>1. Goto(c, "show")
    BY <1>2 DEF Decrypt
  <2>2. session' = session \cup (IF e \in Corrupt THEN {} ELSE {e})
    BY <1>2 DEF Decrypt
  <2>3. thread' = [thread EXCEPT ![c].pc = "show"]
    BY <2>1 DEF Goto
  <2>4. /\ thread'[c].e = e /\ thread'[c].pc = "show"
        /\ \A d \in Consumers : d # c => thread'[d] = thread[d]
    BY <2>3, <1>0 DEF Fields, Threads
  <2>5. Shape'
    BY <2>3, <1>0 DEF Inv, Shape, Fields
  <2>6. KeysUsed'
    BY <2>2, <2>4, <1>0 DEF Inv, KeysUsed, Shows
  <2>7. Shows(c)' => e \notin session /\ e \notin Corrupt
    BY <1>2, <2>4 DEF Shows
  <2>8. NotYetShown'
    <3> SUFFICES ASSUME NEW d \in Consumers, Shows(d)'
                 PROVE  /\ \A i \in DOMAIN inbox : inbox[i] # thread'[d].e
                        /\ \A f \in Consumers :
                             Shows(f)' /\ thread'[f].e = thread'[d].e => f = d
      BY <1>0 DEF NotYetShown
    <3>1. CASE d = c
      <4>1. \A i \in DOMAIN inbox : inbox[i] # e
        BY <3>1, <2>7 DEF Inv, KeysUsed
      <4>2. \A f \in Consumers : f # c /\ Shows(f)' => thread'[f].e # e
        BY <3>1, <2>4, <2>7 DEF Inv, KeysUsed, Shows
      <4> QED
        BY <3>1, <4>1, <4>2, <2>4
    <3>2. CASE d # c
      <4>1. Shows(d) /\ thread'[d] = thread[d]
        BY <3>2, <2>4 DEF Shows
      <4>2. \A f \in Consumers : Shows(f)' /\ thread'[f].e = thread[d].e => f # c
        BY <4>1, <2>4, <2>7 DEF Inv, KeysUsed
      <4>3. \A f \in Consumers : Shows(f)' /\ f # c => Shows(f) /\ thread'[f] = thread[f]
        BY <2>4 DEF Shows
      <4> QED
        BY <4>1, <4>2, <4>3 DEF Inv, NotYetShown
    <3> QED
      BY <3>1, <3>2
  <2>9. ShownOnce'
    BY <1>0 DEF Inv, ShownOnce
  <2> QED
    BY <2>5, <2>6, <2>8, <2>9 DEF Inv
<1> QED
  BY <1>1, <1>2

(* Showing appends a message that no row holds and no other thread shows.  *)
LEMMA ShowInv ==
  ASSUME Inv, NEW c \in Consumers, InsertMessageInbox(c)
  PROVE  Inv'
<1> DEFINE e == thread[c].e
<1>0. /\ c \in Threads /\ DOMAIN thread = Threads /\ DOMAIN thread[c] = Fields
      /\ inbox' = Append(inbox, e) /\ session' = session
      /\ thread' = [thread EXCEPT ![c].pc = "delete"]
      /\ thread[c].pc = "show"
  BY DEF Inv, Shape, InsertMessageInbox, Threads, Goto
<1>1. PICK S : inbox \in Seq(S)
  BY DEF Inv, Shape
<1>2. inbox \in Seq(S \cup {e})
  BY <1>1
<1>3. /\ inbox' \in Seq(S \cup {e})
      /\ DOMAIN inbox' = DOMAIN inbox \cup {Len(inbox) + 1}
      /\ \A i \in DOMAIN inbox : inbox'[i] = inbox[i]
      /\ inbox'[Len(inbox) + 1] = e
      /\ Len(inbox) + 1 \notin DOMAIN inbox
  BY <1>0, <1>2
<1>4. /\ ~Shows(c)'
      /\ \A d \in Consumers : d # c => thread'[d] = thread[d]
  BY <1>0 DEF Shows, Fields, Threads
<1>5. Shape'
  <2>1. DOMAIN thread' = Threads /\ \A t \in Threads : DOMAIN thread'[t] = Fields
    BY <1>0 DEF Inv, Shape, Fields
  <2> QED
    BY <2>1, <1>3 DEF Shape
<1>6. e \notin Corrupt => Shows(c)
  BY <1>0 DEF Shows
<1>7. KeysUsed'
  BY <1>0, <1>3, <1>4, <1>6 DEF Inv, KeysUsed, Shows
<1>8. NotYetShown'
  <2> SUFFICES ASSUME NEW d \in Consumers, Shows(d)'
               PROVE  /\ \A i \in DOMAIN inbox' : inbox'[i] # thread'[d].e
                      /\ \A f \in Consumers :
                           Shows(f)' /\ thread'[f].e = thread'[d].e => f = d
    BY DEF NotYetShown
  <2>1. d # c /\ thread'[d] = thread[d] /\ Shows(d)
    BY <1>4 DEF Shows
  <2>2. thread[d].e # e
    BY <1>0, <2>1 DEF Inv, NotYetShown, Shows
  <2>3. \A f \in Consumers : Shows(f)' => Shows(f) /\ thread'[f] = thread[f]
    BY <1>4 DEF Shows
  <2> QED
    BY <1>3, <2>1, <2>2, <2>3 DEF Inv, NotYetShown
<1>9. ShownOnce'
  <2>1. e \notin Corrupt => \A i \in DOMAIN inbox : inbox[i] # e
    BY <1>6 DEF Inv, NotYetShown
  <2> QED
    BY <1>3, <2>1 DEF Inv, ShownOnce
<1> QED
  BY <1>5, <1>7, <1>8, <1>9 DEF Inv

-----------------------------------------------------------------------------
(* The steps of the service's thread and of whoever handles an envelope.   *)
LEMMA HandleStepInv ==
  ASSUME Inv, NEW t \in Threads, HandleStep(t)
  PROVE  Inv'
<1>0. Shape /\ DOMAIN thread = Threads /\ DOMAIN thread[t] = Fields
  BY DEF Inv, Shape
<1>h. Handled(t) # "show"
  BY DEF Handled
<1>1. ASSUME NEW blocked \in Blocking, Find(t, blocked) PROVE Inv'
  <2>1. inbox' = inbox /\ session' = session
    BY <1>1 DEF Find, dataVars
  <2>2. \/ Goto(t, Handled(t)) \/ Goto(t, "insert")
        \/ thread' = [thread EXCEPT ![t].pc = "add", ![t].row = Min(RowsOf(thread[t].e))]
    BY <1>1 DEF Find
  <2>3. CASE thread' = [thread EXCEPT ![t].pc = "add", ![t].row = Min(RowsOf(thread[t].e))]
    BY <1>0, <2>1, <2>3, QuietStep DEF Shape, Quiet, Fields
  <2> QED
    BY <1>0, <1>h, <2>1, <2>2, <2>3, GotoSteps, QuietStep DEF Quiet
<1>2. CASE InsertRow(t)
  BY <1>0, <1>2, QuietStep DEF InsertRow, Quiet, Shape, Fields
<1>3. CASE AddDecryptJob(t)
  BY <1>0, <1>h, <1>3, GotoSteps, QuietStep DEF AddDecryptJob, Quiet, dataVars
<1>4. CASE AddReceiptJob(t)
  BY <1>0, <1>4, GotoSteps, QuietStep DEF AddReceiptJob, Quiet, dataVars
<1>5. CASE Acknowledge(t)
  <2>1. inbox' = inbox /\ session' = session
    BY <1>5 DEF Acknowledge
  <2>2. CASE thread' = [thread EXCEPT ![t] = Start]
    BY <1>0, <2>1, <2>2, QuietStep DEF Quiet, Start, Rest, Fields
  <2>3. CASE Goto(t, "done")
    BY <1>0, <2>1, <2>3, GotoSteps, QuietStep DEF Quiet
  <2>4. CASE thread' = [thread EXCEPT ![t].pc = "find", ![t].e = Head(thread[t].todo),
                                      ![t].todo = Tail(thread[t].todo)]
    BY <1>0, <2>1, <2>4, QuietStep DEF Shape, Quiet, Fields
  <2> QED
    BY <1>0, <1>5, <2>2, <2>3, <2>4 DEF Acknowledge, Fields
<1>6. CASE LoseAck(t)
  <2>1. inbox' = inbox /\ session' = session
    BY <1>6 DEF LoseAck
  <2>2. CASE thread' = [thread EXCEPT ![t] = Start]
    BY <1>0, <2>1, <2>2, QuietStep DEF Quiet, Start, Rest, Fields
  <2>3. CASE RetryLater(t)
    BY <1>0, <2>1, <2>3, RetrySteps, QuietStep DEF Quiet
  <2> QED
    BY <1>6, <2>2, <2>3 DEF LoseAck
<1> QED
  BY <1>1, <1>2, <1>3, <1>4, <1>5, <1>6 DEF HandleStep

(* The steps of a job that neither decrypt nor show.                       *)
LEMMA JobStepInv ==
  ASSUME Inv, NEW c \in Consumers, JobStep(c)
  PROVE  Inv'
<1>0. c \in Threads /\ Shape /\ DOMAIN thread = Threads /\ DOMAIN thread[c] = Fields
  BY DEF Inv, Shape, Threads
<1>1. CASE RetrieveMessages(c)
  <2>1. inbox' = inbox /\ session' = session
    BY <1>1 DEF RetrieveMessages, dataVars
  <2>2. \/ Goto(c, "done")
        \/ \E head, tail : thread' = [thread EXCEPT ![c].pc = "find", ![c].e = head,
                                                    ![c].todo = tail]
    BY <1>1 DEF RetrieveMessages
  <2>3. CASE Goto(c, "done")
    BY <1>0, <2>1, <2>3, GotoSteps, QuietStep DEF Quiet
  <2>4. ASSUME NEW head, NEW tail,
               thread' = [thread EXCEPT ![c].pc = "find", ![c].e = head, ![c].todo = tail]
        PROVE  Inv'
    BY <1>0, <2>1, <2>4, QuietStep DEF Shape, Quiet, Fields
  <2> QED
    BY <2>2, <2>3, <2>4
<1>2. CASE RetrieveFails(c)
  BY <1>0, <1>2, RetrySteps, QuietStep DEF RetrieveFails, Quiet, dataVars
<1>3. CASE ReadContent(c)
  BY <1>0, <1>3, QuietStep DEF ReadContent, Quiet, Shape, Fields, dataVars
<1>4. CASE SendReceipt(c)
  BY <1>0, <1>4, GotoSteps, QuietStep DEF SendReceipt, Quiet, dataVars
<1>5. CASE ReceiptFails(c)
  BY <1>0, <1>5, RetrySteps, QuietStep DEF ReceiptFails, Quiet, dataVars
<1>6. CASE GetRow(c)
  <2>1. inbox' = inbox /\ session' = session
    BY <1>6 DEF GetRow, dataVars
  <2>2. CASE Goto(c, "done")
    BY <1>0, <2>1, <2>2, GotoSteps, QuietStep DEF Quiet
  <2>3. ASSUME NEW row, NEW e,
               thread' = [thread EXCEPT ![c].pc = "decrypt", ![c].row = row, ![c].e = e]
        PROVE  Inv'
    BY <1>0, <2>1, <2>3, QuietStep DEF Shape, Quiet, Fields
  <2> QED
    BY <1>6, <2>2, <2>3 DEF GetRow
<1>7. CASE Decrypt(c)
  BY <1>7, DecryptInv
<1>8. CASE InsertMessageInbox(c)
  BY <1>8, ShowInv
<1>9. CASE DeleteRow(c)
  BY <1>0, <1>9, GotoSteps, QuietStep DEF DeleteRow, Quiet
<1>10. CASE FinishJob(c)
  BY <1>0, <1>10, QuietStep DEF FinishJob, Quiet, Shape, Rest, Fields, dataVars
<1> QED
  BY <1>1, <1>2, <1>3, <1>4, <1>5, <1>6, <1>7, <1>8, <1>9, <1>10 DEF JobStep

(* Every step keeps the invariant.                                         *)
LEMMA NextInv == Inv /\ [Next]_vars => Inv'
<1> SUFFICES ASSUME Inv, [Next]_vars PROVE Inv'
  OBVIOUS
<1>0. Shape /\ DOMAIN thread = Threads /\ Service \in Threads /\ DOMAIN thread[Service] = Fields
  BY DEF Inv, Shape, Threads
<1>1. CASE UNCHANGED thread /\ UNCHANGED <<inbox, session>>
  BY <1>0, <1>1, QuietStep DEF Quiet
<1>2. CASE NotifyAll /\ UNCHANGED <<inbox, session>>
  <2>1. /\ DOMAIN thread' = Threads /\ DOMAIN thread'[Service] = Fields
        /\ \A c \in Consumers : thread'[c] = thread[c]
    BY <1>0, <1>2, ConsumersAssumption DEF NotifyAll, Shape, Fields, Threads
  <2> QED
    BY <1>2, <2>1, ConsumersAssumption, QuietStep DEF Quiet, Threads
<1>3. CASE Arrive \/ ReceivedMessage \/ ReceivedNotification \/ LoseNetwork \/ StoreJob
  BY <1>1, <1>3 DEF Arrive, ReceivedMessage, ReceivedNotification, LoseNetwork, StoreJob, dataVars
<1>4. CASE IncrementActive \/ DecrementActive \/ RegainNetwork
  BY <1>2, <1>4 DEF IncrementActive, DecrementActive, RegainNetwork, dataVars
<1>5. ASSUME NEW t \in Threads, HandleStep(t) PROVE Inv'
  BY <1>5, HandleStepInv
<1>6. CASE ServiceStep
  <2>1. inbox' = inbox /\ session' = session
    BY <1>6 DEF ServiceStep, CheckConnection, Read, ReadEnds, dataVars
  <2>2. CASE CheckConnection
    <3>1. PICK pc \in {"read", "wait"} : Goto(Service, pc)
      BY <2>2 DEF CheckConnection
    <3> QED
      BY <1>0, <2>1, <3>1, GotoSteps, QuietStep DEF Quiet
  <2>3. CASE Read
    <3>1. thread' = [thread EXCEPT ![Service].pc = "find", ![Service].e = Min(server)]
      BY <2>3 DEF Read
    <3> QED
      BY <1>0, <2>1, <3>1, QuietStep DEF Quiet, Shape, Fields
  <2>4. CASE ReadEnds
    BY <1>0, <2>1, <2>4, GotoSteps, QuietStep DEF ReadEnds, Quiet
  <2> QED
    BY <1>6, <2>2, <2>3, <2>4 DEF ServiceStep
<1>7. ASSUME NEW c \in Consumers, TakeJob(c) PROVE Inv'
  <2>1. inbox' = inbox /\ session' = session /\ c \in Threads
    BY <1>7 DEF TakeJob, dataVars, Threads
  <2>2. PICK j : thread' = [thread EXCEPT ![c] = [Rest EXCEPT !.pc = "run", !.job = j]]
    BY <1>7 DEF TakeJob
  <2> QED
    BY <1>0, <2>1, <2>2, QuietStep DEF Quiet, Shape, Rest, Fields
<1>8. ASSUME NEW c \in Consumers, JobStep(c) PROVE Inv'
  BY <1>8, JobStepInv
<1>9. CASE Crash
  BY <1>0, <1>9, QuietStep DEF Crash, Quiet, dataVars, Start, Rest, Fields
<1>10. CASE UNCHANGED vars
  BY <1>1, <1>10 DEF vars
<1> QED
  BY <1>3, <1>4, <1>5, <1>6, <1>7, <1>8, <1>9, <1>10 DEF Next

-----------------------------------------------------------------------------
(* Operators of the libraries *)

(* The least and the greatest member of a finite set of numbers: the       *)
(* numbers below some member are fewest below the least.                   *)
LEMMA FiniteHasMin ==
  ASSUME NEW S \in SUBSET Int, S # {}, IsFiniteSet(S)
  PROVE  Min(S) \in S /\ \A x \in S : Min(S) <= x
<1> DEFINE Below(x) == {y \in S : y <= x}
           F == {Below(x) : x \in S}
<1>1. F \subseteq FiniteSubsetsOf(S) /\ F # {}
  <2>1. \A x \in S : IsFiniteSet(Below(x))
    BY FS_Subset
  <2> QED
    BY <2>1 DEF FiniteSubsetsOf
<1>2. PICK T \in F : \A U \in F : ~ (<<U, T>> \in StrictSubsetOrdering(S))
  BY <1>1, FS_StrictSubsetOrderingWellFounded, WFMin
<1>3. PICK x \in S : T = Below(x)
  OBVIOUS
<1>4. \A y \in S : x <= y
  <2> SUFFICES ASSUME NEW y \in S, y < x PROVE FALSE
    OBVIOUS
  <2>1. Below(y) \in F
    OBVIOUS
  <2>2. <<Below(y), T>> \in StrictSubsetOrdering(S)
    <3>1. x \in Int /\ y \in Int
      OBVIOUS
    <3>2. \A z \in Int : z <= y => z <= x
      BY <3>1
    <3>3. Below(y) \subseteq T
      BY <1>3, <3>2
    <3>4. x \in T /\ x \notin Below(y) /\ T \subseteq S
      BY <1>3, <3>1
    <3> QED
      BY <3>3, <3>4 DEF StrictSubsetOrdering
  <2> QED
    BY <1>2, <2>1, <2>2
<1> QED
  BY <1>4 DEF Min

LEMMA FiniteHasMax ==
  ASSUME NEW S \in SUBSET Int, S # {}, IsFiniteSet(S)
  PROVE  Max(S) \in S /\ \A x \in S : Max(S) >= x
<1> DEFINE Above(x) == {y \in S : y >= x}
           F == {Above(x) : x \in S}
<1>1. F \subseteq FiniteSubsetsOf(S) /\ F # {}
  <2>1. \A x \in S : IsFiniteSet(Above(x))
    BY FS_Subset
  <2> QED
    BY <2>1 DEF FiniteSubsetsOf
<1>2. PICK T \in F : \A U \in F : ~ (<<U, T>> \in StrictSubsetOrdering(S))
  BY <1>1, FS_StrictSubsetOrderingWellFounded, WFMin
<1>3. PICK x \in S : T = Above(x)
  OBVIOUS
<1>4. \A y \in S : x >= y
  <2> SUFFICES ASSUME NEW y \in S, y > x PROVE FALSE
    OBVIOUS
  <2>1. Above(y) \in F
    OBVIOUS
  <2>2. <<Above(y), T>> \in StrictSubsetOrdering(S)
    <3>1. x \in Int /\ y \in Int
      OBVIOUS
    <3>2. \A z \in Int : z >= y => z >= x
      BY <3>1
    <3>3. Above(y) \subseteq T
      BY <1>3, <3>2
    <3>4. x \in T /\ x \notin Above(y) /\ T \subseteq S
      BY <1>3, <3>1
    <3> QED
      BY <3>3, <3>4 DEF StrictSubsetOrdering
  <2> QED
    BY <1>2, <2>1, <2>2
<1> QED
  BY <1>4 DEF Max

(* Taking out the i-th element of a sequence.                              *)
LEMMA RemoveAtFacts ==
  ASSUME NEW S, NEW s \in Seq(S), NEW i \in DOMAIN s
  PROVE  /\ RemoveAt(s, i) \in Seq(S)
         /\ DOMAIN RemoveAt(s, i) = 1..(Len(s) - 1)
         /\ \A k \in DOMAIN RemoveAt(s, i) :
              /\ k < i => RemoveAt(s, i)[k] = s[k]
              /\ k >= i => RemoveAt(s, i)[k] = s[k + 1]
<1>1. i \in 1..Len(s) /\ Len(s) \in Nat
  OBVIOUS
<1> DEFINE a == SubSeq(s, 1, i - 1)
           b == SubSeq(s, i + 1, Len(s))
<1>2. a \in Seq(S) /\ Len(a) = i - 1 /\ \A k \in 1..(i - 1) : a[k] = s[k]
  BY <1>1
<1>3. b \in Seq(S) /\ Len(b) = Len(s) - i /\ \A k \in 1..(Len(s) - i) : b[k] = s[k + i]
  BY <1>1
<1>4. RemoveAt(s, i) = a \o b
  BY DEF RemoveAt
<1> HIDE DEF a, b
<1>5. a \o b \in Seq(S) /\ Len(a \o b) = Len(s) - 1
  <2>1. a \o b \in Seq(S) /\ Len(a \o b) = Len(a) + Len(b)
    BY <1>2, <1>3, ConcatProperties
  <2> QED
    BY <1>1, <1>2, <1>3, <2>1
<1>6. ASSUME NEW k \in 1..(Len(s) - 1)
      PROVE  (k < i => (a \o b)[k] = s[k]) /\ (k >= i => (a \o b)[k] = s[k + 1])
  <2>1. k \in 1..(Len(a) + Len(b)) /\ k \in Int
    BY <1>1, <1>2, <1>3
  <2>2. (a \o b)[k] = IF k <= Len(a) THEN a[k] ELSE b[k - Len(a)]
    BY <1>2, <1>3, <2>1, ConcatProperties
  <2>3. k < i => (a \o b)[k] = s[k]
    BY <1>1, <1>2, <2>1, <2>2
  <2>4. ASSUME k >= i PROVE (a \o b)[k] = s[k + 1]
    <3>1. k - Len(a) \in 1..(Len(s) - i) /\ k - Len(a) + i = k + 1 /\ ~ (k <= Len(a))
      BY <1>1, <1>2, <2>1, <2>4
    <3> QED
      BY <1>3, <2>2, <3>1
  <2> QED
    BY <2>3, <2>4
<1> QED
  BY <1>1, <1>4, <1>5, <1>6

-----------------------------------------------------------------------------
(* The jobs *)

(* Jobs that have an envelope where their kind needs one.                  *)
SoundJob == {j \in Job : j.kind \in {"decrypt", "content", "receipt"} => j.e \in Envelopes}

Carrying == {"find", "insert", "add", "receipt", "ack", "decrypt", "show", "delete"}

(* Threads with such jobs, that have an envelope where they handle one.    *)
SoundThread == {r \in Thread : r.job \in SoundJob /\ (r.pc \in Carrying => r.e \in Envelopes)}

Logs  == [{"dropped", "lost", "orphans", "receipts", "astray"} -> SUBSET Envelopes]
Usage == [{"notifications", "visits", "lostAcks", "outages", "crashes"} -> Nat]

(* Beyond TypeOK: sound jobs and threads, the ghosts, the counters, and a  *)
(* push table that is finite.                                              *)
Typed ==
  /\ TypeOK
  /\ adding \in Seq(SoundJob) /\ stored \in Seq(SoundJob) /\ queue \in Seq(SoundJob)
  /\ thread \in [Threads -> SoundThread]
  /\ log \in Logs
  /\ used \in Usage
  /\ push \in [DOMAIN push -> Envelopes]
  /\ IsFiniteSet(DOMAIN push)

Busy == {c \in Consumers : thread[c].pc # "idle"}
Decrypting == {c \in Busy : thread[c].job.kind = "decrypt"}

(* What each kind of job is made of.                                       *)
Formed(j) ==
  /\ j.kind \in {"decrypt", "fetch", "content", "receipt"}
  /\ j.persistent <=> j.kind # "fetch"
  /\ j.group = "decrypt" <=> j.kind = "decrypt"
  /\ j.kind \in {"content", "receipt"} => j.group = "none"
  /\ j.kind \in {"decrypt", "content"} => j.iter = 0
  /\ j.kind # "fetch" => j.e \in 1..arrived
  /\ j.kind = "content" => j.e \in Direct

JobsFormed ==
  /\ \A n \in DOMAIN adding : Formed(adding[n]) /\ adding[n].id = 0
  /\ \A n \in DOMAIN stored :
       Formed(stored[n]) /\ stored[n].persistent /\ stored[n].id \in 1..lastId
  /\ \A n \in DOMAIN queue : Formed(queue[n]) /\ queue[n].id \in 1..lastId
  /\ \A c \in Busy : Formed(thread[c].job) /\ thread[c].job.id \in 1..lastId

(* Where a thread can be that runs such a job.                             *)
Places(kind) == CASE kind = "decrypt" -> {"run", "decrypt", "show", "delete", "done"}
                  [] kind = "fetch"   -> {"run", "find", "insert", "add", "ack", "done"}
                  [] kind = "content" -> {"run", "find", "insert", "add", "receipt", "done"}
                  [] kind = "receipt" -> {"run", "done"}

InPlace ==
  /\ \A c \in Busy : thread[c].pc \in Places(thread[c].job.kind)
  /\ thread[Service].pc \in {"check", "wait", "read", "find", "insert", "add", "ack"}
  /\ thread[Service].job = NoJob

(* The storage is in order of id, and no job is queued or run twice.       *)
JobsApart ==
  /\ \A i, k \in DOMAIN stored : i < k => stored[i].id < stored[k].id
  /\ \A i, k \in DOMAIN queue : queue[i].id = queue[k].id => i = k
  /\ \A c, d \in Busy : thread[c].job.id = thread[d].job.id => c = d
  /\ \A i \in DOMAIN queue, c \in Busy : queue[i].id # thread[c].job.id

Same(j, k) == j.id = k.id /\ j.kind = k.kind /\ j.row = k.row /\ j.e = k.e

(* A persistent job is stored as long as it waits or runs, and waits or    *)
(* runs as long as it is stored.                                           *)
JobsKept ==
  /\ \A n \in DOMAIN queue : queue[n].persistent => \E m \in DOMAIN stored : Same(stored[m], queue[n])
  /\ \A c \in Busy : thread[c].job.persistent => \E m \in DOMAIN stored : Same(stored[m], thread[c].job)
  /\ \A m \in DOMAIN stored :
       \/ \E n \in DOMAIN queue : Same(stored[m], queue[n])
       \/ \E c \in Busy : Same(stored[m], thread[c].job)

(* One decrypt job runs at a time, in the order they were stored.          *)
DecryptsInTurn ==
  /\ \A c, d \in Decrypting : c = d
  /\ \A i, k \in DOMAIN queue :
       queue[i].kind = "decrypt" /\ queue[k].kind = "decrypt" /\ i < k => queue[i].id < queue[k].id
  /\ \A c \in Decrypting, k \in DOMAIN queue :
       queue[k].kind = "decrypt" => thread[c].job.id < queue[k].id

Jobs == JobsFormed /\ InPlace /\ JobsApart /\ JobsKept /\ DecryptsInTurn

-----------------------------------------------------------------------------
(* The rows *)

Holds(row, e) == row \in DOMAIN push /\ push[row] = e
Known(e)      == e \in Shown \cup session

Held(row, e)  == Holds(row, e) \/ Known(e)

(* A thread has the row it read or is about to queue; the job that deletes *)
(* the row has shown its envelope or found its key used.                   *)
ThreadHeld(t) ==
  /\ thread[t].pc \in {"decrypt", "show", "delete"} =>
       /\ Holds(thread[t].row, thread[t].e)
       /\ thread[t].row = thread[t].job.row
       /\ thread[t].e = thread[t].job.e \/ thread[t].e \in log.astray
  /\ thread[t].pc = "delete" => Known(thread[t].e)
  /\ thread[t].pc = "add" => Held(thread[t].row, thread[t].e)
  /\ thread[t].pc = "done" /\ thread[t].job.kind = "decrypt" => Known(thread[t].job.e)

(* The row an envelope was stored in holds it until it is known.           *)
RowsHeld ==
  /\ \A t \in Threads : ThreadHeld(t)
  /\ \A n \in DOMAIN stored : stored[n].kind = "decrypt" => Held(stored[n].row, stored[n].e)
  /\ \A n \in DOMAIN adding : adding[n].kind = "decrypt" => Held(adding[n].row, adding[n].e)

Handling == {"find", "insert", "add", "receipt", "ack"}

(* Only a content job handles an envelope that came with a GCM message.    *)
ThreadChannel(t) ==
  /\ thread[t].pc \in Handling =>
       /\ thread[t].e \in 1..arrived
       /\ thread[t].job.kind = "content" => thread[t].e = thread[t].job.e
       /\ thread[t].job.kind # "content" => thread[t].e \notin Direct
  /\ \A k \in DOMAIN thread[t].todo : thread[t].todo[k] \in 1..arrived \ Direct

Channels ==
  /\ server \subseteq 1..arrived \ Direct
  /\ \A row \in DOMAIN push : push[row] \in 1..arrived
  /\ log.lost \subseteq 1..arrived
  /\ \A t \in Threads : ThreadChannel(t)

(* A GCM message whose job is not stored yet, or was lost, left no row.    *)
Untouched(e) ==
  /\ e \in Direct
  /\ \A row \in DOMAIN push : push[row] # e
  /\ \A n \in DOMAIN stored : stored[n].kind = "content" => stored[n].e # e

LostUnseen ==
  /\ \A n \in DOMAIN adding : adding[n].kind = "content" =>
       /\ Untouched(adding[n].e) /\ adding[n].e \notin log.lost
       /\ \A m \in DOMAIN adding : adding[m].kind = "content" /\ adding[m].e = adding[n].e => m = n
  /\ \A e \in log.lost : Untouched(e)

Rows == RowsHeld /\ Channels /\ LostUnseen

-----------------------------------------------------------------------------
(* No envelope is lost sight of *)

OwnStored(e) == \E n \in DOMAIN stored : stored[n].kind = "decrypt" /\ stored[n].e = e
OwnAdding(e) == \E n \in DOMAIN adding : adding[n].kind = "decrypt" /\ adding[n].e = e
Secured(e)   == e \in Shown \cup session \cup log.dropped \/ OwnStored(e)

HandledSafely ==
  \A t \in Threads :
    /\ thread[t].pc \in {"ack", "receipt"} => Secured(thread[t].e) \/ OwnAdding(thread[t].e)
    /\ thread[t].pc = "done" /\ thread[t].job.kind = "content" =>
         Secured(thread[t].job.e) \/ OwnAdding(thread[t].job.e)

Found(e) ==
  \/ e \in server \cup log.orphans \cup log.lost
  \/ Secured(e) \/ OwnAdding(e)
  \/ \E n \in DOMAIN stored : stored[n].kind = "content" /\ stored[n].e = e
  \/ \E n \in DOMAIN adding : adding[n].kind = "content" /\ adding[n].e = e

AllFound ==
  /\ \A e \in 1..arrived : Found(e)
  /\ \A e \in log.orphans : (\E row \in DOMAIN push : Holds(row, e)) \/ Known(e)

(* A receipt job is behind the decrypt job of its envelope.                *)
ReceiptsBehind ==
  /\ \A e \in log.receipts : Secured(e)
  /\ \A n \in DOMAIN stored : stored[n].kind = "receipt" => Secured(stored[n].e)
  /\ \A n \in DOMAIN adding : adding[n].kind = "receipt" =>
       \/ Secured(adding[n].e)
       \/ \E m \in 1..(n - 1) : adding[m].kind = "decrypt" /\ adding[m].e = adding[n].e

Kept == HandledSafely /\ AllFound /\ ReceiptsBehind

-----------------------------------------------------------------------------
(* The order *)

(* No job for e, and none to come.                                         *)
Gone(e) ==
  /\ e \notin server
  /\ ~OwnStored(e) /\ ~OwnAdding(e)
  /\ \A t \in Threads : thread[t].pc \in {"find", "insert", "add"} => thread[t].e # e
  /\ \A t \in Threads : e \notin ToSet(thread[t].todo)

Aside      == Corrupt \cup Direct \cup log.dropped \cup log.astray
Over(e)    == e \in session \cup Corrupt \cup Direct \cup log.dropped \/ Gone(e)
Queued(e)  == Over(e) \/ OwnStored(e) \/ OwnAdding(e)

(* Only a fetch that handles an envelope has a list.                       *)
ListsEmpty ==
  \A t \in Threads :
    thread[t].pc \notin Handling \/ thread[t].job.kind = "content" => thread[t].todo = <<>>

(* Whoever handles an envelope, those before it are over, have a job, or   *)
(* are earlier in the list.                                                *)
Ahead(t, k, e) ==
  Queued(e) \/ e = thread[t].e \/ \E i \in 1..(k - 1) : thread[t].todo[i] = e

ThreadInOrder(t) ==
  thread[t].pc \in Handling \ {"receipt"} /\ thread[t].job.kind # "content" =>
    /\ \A e \in 1..(thread[t].e - 1) : Queued(e)
    /\ \A k \in DOMAIN thread[t].todo : \A e \in 1..(thread[t].todo[k] - 1) : Ahead(t, k, e)

TakenInOrder ==
  /\ \A e \in 1..arrived : e \in server \/ Queued(e)
  /\ \A t \in Threads : ThreadInOrder(t)

(* Jobs are stored in that order ...                                       *)
JobsInOrder ==
  /\ \A n \in DOMAIN stored : stored[n].kind = "decrypt" /\ stored[n].e \notin Direct =>
       \A e \in 1..(stored[n].e - 1) :
         \/ Over(e)
         \/ \E m \in DOMAIN stored :
              stored[m].id < stored[n].id /\ stored[m].kind = "decrypt" /\ stored[m].e = e
  /\ \A n \in DOMAIN adding : adding[n].kind = "decrypt" /\ adding[n].e \notin Direct =>
       \A e \in 1..(adding[n].e - 1) :
         \/ Over(e) \/ OwnStored(e)
         \/ \E m \in 1..(n - 1) : adding[m].kind = "decrypt" /\ adding[m].e = e

(* ... and run in it.                                                      *)
DecryptedInOrder ==
  /\ session \subseteq 1..arrived
  /\ \A e \in session \ Aside : \A d \in 1..(e - 1) : Over(d)
  /\ \A c \in Busy : thread[c].pc = "show" /\ thread[c].e \notin Aside =>
       \A e \in Shown \ Aside : e <= thread[c].e

Order == ListsEmpty /\ TakenInOrder /\ JobsInOrder /\ DecryptedInOrder

-----------------------------------------------------------------------------
(* Types *)

LEMMA ConstantTypes ==
  /\ MaxEnvelopes \in Nat /\ Envelopes \subseteq Nat \ {0} /\ 0 \in 0..MaxEnvelopes
  /\ Envelopes \subseteq 0..MaxEnvelopes
  /\ IsFiniteSet(Envelopes)
  BY EnvelopesAssumption, FS_Interval DEF Envelopes

LEMMA JobTypes ==
  /\ NoJob \in SoundJob /\ PushNotificationReceiveJob \in SoundJob
  /\ \A row \in Nat, e \in Envelopes : PushDecryptJob(row, e) \in SoundJob
  /\ \A e \in Envelopes : PushContentReceiveJob(e) \in SoundJob /\ DeliveryReceiptJob(e) \in SoundJob
  /\ \A j \in SoundJob : /\ [j EXCEPT !.iter = @ + 1] \in SoundJob
                         /\ \A n \in Nat : [j EXCEPT !.id = n] \in SoundJob
<1>1. NoJob \in SoundJob /\ PushNotificationReceiveJob \in SoundJob
  BY ConstantTypes DEF SoundJob, Job, NoJob, PushNotificationReceiveJob
<1>2. ASSUME NEW row \in Nat, NEW e \in Envelopes PROVE PushDecryptJob(row, e) \in SoundJob
  BY ConstantTypes DEF SoundJob, Job, NoJob, PushDecryptJob
<1>3. ASSUME NEW e \in Envelopes
      PROVE  PushContentReceiveJob(e) \in SoundJob /\ DeliveryReceiptJob(e) \in SoundJob
  BY ConstantTypes DEF SoundJob, Job, NoJob, PushContentReceiveJob, DeliveryReceiptJob
<1>4. ASSUME NEW j \in SoundJob PROVE [j EXCEPT !.iter = @ + 1] \in SoundJob
  BY DEF SoundJob, Job
<1>5. ASSUME NEW j \in SoundJob, NEW n \in Nat PROVE [j EXCEPT !.id = n] \in SoundJob
  BY DEF SoundJob, Job
<1> QED
  BY <1>1, <1>2, <1>3, <1>4, <1>5

LEMMA ThreadTypes ==
  /\ Rest \in SoundThread /\ Start \in SoundThread
  /\ \A j \in SoundJob : /\ [Rest EXCEPT !.pc = "run", !.job = j] \in SoundThread
                         /\ [Rest EXCEPT !.job = j, !.pc = "run"] \in SoundThread
                         /\ [Rest EXCEPT !.job = j, !.pc = "done"] \in SoundThread
<1>1. Rest \in SoundThread
  BY JobTypes, ConstantTypes DEF SoundThread, SoundJob, Thread, Rest, Carrying
<1>2. Start \in SoundThread
  BY <1>1 DEF SoundThread, Thread, Start, Carrying
<1>3. ASSUME NEW j \in SoundJob, NEW pc \in {"run", "done"}
      PROVE  [Rest EXCEPT !.pc = pc, !.job = j] \in SoundThread
  <2>1. j \in Job
    BY DEF SoundJob
  <2>2. [Rest EXCEPT !.pc = pc, !.job = j] \in Thread
    BY <1>1, <2>1 DEF SoundThread, Thread
  <2>3. pc \notin Carrying
    BY DEF Carrying
  <2> QED
    BY <1>1, <2>2, <2>3 DEF SoundThread, Thread
<1>4. ASSUME NEW j \in SoundJob, NEW pc \in {"run", "done"}
      PROVE  [Rest EXCEPT !.job = j, !.pc = pc] = [Rest EXCEPT !.pc = pc, !.job = j]
  BY <1>1 DEF SoundThread, Thread
<1> QED
  BY <1>1, <1>2, <1>3, <1>4

(* Where a thread may be.                                                  *)
Pcs == {"idle", "check", "wait", "read", "run", "find", "insert", "add", "receipt",
        "ack", "decrypt", "show", "delete", "done"}

LEMMA GotoType ==
  ASSUME thread \in [Threads -> SoundThread], NEW t \in Threads, NEW pc \in Pcs, Goto(t, pc),
         pc \notin Carrying \/ thread[t].pc \in Carrying
  PROVE  thread' \in [Threads -> SoundThread]
<1>1. [thread[t] EXCEPT !.pc = pc] \in SoundThread
  BY DEF SoundThread, SoundJob, Thread, Pcs
<1> QED
  BY <1>1 DEF Goto

LEMMA RetryType ==
  ASSUME Typed, NEW t \in Threads, RetryLater(t)
  PROVE  thread' \in [Threads -> SoundThread] /\ queue' \in Seq(SoundJob)
<1> DEFINE j == [thread[t].job EXCEPT !.iter = @ + 1]
<1>1. j \in SoundJob /\ thread \in [Threads -> SoundThread] /\ queue \in Seq(SoundJob)
  BY JobTypes DEF Typed, SoundThread
<1> HIDE DEF j
<1>2. CASE queue' = <<j>> \o queue /\ thread' = [thread EXCEPT ![t] = Rest]
  <2>1. <<j>> \in Seq(SoundJob)
    BY <1>1
  <2>2. queue' \in Seq(SoundJob)
    BY <1>1, <1>2, <2>1, ConcatProperties
  <2> QED
    BY <1>1, <1>2, <2>2, ThreadTypes
<1>3. CASE /\ thread' = [thread EXCEPT ![t] = [Rest EXCEPT
                           !.job = j, !.pc = IF j.iter < Retries(j) THEN "run" ELSE "done"]]
           /\ UNCHANGED queue
  <2>1. [Rest EXCEPT !.job = j, !.pc = IF j.iter < Retries(j) THEN "run" ELSE "done"] \in SoundThread
    <3>1. CASE j.iter < Retries(j)
      BY <1>1, <3>1, ThreadTypes
    <3>2. CASE ~ (j.iter < Retries(j))
      BY <1>1, <3>2, ThreadTypes
    <3> QED
      BY <3>1, <3>2
  <2> QED
    BY <1>1, <1>3, <2>1
<1> QED
  BY <1>2, <1>3 DEF RetryLater, j

(* A new row gets a number no row has.                                     *)
LEMMA NewRowIsNew ==
  ASSUME Typed
  PROVE  NewRow \in Nat \ {0} /\ NewRow \notin DOMAIN push
<1>1. CASE DOMAIN push = {}
  BY <1>1 DEF NewRow
<1>2. CASE DOMAIN push # {}
  <2>1. DOMAIN push \in SUBSET Int /\ DOMAIN push \subseteq Nat \ {0} /\ IsFiniteSet(DOMAIN push)
    BY DEF Typed, TypeOK
  <2>2. Max(DOMAIN push) \in DOMAIN push /\ \A x \in DOMAIN push : Max(DOMAIN push) >= x
    BY <1>2, <2>1, FiniteHasMax
  <2> QED
    BY <1>2, <2>1, <2>2 DEF NewRow
<1> QED
  BY <1>1, <1>2

LEMMA RowFound ==
  ASSUME Typed, NEW e, RowsOf(e) # {}
  PROVE  Min(RowsOf(e)) \in DOMAIN push /\ push[Min(RowsOf(e))] = e /\ Min(RowsOf(e)) \in Nat
<1>1. RowsOf(e) \in SUBSET Int /\ IsFiniteSet(RowsOf(e)) /\ RowsOf(e) \subseteq DOMAIN push
  BY FS_Subset DEF RowsOf, Typed, TypeOK
<1>2. Min(RowsOf(e)) \in RowsOf(e)
  BY <1>1, FiniteHasMin
<1> QED
  BY <1>2 DEF RowsOf, Typed, TypeOK

LEMMA OldestFound ==
  ASSUME Typed, server # {}
  PROVE  Min(server) \in server /\ \A e \in server : Min(server) <= e
<1>1. server \in SUBSET Int /\ IsFiniteSet(server)
  BY ConstantTypes, FS_Subset DEF Typed, TypeOK
<1> QED
  BY <1>1, FiniteHasMin

LEMMA ListType ==
  ASSUME Typed, NEW list \in InOrder(server)
  PROVE  /\ list \in Seq(Envelopes) /\ DOMAIN list = 1..Len(list)
         /\ ToSet(list) = server
         /\ \A i, k \in DOMAIN list : i < k => list[i] < list[k]
<1>1. server \subseteq Envelopes /\ IsFiniteSet(server)
  BY ConstantTypes, FS_Subset DEF Typed, TypeOK
<1>2. Cardinality(server) \in Nat
  BY <1>1, FS_CardinalityType
<1>3. list \in [1..Cardinality(server) -> Envelopes]
  BY <1>1 DEF InOrder
<1>4. list \in Seq(Envelopes)
  BY <1>2, <1>3
<1> QED
  BY <1>4 DEF InOrder

LEMMA TypedInit == Init => Typed
<1> SUFFICES ASSUME Init PROVE Typed
  OBVIOUS
<1>1. thread \in [Threads -> SoundThread] /\ thread \in [Threads -> Thread]
  BY ThreadTypes DEF Init, SoundThread
<1>2. push = <<>> /\ DOMAIN push = {} /\ Range(push) = {}
  BY DEF Init, Range
<1>3. IsFiniteSet(DOMAIN push)
  BY <1>2, FS_EmptySet
<1>4. TypeOK
  BY <1>1, <1>2, ConstantTypes DEF Init, TypeOK
<1>5. push \in [DOMAIN push -> Envelopes]
  BY <1>2
<1> QED
  BY <1>1, <1>3, <1>4, <1>5 DEF Init, Typed, Logs, Usage

(* What the steps that only move one thread leave to show.                 *)
LEMMA TypedMove ==
  ASSUME Typed, thread' \in [Threads -> SoundThread],
         UNCHANGED <<arrived, push, session, inbox, adding, stored, lastId, active, network>>,
         server' \subseteq server, queue' \in Seq(SoundJob), log' \in Logs, used' \in Usage
  PROVE  Typed'
<1>1. thread' \in [Threads -> Thread] /\ queue' \in Seq(Job)
  BY DEF SoundThread, SoundJob
<1> QED
  BY <1>1 DEF Typed, TypeOK

(* Handing one more job to JobManager.add.                                 *)
LEMMA TypedAdd ==
  ASSUME Typed, thread' \in [Threads -> SoundThread], NEW j \in SoundJob,
         adding' = Append(adding, j), arrived' \in 0..MaxEnvelopes,
         UNCHANGED <<server, push, session, inbox, stored, queue, lastId, active, network, log>>,
         used' \in Usage
  PROVE  Typed'
<1>1. thread' \in [Threads -> Thread] /\ adding' \in Seq(SoundJob) /\ adding' \in Seq(Job)
  BY DEF SoundThread, SoundJob, Typed
<1> QED
  BY <1>1 DEF Typed, TypeOK

(* The one counter a lost acknowledgement moves.                           *)
LEMMA FailingUsage ==
  ASSUME used \in Usage, Failing
  PROVE  used' \in Usage
<1>1. CASE network
  <2>1. used' = [used EXCEPT !.lostAcks = @ + 1]
    BY <1>1 DEF Failing
  <2>2. used.lostAcks + 1 \in Nat
    BY DEF Usage
  <2> QED
    BY <2>1, <2>2 DEF Usage
<1>2. CASE ~network
  <2>1. used' = [used EXCEPT !.lostAcks = @]
    BY <1>2 DEF Failing
  <2> QED
    BY <2>1 DEF Usage
<1> QED
  BY <1>1, <1>2

LEMMA TypedHandle ==
  ASSUME Typed, NEW t \in Threads, HandleStep(t)
  PROVE  Typed'
<1>0. /\ thread \in [Threads -> SoundThread] /\ thread[t] \in SoundThread
      /\ queue \in Seq(SoundJob) /\ adding \in Seq(SoundJob) /\ log \in Logs /\ used \in Usage
  BY DEF Typed
<1>h. Handled(t) \in Pcs
  BY DEF Handled, Pcs
<1>1. ASSUME NEW blocked \in Blocking, Find(t, blocked) PROVE Typed'
  <2>1. thread[t].e \in Envelopes /\ thread[t].pc \in Carrying
    BY <1>0, <1>1 DEF Find, SoundThread, Carrying
  <2>2. log' \in Logs
    BY <1>0, <1>1, <2>1 DEF Find, Logs
  <2>3. CASE Goto(t, Handled(t)) \/ Goto(t, "insert")
    <3>1. thread' \in [Threads -> SoundThread]
      BY <1>0, <1>h, <2>1, <2>3, GotoType DEF Pcs
    <3> QED
      BY <1>0, <1>1, <2>2, <3>1, TypedMove DEF Find, dataVars, jobVars
  <2>4. CASE /\ RowsOf(thread[t].e) # {}
             /\ thread' = [thread EXCEPT ![t].pc = "add", ![t].row = Min(RowsOf(thread[t].e))]
    <3>1. Min(RowsOf(thread[t].e)) \in Nat
      BY <2>4, RowFound
    <3>2. thread' \in [Threads -> SoundThread]
      BY <1>0, <2>1, <2>4, <3>1 DEF SoundThread, SoundJob, Thread
    <3> QED
      BY <1>0, <1>1, <2>2, <3>2, TypedMove DEF Find, dataVars, jobVars
  <2> QED
    BY <1>1, <2>3, <2>4 DEF Find
<1>2. CASE InsertRow(t)
  <2>1. thread[t].e \in Envelopes /\ thread[t].pc \in Carrying
    BY <1>0, <1>2 DEF InsertRow, SoundThread, Carrying
  <2>2. NewRow \in Nat \ {0}
    BY NewRowIsNew
  <2>3. thread' \in [Threads -> SoundThread]
    BY <1>0, <1>2, <2>1, <2>2 DEF InsertRow, SoundThread, SoundJob, Thread
  <2>4. thread' \in [Threads -> Thread]
    BY <2>3 DEF SoundThread
  <2>5. DOMAIN push' = DOMAIN push \cup {NewRow} /\ push' \in [DOMAIN push' -> Envelopes]
    BY <1>2, <2>1 DEF InsertRow, Typed
  <2>6. IsFiniteSet(DOMAIN push')
    BY <2>5, FS_AddElement DEF Typed
  <2>7. Range(push') \subseteq Envelopes /\ DOMAIN push' \subseteq Nat \ {0}
    BY <2>2, <2>5 DEF Range, Typed, TypeOK
  <2> QED
    BY <1>2, <2>3, <2>4, <2>5, <2>6, <2>7 DEF InsertRow, Typed, TypeOK, jobVars, restVars
<1>3. CASE AddDecryptJob(t)
  <2>1. thread[t].e \in Envelopes /\ thread[t].pc \in Carrying /\ thread[t].row \in Nat
    BY <1>0, <1>3 DEF AddDecryptJob, SoundThread, Carrying, Thread
  <2>2. thread' \in [Threads -> SoundThread]
    BY <1>0, <1>h, <1>3, <2>1, GotoType DEF AddDecryptJob
  <2> QED
    BY <1>3, <2>1, <2>2, JobTypes, TypedAdd DEF AddDecryptJob, dataVars, restVars, Typed, TypeOK
<1>4. CASE AddReceiptJob(t)
  <2>1. thread[t].e \in Envelopes
    BY <1>0, <1>4 DEF AddReceiptJob, SoundThread, Carrying, Thread
  <2>2. thread' \in [Threads -> SoundThread]
    BY <1>0, <1>4, GotoType DEF AddReceiptJob, Pcs, Carrying
  <2> QED
    BY <1>4, <2>1, <2>2, JobTypes, TypedAdd DEF AddReceiptJob, dataVars, restVars, Typed, TypeOK
<1>5. CASE Acknowledge(t)
  <2>1. thread' \in [Threads -> SoundThread]
    <3>1. CASE thread' = [thread EXCEPT ![t] = Start]
      BY <1>0, <3>1, ThreadTypes
    <3>2. CASE Goto(t, "done")
      BY <1>0, <3>2, GotoType DEF Pcs, Carrying
    <3>3. CASE /\ thread[t].todo # <<>>
               /\ thread' = [thread EXCEPT ![t].pc = "find", ![t].e = Head(thread[t].todo),
                                           ![t].todo = Tail(@)]
      <4>1. thread[t].todo \in Seq(Envelopes)
        BY <1>0 DEF SoundThread, Thread
      <4>2. Head(thread[t].todo) \in Envelopes /\ Tail(thread[t].todo) \in Seq(Envelopes)
        BY <3>3, <4>1
      <4> QED
        BY <1>0, <3>3, <4>2, ConstantTypes DEF SoundThread, SoundJob, Thread
    <3> QED
      BY <1>5, <3>1, <3>2, <3>3 DEF Acknowledge
  <2> QED
    BY <1>0, <1>5, <2>1, TypedMove DEF Acknowledge, jobVars, restVars
<1>6. CASE LoseAck(t)
  <2>1. thread' \in [Threads -> SoundThread] /\ queue' \in Seq(SoundJob)
    <3>1. CASE thread' = [thread EXCEPT ![t] = Start] /\ UNCHANGED queue
      BY <1>0, <3>1, ThreadTypes
    <3>2. CASE RetryLater(t)
      BY <3>2, RetryType
    <3> QED
      BY <1>6, <3>1, <3>2 DEF LoseAck
  <2>2. used' \in Usage
    <3>1. Failing
      BY <1>6 DEF LoseAck
    <3> QED
      BY <1>0, <3>1, FailingUsage
  <2>3. server' \subseteq server
    BY <1>6 DEF LoseAck
  <2> QED
    BY <1>0, <1>6, <2>1, <2>2, <2>3, TypedMove DEF LoseAck
<1> QED
  BY <1>1, <1>2, <1>3, <1>4, <1>5, <1>6 DEF HandleStep

LEMMA TypedJob ==
  ASSUME Typed, NEW c \in Consumers, JobStep(c)
  PROVE  Typed'
<1>0. /\ c \in Threads /\ thread \in [Threads -> SoundThread] /\ thread[c] \in SoundThread
      /\ thread[c].job \in SoundJob
      /\ queue \in Seq(SoundJob) /\ stored \in Seq(SoundJob) /\ log \in Logs /\ used \in Usage
  BY DEF Typed, Threads, SoundThread
<1>1. CASE RetrieveMessages(c)
  <2>1. thread' \in [Threads -> SoundThread]
    <3>1. CASE Goto(c, "done")
      BY <1>0, <3>1, GotoType DEF Pcs, Carrying
    <3>2. ASSUME NEW list \in InOrder(server), list # <<>>,
                 thread' = [thread EXCEPT ![c].pc = "find", ![c].e = Head(list),
                                          ![c].todo = Tail(list)]
          PROVE  thread' \in [Threads -> SoundThread]
      <4>1. list \in Seq(Envelopes)
        BY ListType
      <4>2. Head(list) \in Envelopes /\ Tail(list) \in Seq(Envelopes)
        BY <3>2, <4>1
      <4> QED
        BY <1>0, <3>2, <4>2, ConstantTypes DEF SoundThread, SoundJob, Thread
    <3> QED
      BY <1>1, <3>1, <3>2 DEF RetrieveMessages
  <2> QED
    BY <1>0, <1>1, <2>1, TypedMove DEF RetrieveMessages, dataVars, jobVars, restVars
<1>2. CASE RetrieveFails(c)
  <2>1. used' \in Usage
    BY <1>0, <1>2 DEF RetrieveFails, Failing, Usage
  <2> QED
    BY <1>0, <1>2, <2>1, RetryType, TypedMove DEF RetrieveFails, dataVars
<1>3. CASE ReadContent(c)
  <2>1. thread[c].job.e \in Envelopes
    BY <1>0, <1>3 DEF ReadContent, Run, SoundJob
  <2>2. thread' \in [Threads -> SoundThread]
    BY <1>0, <1>3, <2>1, ConstantTypes DEF ReadContent, SoundThread, SoundJob, Thread
  <2> QED
    BY <1>0, <1>3, <2>2, TypedMove DEF ReadContent, dataVars, jobVars, restVars
<1>4. CASE SendReceipt(c)
  <2>1. thread[c].job.e \in Envelopes
    BY <1>0, <1>4 DEF SendReceipt, Run, SoundJob
  <2>2. log' \in Logs
    BY <1>0, <1>4, <2>1 DEF SendReceipt, Logs
  <2>3. thread' \in [Threads -> SoundThread]
    BY <1>0, <1>4, GotoType DEF SendReceipt, Pcs, Carrying
  <2> QED
    BY <1>0, <1>4, <2>2, <2>3, TypedMove DEF SendReceipt, dataVars, jobVars
<1>5. CASE ReceiptFails(c)
  <2>1. thread[c].job.e \in Envelopes
    BY <1>0, <1>5 DEF ReceiptFails, Run, SoundJob
  <2>2. log' \in Logs
    BY <1>0, <1>5, <2>1 DEF ReceiptFails, Logs
  <2>3. used' \in Usage
    BY <1>0, <1>5 DEF ReceiptFails, Failing, Usage
  <2> QED
    BY <1>0, <1>5, <2>2, <2>3, RetryType, TypedMove DEF ReceiptFails, dataVars
<1>6. CASE GetRow(c)
  <2>1. CASE Goto(c, "done") /\ UNCHANGED log
    <3>1. thread' \in [Threads -> SoundThread]
      BY <1>0, <2>1, GotoType DEF Pcs, Carrying
    <3> QED
      BY <1>0, <1>6, <2>1, <3>1, TypedMove DEF GetRow, dataVars, jobVars
  <2>2. CASE /\ thread[c].job.row \in DOMAIN push
             /\ thread' = [thread EXCEPT ![c].pc = "decrypt", ![c].row = thread[c].job.row,
                                         ![c].e = push[thread[c].job.row]]
             /\ log' = [log EXCEPT !.astray = @ \cup ({push[thread[c].job.row]} \ {thread[c].job.e})]
    <3>1. push[thread[c].job.row] \in Envelopes /\ thread[c].job.row \in Nat
      BY <1>0, <2>2 DEF Typed, TypeOK
    <3>2. thread' \in [Threads -> SoundThread]
      BY <1>0, <2>2, <3>1, ConstantTypes DEF SoundThread, SoundJob, Thread
    <3>3. log' \in Logs
      BY <1>0, <2>2, <3>1 DEF Logs
    <3> QED
      BY <1>0, <1>6, <3>2, <3>3, TypedMove DEF GetRow, dataVars, jobVars
  <2> QED
    BY <1>6, <2>1, <2>2 DEF GetRow
<1>7. CASE Decrypt(c)
  <2>1. thread[c].e \in Envelopes /\ thread[c].pc \in Carrying
    BY <1>0, <1>7 DEF Decrypt, SoundThread, Carrying
  <2>2. thread' \in [Threads -> SoundThread]
    BY <1>0, <1>7, <2>1, GotoType DEF Decrypt, Pcs
  <2>3. thread' \in [Threads -> Thread] /\ session' \subseteq Envelopes
    BY <1>7, <2>1, <2>2 DEF Decrypt, SoundThread, Typed, TypeOK
  <2> QED
    BY <1>7, <2>2, <2>3 DEF Decrypt, Typed, TypeOK, jobVars, restVars
<1>8. CASE InsertMessageInbox(c)
  <2>1. thread[c].e \in Envelopes /\ thread[c].pc \in Carrying
    BY <1>0, <1>8 DEF InsertMessageInbox, SoundThread, Carrying
  <2>2. thread' \in [Threads -> SoundThread]
    BY <1>0, <1>8, <2>1, GotoType DEF InsertMessageInbox, Pcs
  <2>3. thread' \in [Threads -> Thread] /\ inbox' \in Seq(Envelopes)
    BY <1>8, <2>1, <2>2 DEF InsertMessageInbox, SoundThread, Typed, TypeOK
  <2> QED
    BY <1>8, <2>2, <2>3 DEF InsertMessageInbox, Typed, TypeOK, jobVars, restVars
<1>9. CASE DeleteRow(c)
  <2>1. thread' \in [Threads -> SoundThread]
    BY <1>0, <1>9, GotoType DEF DeleteRow, Pcs, Carrying
  <2>2. thread' \in [Threads -> Thread]
    BY <2>1 DEF SoundThread
  <2>3. DOMAIN push' = DOMAIN push \ {thread[c].row} /\ push' \in [DOMAIN push' -> Envelopes]
    BY <1>9 DEF DeleteRow, Typed
  <2>4. IsFiniteSet(DOMAIN push')
    BY <2>3, FS_RemoveElement DEF Typed
  <2>5. Range(push') \subseteq Envelopes /\ DOMAIN push' \subseteq Nat \ {0}
    BY <2>3 DEF Range, Typed, TypeOK
  <2> QED
    BY <1>9, <2>1, <2>2, <2>3, <2>4, <2>5 DEF DeleteRow, Typed, TypeOK, jobVars, restVars
<1>10. CASE FinishJob(c)
  <2>1. thread' \in [Threads -> SoundThread]
    BY <1>0, <1>10, ThreadTypes DEF FinishJob
  <2>2. thread' \in [Threads -> Thread]
    BY <2>1 DEF SoundThread
  <2>3. stored' \in Seq(SoundJob)
    BY <1>0, <1>10, RemoveAtFacts DEF FinishJob
  <2>4. stored' \in Seq(Job)
    BY <2>3 DEF SoundJob
  <2> QED
    BY <1>10, <2>1, <2>2, <2>3, <2>4 DEF FinishJob, Typed, TypeOK, dataVars, restVars
<1> QED
  BY <1>1, <1>2, <1>3, <1>4, <1>5, <1>6, <1>7, <1>8, <1>9, <1>10 DEF JobStep

LEMMA UsageTypes ==
  ASSUME used \in Usage
  PROVE  /\ [used EXCEPT !.notifications = @ + 1] \in Usage
         /\ [used EXCEPT !.visits = @ + 1] \in Usage
         /\ [used EXCEPT !.outages = @ + 1] \in Usage
         /\ [used EXCEPT !.crashes = @ + 1] \in Usage
  BY DEF Usage

(* The steps of the world outside and of the JobManager.                   *)
LEMMA TypedOther ==
  ASSUME Typed,
         \/ Arrive \/ ReceivedMessage \/ ReceivedNotification
         \/ IncrementActive \/ DecrementActive \/ LoseNetwork \/ RegainNetwork
         \/ StoreJob \/ ServiceStep \/ (\E c \in Consumers : TakeJob(c)) \/ Crash
  PROVE  Typed'
<1>0. /\ Service \in Threads /\ thread \in [Threads -> SoundThread] /\ thread[Service] \in SoundThread
      /\ queue \in Seq(SoundJob) /\ stored \in Seq(SoundJob) /\ adding \in Seq(SoundJob)
      /\ log \in Logs /\ used \in Usage /\ thread \in [Threads -> Thread]
      /\ active \in 0..1
  BY DEF Typed, Threads, TypeOK
<1>1. CASE Arrive
  <2>1. arrived + 1 \in Envelopes /\ arrived' \in 0..MaxEnvelopes
    BY <1>1, ConstantTypes DEF Arrive
  <2> QED
    BY <1>1, <2>1 DEF Arrive, Typed, TypeOK, jobVars, restVars
<1>2. CASE ReceivedMessage
  <2>1. arrived + 1 \in Envelopes /\ arrived' \in 0..MaxEnvelopes
    BY <1>2, ConstantTypes DEF ReceivedMessage
  <2> QED
    BY <1>0, <1>2, <2>1, JobTypes, TypedAdd DEF ReceivedMessage, restVars
<1>3. CASE ReceivedNotification
  <2>1. used' \in Usage
    BY <1>0, <1>3, UsageTypes DEF ReceivedNotification
  <2> QED
    BY <1>0, <1>3, <2>1, JobTypes, TypedAdd DEF ReceivedNotification, dataVars, Typed, TypeOK
<1>4. ASSUME NotifyAll PROVE thread' \in [Threads -> SoundThread]
  BY <1>0, <1>4 DEF NotifyAll, SoundThread, Thread, Carrying
<1>5. CASE IncrementActive \/ DecrementActive \/ RegainNetwork
  <2>1. used' \in Usage
    BY <1>0, <1>5, UsageTypes DEF IncrementActive, DecrementActive, RegainNetwork
  <2>2. active' \in 0..1 /\ network' \in BOOLEAN
    <3>1. CASE IncrementActive
      BY <3>1 DEF IncrementActive, Typed, TypeOK
    <3>2. CASE DecrementActive
      BY <1>0, <3>2 DEF DecrementActive, Typed, TypeOK
    <3>3. CASE RegainNetwork
      BY <1>0, <3>3 DEF RegainNetwork
    <3> QED
      BY <1>5, <3>1, <3>2, <3>3
  <2>3. thread' \in [Threads -> SoundThread] /\ thread' \in [Threads -> Thread]
    BY <1>4, <1>5 DEF IncrementActive, DecrementActive, RegainNetwork, SoundThread
  <2>4. UNCHANGED <<dataVars, jobVars, log>>
    BY <1>5 DEF IncrementActive, DecrementActive, RegainNetwork
  <2> QED
    BY <2>1, <2>2, <2>3, <2>4 DEF Typed, TypeOK, dataVars, jobVars
<1>6. CASE LoseNetwork
  <2>1. used' \in Usage
    BY <1>0, <1>6 DEF LoseNetwork, Usage
  <2> QED
    BY <1>6, <2>1 DEF LoseNetwork, Typed, TypeOK, dataVars, jobVars
<1>7. CASE StoreJob
  <2> DEFINE j == [Head(adding) EXCEPT !.id = lastId + 1]
  <2>1. Head(adding) \in SoundJob /\ Tail(adding) \in Seq(SoundJob) /\ lastId + 1 \in Nat
    BY <1>0, <1>7 DEF StoreJob, Typed, TypeOK
  <2>2. j \in SoundJob
    BY <2>1, JobTypes
  <2> HIDE DEF j
  <2>3. /\ stored' = (IF j.persistent THEN Append(stored, j) ELSE stored)
        /\ queue' = Append(queue, j)
    BY <1>7 DEF StoreJob, j
  <2>4. stored' \in Seq(SoundJob) /\ queue' \in Seq(SoundJob) /\ adding' \in Seq(SoundJob)
    BY <1>0, <1>7, <2>1, <2>2, <2>3 DEF StoreJob
  <2>5. stored' \in Seq(Job) /\ queue' \in Seq(Job) /\ adding' \in Seq(Job)
    BY <2>4 DEF SoundJob
  <2> QED
    BY <1>7, <2>1, <2>4, <2>5 DEF StoreJob, Typed, TypeOK, dataVars, restVars
<1>8. CASE ServiceStep
  <2>1. thread' \in [Threads -> SoundThread]
    <3>1. CASE CheckConnection
      <4>1. PICK pc \in {"read", "wait"} : Goto(Service, pc)
        BY <3>1 DEF CheckConnection
      <4> QED
        BY <1>0, <4>1, GotoType DEF Pcs, Carrying
    <3>2. CASE Read
      <4>1. Min(server) \in Envelopes
        BY <3>2, OldestFound DEF Read, Typed, TypeOK
      <4> QED
        BY <1>0, <3>2, <4>1, ConstantTypes DEF Read, SoundThread, SoundJob, Thread
    <3>3. CASE ReadEnds
      BY <1>0, <3>3, GotoType DEF ReadEnds, Pcs, Carrying
    <3> QED
      BY <1>8, <3>1, <3>2, <3>3 DEF ServiceStep
  <2>2. UNCHANGED <<dataVars, jobVars, restVars>>
    BY <1>8 DEF ServiceStep, CheckConnection, Read, ReadEnds
  <2> QED
    BY <1>0, <2>1, <2>2, TypedMove DEF dataVars, jobVars, restVars
<1>9. ASSUME NEW c \in Consumers, TakeJob(c) PROVE Typed'
  <2>1. PICK i \in DOMAIN queue :
          /\ thread' = [thread EXCEPT ![c] = [Rest EXCEPT !.pc = "run", !.job = queue[i]]]
          /\ queue' = RemoveAt(queue, i)
    BY <1>9 DEF TakeJob
  <2>2. queue[i] \in SoundJob /\ queue' \in Seq(SoundJob)
    BY <1>0, <2>1, RemoveAtFacts
  <2>3. thread' \in [Threads -> SoundThread]
    BY <1>0, <2>1, <2>2, ThreadTypes DEF Threads
  <2> QED
    BY <1>0, <1>9, <2>2, <2>3, TypedMove DEF TakeJob, dataVars, restVars
<1>10. CASE Crash
  <2>1. thread' \in [Threads -> SoundThread] /\ thread' \in [Threads -> Thread]
    BY <1>10, ThreadTypes DEF Crash, SoundThread
  <2>2. \A j \in InAdding("content") : j.e \in Envelopes
    BY <1>0 DEF InAdding, ToSet, SoundJob
  <2>3. \A i \in {j.row : j \in InAdding("decrypt")} \cap DOMAIN push : push[i] \in Envelopes
    BY DEF Typed
  <2> DEFINE a == {j.e : j \in InAdding("content")}
             b == {push[i] : i \in {j.row : j \in InAdding("decrypt")} \cap DOMAIN push}
  <2>a. a \in SUBSET Envelopes /\ b \in SUBSET Envelopes
    BY <2>2, <2>3
  <2>b. log' = [log EXCEPT !.lost = @ \cup a, !.orphans = @ \cup b]
    BY <1>10 DEF Crash
  <2> HIDE DEF a, b
  <2>4. log' \in Logs
    BY <1>0, <2>a, <2>b DEF Logs
  <2>5. used' \in Usage
    BY <1>0, <1>10 DEF Crash, Usage
  <2>6. adding' \in Seq(SoundJob) /\ adding' \in Seq(Job) /\ queue' \in Seq(SoundJob) /\ queue' \in Seq(Job)
    BY <1>0, <1>10 DEF Crash, Typed, TypeOK
  <2> QED
    BY <1>10, <2>1, <2>4, <2>5, <2>6 DEF Crash, Typed, TypeOK, dataVars
<1> QED
  BY <1>1, <1>2, <1>3, <1>5, <1>6, <1>7, <1>8, <1>9, <1>10

LEMMA TypedNext == Typed /\ [Next]_vars => Typed'
<1> SUFFICES ASSUME Typed, [Next]_vars PROVE Typed'
  OBVIOUS
<1>1. CASE UNCHANGED vars
  BY <1>1 DEF vars, Typed, TypeOK
<1>2. CASE Next
  BY <1>2, TypedHandle, TypedJob, TypedOther DEF Next
<1> QED
  BY <1>1, <1>2

(* Whatever the server sends and wherever the process dies, the tables,    *)
(* the jobs and the threads hold only what their types allow.              *)
THEOREM ReceiveTypeCorrect == Spec => []TypeOK
<1>1. Typed => TypeOK
  BY DEF Typed
<1> QED
  BY <1>1, TypedInit, TypedNext, PTL DEF Spec

-----------------------------------------------------------------------------
(* The jobs keep apart and in turn *)

AtService == {"check", "wait", "read", "find", "insert", "add", "ack"}

LEMMA FormedStays ==
  ASSUME Typed, arrived' \in Nat, arrived' >= arrived, NEW j, Formed(j)
  PROVE  /\ j.kind \in {"decrypt", "fetch", "content", "receipt"}
         /\ j.persistent <=> j.kind # "fetch"
         /\ j.group = "decrypt" <=> j.kind = "decrypt"
         /\ j.kind \in {"content", "receipt"} => j.group = "none"
         /\ j.kind \in {"decrypt", "content"} => j.iter = 0
         /\ j.kind # "fetch" => j.e \in 1..arrived'
         /\ j.kind = "content" => j.e \in Direct
  BY DEF Formed, Typed, TypeOK

LEMMA PlacesBusy ==
  /\ "idle" \notin UNION {Places(kind) : kind \in {"decrypt", "fetch", "content", "receipt"}}
  /\ \A kind \in {"decrypt", "fetch", "content", "receipt"} : {"run", "done"} \subseteq Places(kind)
  BY DEF Places

(* Steps that leave the JobManager alone but for what is given to add, and *)
(* that keep every thread at the same job.                                 *)
LEMMA JobsMove ==
  ASSUME Typed, Jobs, UNCHANGED <<stored, queue, lastId>>,
         arrived' \in Nat, arrived' >= arrived,
         \A n \in DOMAIN adding' : (Formed(adding[n]))' /\ adding'[n].id = 0,
         \A t \in Threads : thread'[t].job = thread[t].job,
         \A c \in Consumers :
           \/ thread'[c].pc = thread[c].pc
           \/ c \in Busy /\ thread'[c].pc \in Places(thread[c].job.kind),
         thread'[Service].pc \in AtService
  PROVE  Jobs'
<1>1. \A c \in Consumers : c \in Threads
  BY DEF Threads
<1>2. \A c \in Busy : thread[c].job.kind \in {"decrypt", "fetch", "content", "receipt"}
  BY DEF Jobs, JobsFormed, Formed
<1>3. Busy' = Busy /\ Decrypting' = Decrypting
  BY <1>1, <1>2, PlacesBusy DEF Busy, Decrypting
<1>4. JobsFormed'
  <2>1. \A n \in DOMAIN stored : (Formed(stored[n]))'
    BY FormedStays DEF Jobs, JobsFormed, Formed
  <2>2. \A n \in DOMAIN queue : (Formed(queue[n]))'
    BY FormedStays DEF Jobs, JobsFormed, Formed
  <2>3. \A c \in Busy : (Formed(thread[c].job))'
    BY <1>1, FormedStays DEF Jobs, JobsFormed, Formed, Busy
  <2> QED
    BY <1>1, <1>3, <2>1, <2>2, <2>3 DEF Jobs, JobsFormed, Busy
<1>5. InPlace'
  BY <1>1, <1>3 DEF Jobs, InPlace, AtService, Threads, Busy
<1>6. JobsApart' /\ JobsKept' /\ DecryptsInTurn'
  BY <1>1, <1>3 DEF Jobs, JobsApart, JobsKept, DecryptsInTurn, Busy, Decrypting
<1> QED
  BY <1>4, <1>5, <1>6 DEF Jobs

(* An envelope is put back with its job, or the job is started again or    *)
(* given up.                                                               *)
LEMMA JobsRetry ==
  ASSUME Typed, Jobs, NEW c \in Busy, thread[c].job.kind \in {"fetch", "receipt"},
         UNCHANGED <<arrived, adding, stored, lastId>>, RetryLater(c)
  PROVE  Jobs'
<1> DEFINE j == [thread[c].job EXCEPT !.iter = @ + 1]
<1>0. /\ c \in Consumers /\ c \in Threads /\ Service \in Threads /\ c # Service
      /\ \A d \in Consumers : d \in Threads
      /\ thread \in [Threads -> SoundThread] /\ queue \in Seq(SoundJob) /\ thread[c].job \in SoundJob
  BY ConsumersAssumption DEF Busy, Threads, Typed, SoundThread
<1>1. /\ j.id = thread[c].job.id /\ j.kind = thread[c].job.kind /\ j.row = thread[c].job.row
      /\ j.e = thread[c].job.e /\ j.persistent = thread[c].job.persistent
      /\ j.group = thread[c].job.group /\ j \in SoundJob
  BY <1>0, JobTypes DEF SoundJob, Job
<1>2. Formed(j) /\ j.id \in 1..lastId
  BY <1>0, <1>1 DEF Jobs, JobsFormed, Formed
<1>3. c \notin Decrypting /\ j.kind \in {"fetch", "receipt"}
  BY <1>1 DEF Decrypting
<1> HIDE DEF j
<1>4. CASE queue' = <<j>> \o queue /\ thread' = [thread EXCEPT ![c] = Rest]
  <2>1. thread'[c] = Rest /\ \A t \in Threads : t # c => thread'[t] = thread[t]
    BY <1>0, <1>4
  <2>2. Busy' = Busy \ {c} /\ Decrypting' = Decrypting
    BY <1>0, <1>3, <2>1 DEF Busy, Decrypting, Rest
  <2>3. /\ DOMAIN queue' = 1..(Len(queue) + 1) /\ queue'[1] = j
        /\ \A k \in DOMAIN queue' : k # 1 => k - 1 \in DOMAIN queue /\ queue'[k] = queue[k - 1]
    <3>1. <<j>> \in Seq(SoundJob) /\ Len(<<j>>) = 1 /\ <<j>>[1] = j
      BY <1>1
    <3>2. /\ queue' \in Seq(SoundJob) /\ Len(queue') = 1 + Len(queue)
          /\ \A k \in 1..(1 + Len(queue)) :
               queue'[k] = IF k <= 1 THEN <<j>>[k] ELSE queue[k - 1]
      BY <1>0, <1>4, <3>1, ConcatProperties
    <3>3. \A k \in 1..(1 + Len(queue)) : k # 1 => k - 1 \in DOMAIN queue /\ ~ (k <= 1)
      BY <1>0
    <3> QED
      BY <1>0, <3>1, <3>2, <3>3
  <2>4. \A k \in DOMAIN queue : k + 1 \in DOMAIN queue' /\ queue'[k + 1] = queue[k]
    BY <1>0, <2>3
  <2>5. JobsFormed'
    BY <1>0, <1>2, <2>1, <2>2, <2>3 DEF Jobs, JobsFormed, Formed, Busy
  <2>6. InPlace'
    BY <1>0, <2>1, <2>2 DEF Jobs, InPlace, Busy
  <2>7. JobsApart'
    <3>1. \A k \in DOMAIN queue : queue[k].id # j.id
      BY <1>1 DEF Jobs, JobsApart
    <3>2. \A d \in Busy' : thread'[d].job.id # j.id /\ thread'[d] = thread[d] /\ d \in Busy
      BY <1>0, <1>1, <2>1, <2>2 DEF Jobs, JobsApart, Busy
    <3>3. \A i, k \in DOMAIN queue' : queue'[i].id = queue'[k].id => i = k
      <4> SUFFICES ASSUME NEW i \in DOMAIN queue', NEW k \in DOMAIN queue',
                          queue'[i].id = queue'[k].id
                   PROVE  i = k
        OBVIOUS
      <4>1. i = 1 <=> k = 1
        BY <2>3, <3>1
      <4>2. CASE i # 1
        BY <1>0, <2>3, <4>1, <4>2 DEF Jobs, JobsApart
      <4> QED
        BY <4>1, <4>2
    <3>4. \A i \in DOMAIN queue', d \in Busy' : queue'[i].id # thread'[d].job.id
      BY <2>3, <3>2 DEF Jobs, JobsApart
    <3> QED
      BY <3>2, <3>3, <3>4 DEF Jobs, JobsApart
  <2>8. JobsKept'
    <3>1. \A n \in DOMAIN queue' : queue'[n].persistent => \E m \in DOMAIN stored : Same(stored[m], queue'[n])
      <4> SUFFICES ASSUME NEW n \in DOMAIN queue', queue'[n].persistent
                   PROVE  \E m \in DOMAIN stored : Same(stored[m], queue'[n])
        OBVIOUS
      <4>1. CASE n = 1
        BY <1>1, <2>3, <4>1 DEF Jobs, JobsKept, Same
      <4>2. CASE n # 1
        BY <2>3, <4>2 DEF Jobs, JobsKept
      <4> QED
        BY <4>1, <4>2
    <3>2. \A d \in Busy' : thread'[d].job.persistent => \E m \in DOMAIN stored : Same(stored[m], thread'[d].job)
      BY <1>0, <2>1, <2>2 DEF Jobs, JobsKept, Busy
    <3>3. ASSUME NEW m \in DOMAIN stored
          PROVE  \/ \E n \in DOMAIN queue' : Same(stored[m], queue'[n])
                 \/ \E d \in Busy' : Same(stored[m], thread'[d].job)
      <4>1. CASE \E n \in DOMAIN queue : Same(stored[m], queue[n])
        BY <2>4, <4>1
      <4>2. CASE Same(stored[m], thread[c].job)
        <5>1. 1 \in DOMAIN queue' /\ Same(stored[m], queue'[1])
          BY <1>0, <1>1, <2>3, <4>2 DEF Same
        <5> QED
          BY <5>1
      <4>3. ASSUME NEW d \in Busy, d # c, Same(stored[m], thread[d].job)
            PROVE  d \in Busy' /\ Same(stored[m], thread'[d].job)
        BY <1>0, <2>1, <2>2, <4>3 DEF Busy
      <4> QED
        BY <4>1, <4>2, <4>3 DEF Jobs, JobsKept
    <3> QED
      BY <3>1, <3>2, <3>3 DEF JobsKept, Same
  <2>9. DecryptsInTurn'
    <3>1. \A d \in Decrypting : thread'[d] = thread[d]
      BY <1>0, <1>3, <2>1 DEF Decrypting, Busy
    <3>2. \A k \in DOMAIN queue' : queue'[k].kind = "decrypt" => k # 1
      BY <1>3, <2>3
    <3>3. \A k \in DOMAIN queue' : k \in Int
      BY <2>3
    <3> QED
      BY <2>2, <2>3, <3>1, <3>2, <3>3 DEF Jobs, DecryptsInTurn
  <2> QED
    BY <2>5, <2>6, <2>7, <2>8, <2>9 DEF Jobs
<1>5. CASE /\ thread' = [thread EXCEPT ![c] = [Rest EXCEPT
                           !.job = j, !.pc = IF j.iter < Retries(j) THEN "run" ELSE "done"]]
           /\ UNCHANGED queue
  <2>1. /\ thread'[c].job = j /\ thread'[c].pc \in {"run", "done"}
        /\ \A t \in Threads : t # c => thread'[t] = thread[t]
    BY <1>0, <1>5 DEF Rest
  <2>2. Busy' = Busy /\ Decrypting' = Decrypting
    BY <1>0, <1>1, <2>1 DEF Busy, Decrypting
  <2>3. JobsFormed'
    BY <1>0, <1>2, <1>5, <2>1, <2>2 DEF Jobs, JobsFormed, Formed, Busy
  <2>4. InPlace'
    BY <1>0, <1>1, <1>3, <2>1, <2>2, PlacesBusy DEF Jobs, InPlace, Busy
  <2>5. JobsApart'
    BY <1>0, <1>1, <1>5, <2>1, <2>2 DEF Jobs, JobsApart, Busy
  <2>6. JobsKept'
    BY <1>0, <1>1, <1>5, <2>1, <2>2 DEF Jobs, JobsKept, Busy, Same
  <2>7. DecryptsInTurn'
    BY <1>0, <1>1, <1>3, <1>5, <2>1, <2>2 DEF Jobs, DecryptsInTurn, Decrypting, Busy
  <2> QED
    BY <2>3, <2>4, <2>5, <2>6, <2>7 DEF Jobs
<1> QED
  BY <1>4, <1>5 DEF RetryLater, j

(* What is left of the storage when a job is forgotten.                    *)
LEMMA FinishStored ==
  ASSUME Typed, Jobs, NEW c \in Consumers, FinishJob(c)
  PROVE  /\ \A n \in DOMAIN stored' : \E m \in DOMAIN stored :
              stored'[n] = stored[m] /\ stored[m].id # thread[c].job.id
         /\ \A m \in DOMAIN stored : stored[m].id # thread[c].job.id =>
              \E n \in DOMAIN stored' : stored'[n] = stored[m]
         /\ \A i, k \in DOMAIN stored' : i < k => stored'[i].id < stored'[k].id
<1>0. stored \in Seq(SoundJob) /\ \A i, k \in DOMAIN stored : i < k => stored[i].id < stored[k].id
  BY DEF Typed, Jobs, JobsApart
<1>1. CASE /\ \A i \in DOMAIN stored : stored[i].id # thread[c].job.id
           /\ UNCHANGED stored
  BY <1>0, <1>1
<1>2. ASSUME NEW i \in DOMAIN stored, stored[i].id = thread[c].job.id, stored' = RemoveAt(stored, i)
      PROVE  /\ \A n \in DOMAIN stored' : \E m \in DOMAIN stored :
                  stored'[n] = stored[m] /\ stored[m].id # thread[c].job.id
             /\ \A m \in DOMAIN stored : stored[m].id # thread[c].job.id =>
                  \E n \in DOMAIN stored' : stored'[n] = stored[m]
             /\ \A a, b \in DOMAIN stored' : a < b => stored'[a].id < stored'[b].id
  <2>1. /\ DOMAIN stored' = 1..(Len(stored) - 1) /\ DOMAIN stored = 1..Len(stored)
        /\ \A k \in DOMAIN stored' : /\ k < i => stored'[k] = stored[k]
                                     /\ k >= i => stored'[k] = stored[k + 1]
    BY <1>0, <1>2, RemoveAtFacts
  <2>2. \A m \in DOMAIN stored : m # i => stored[m].id # stored[i].id
    <3>1. \A m \in DOMAIN stored : stored[m].id \in Nat
      BY <1>0 DEF SoundJob, Job
    <3>2. \A m \in DOMAIN stored : m # i => m < i \/ i < m
      BY <2>1
    <3> QED
      BY <1>0, <3>1, <3>2
  <2>3. \A n \in DOMAIN stored' : \E m \in DOMAIN stored : stored'[n] = stored[m] /\ m # i
    <3> SUFFICES ASSUME NEW n \in DOMAIN stored'
                 PROVE  \E m \in DOMAIN stored : stored'[n] = stored[m] /\ m # i
      OBVIOUS
    <3>1. CASE n < i
      BY <2>1, <3>1
    <3>2. CASE n >= i
      BY <2>1, <3>2
    <3> QED
      BY <2>1, <3>1, <3>2
  <2>4. ASSUME NEW m \in DOMAIN stored, m # i
        PROVE  \E n \in DOMAIN stored' : stored'[n] = stored[m]
    <3>1. CASE m < i
      <4>1. m \in DOMAIN stored'
        BY <2>1, <3>1
      <4> QED
        BY <2>1, <3>1, <4>1
    <3>2. CASE m > i
      <4>1. m - 1 \in DOMAIN stored' /\ m - 1 >= i /\ m - 1 + 1 = m
        BY <2>1, <3>2
      <4> QED
        BY <2>1, <4>1
    <3> QED
      BY <2>1, <2>4, <3>1, <3>2
  <2>5. ASSUME NEW a \in DOMAIN stored', NEW b \in DOMAIN stored', a < b
        PROVE  stored'[a].id < stored'[b].id
    <3>1. a \in Int /\ b \in Int /\ i \in Int /\ b \in DOMAIN stored /\ a \in DOMAIN stored
          /\ a + 1 \in DOMAIN stored /\ b + 1 \in DOMAIN stored
      BY <2>1
    <3>2. CASE b < i
      BY <1>0, <2>1, <2>5, <3>1, <3>2
    <3>3. CASE a < i /\ b >= i
      BY <1>0, <2>1, <2>5, <3>1, <3>3
    <3>4. CASE a >= i
      BY <1>0, <2>1, <2>5, <3>1, <3>4
    <3> QED
      BY <2>5, <3>1, <3>2, <3>3, <3>4
  <2> QED
    BY <1>2, <2>2, <2>3, <2>4, <2>5
<1> QED
  BY <1>1, <1>2 DEF FinishJob

LEMMA JobsFinish ==
  ASSUME Typed, Jobs, NEW c \in Consumers, FinishJob(c)
  PROVE  Jobs'
<1> DEFINE j == thread[c].job
<1>0. /\ c \in Threads /\ c \in Busy /\ Service # c
      /\ \A d \in Consumers : d \in Threads
      /\ thread \in [Threads -> SoundThread]
      /\ UNCHANGED <<arrived, adding, queue, lastId>>
      /\ thread' = [thread EXCEPT ![c] = Rest]
  BY ConsumersAssumption DEF FinishJob, Busy, Threads, Typed, dataVars
<1>1. thread'[c] = Rest /\ \A t \in Threads : t # c => thread'[t] = thread[t]
  BY <1>0
<1>2. Busy' = Busy \ {c} /\ Decrypting' = Decrypting \ {c}
  BY <1>0, <1>1 DEF Busy, Decrypting, Rest
<1>3. /\ \A n \in DOMAIN stored' : \E m \in DOMAIN stored :
            stored'[n] = stored[m] /\ stored[m].id # j.id
      /\ \A m \in DOMAIN stored : stored[m].id # j.id =>
            \E n \in DOMAIN stored' : stored'[n] = stored[m]
      /\ \A i, k \in DOMAIN stored' : i < k => stored'[i].id < stored'[k].id
  BY FinishStored
<1>4. JobsFormed'
  BY <1>0, <1>1, <1>2, <1>3 DEF Jobs, JobsFormed, Formed, Busy
<1>5. InPlace'
  BY <1>0, <1>1, <1>2 DEF Jobs, InPlace, Busy, Threads
<1>6. JobsApart'
  BY <1>0, <1>1, <1>2, <1>3 DEF Jobs, JobsApart, Busy
<1>7. JobsKept'
  <2>1. ASSUME NEW n \in DOMAIN queue, queue[n].persistent
        PROVE  \E m \in DOMAIN stored' : Same(stored'[m], queue[n])
    <3>1. queue[n].id # j.id
      BY <1>0 DEF Jobs, JobsApart
    <3> QED
      BY <1>3, <2>1, <3>1 DEF Jobs, JobsKept, Same
  <2>2. ASSUME NEW d \in Busy', thread'[d].job.persistent
        PROVE  \E m \in DOMAIN stored' : Same(stored'[m], thread'[d].job)
    <3>1. d \in Busy /\ thread'[d] = thread[d] /\ thread[d].job.id # j.id
      BY <1>0, <1>1, <1>2 DEF Jobs, JobsApart, Busy
    <3> QED
      BY <1>3, <2>2, <3>1 DEF Jobs, JobsKept, Same
  <2>3. ASSUME NEW n \in DOMAIN stored'
        PROVE  \/ \E k \in DOMAIN queue : Same(stored'[n], queue[k])
               \/ \E d \in Busy' : Same(stored'[n], thread'[d].job)
    <3>1. PICK m \in DOMAIN stored : stored'[n] = stored[m] /\ stored[m].id # j.id
      BY <1>3
    <3>2. CASE \E k \in DOMAIN queue : Same(stored[m], queue[k])
      BY <3>1, <3>2
    <3>3. ASSUME NEW d \in Busy, Same(stored[m], thread[d].job)
          PROVE  d \in Busy' /\ Same(stored'[n], thread'[d].job)
      BY <1>0, <1>1, <1>2, <3>1, <3>3 DEF Same, Busy
    <3> QED
      BY <2>3, <3>1, <3>2, <3>3 DEF Jobs, JobsKept
  <2> QED
    BY <1>0, <2>1, <2>2, <2>3 DEF JobsKept, Same
<1>8. DecryptsInTurn'
  BY <1>0, <1>1, <1>2 DEF Jobs, DecryptsInTurn, Decrypting, Busy
<1> QED
  BY <1>4, <1>5, <1>6, <1>7, <1>8 DEF Jobs

LEMMA JobsStore ==
  ASSUME Typed, Jobs, StoreJob
  PROVE  Jobs'
<1> DEFINE j == [Head(adding) EXCEPT !.id = lastId + 1]
<1>0. /\ adding \in Seq(SoundJob) /\ adding # <<>> /\ stored \in Seq(SoundJob)
      /\ queue \in Seq(SoundJob) /\ lastId \in Nat /\ lastId' = lastId + 1
      /\ UNCHANGED <<arrived, thread>>
  BY DEF StoreJob, Typed, TypeOK, dataVars
<1>1. /\ stored' = (IF j.persistent THEN Append(stored, j) ELSE stored)
      /\ queue' = Append(queue, j) /\ adding' = Tail(adding)
  BY DEF StoreJob
<1>2. 1 \in DOMAIN adding /\ Head(adding) = adding[1] /\ Head(adding) \in SoundJob
  BY <1>0
<1>3. Formed(j) /\ j.id = lastId + 1 /\ j \in SoundJob
  <2>1. Formed(adding[1]) /\ adding[1] \in SoundJob /\ lastId + 1 \in Nat
    BY <1>0, <1>2 DEF Jobs, JobsFormed
  <2>2. j \in SoundJob
    BY <1>2, <2>1, JobTypes
  <2>3. /\ j.id = lastId + 1 /\ j.kind = adding[1].kind /\ j.e = adding[1].e
        /\ j.persistent = adding[1].persistent /\ j.group = adding[1].group
        /\ j.iter = adding[1].iter
    BY <1>2, <2>1 DEF SoundJob, Job
  <2> HIDE DEF j
  <2> QED
    BY <2>1, <2>2, <2>3 DEF Formed
<1> HIDE DEF j
<1>4. /\ DOMAIN queue' = 1..(Len(queue) + 1) /\ queue'[Len(queue) + 1] = j
      /\ DOMAIN queue = 1..Len(queue)
      /\ \A k \in DOMAIN queue : k \in DOMAIN queue' /\ queue'[k] = queue[k]
      /\ \A k \in DOMAIN queue' : k \in DOMAIN queue \/ k = Len(queue) + 1
      /\ Len(queue) + 1 \notin DOMAIN queue
  BY <1>0, <1>1, <1>3
<1>5. /\ \A k \in DOMAIN stored : k \in DOMAIN stored' /\ stored'[k] = stored[k]
      /\ \A k \in DOMAIN stored' :
           \/ k \in DOMAIN stored
           \/ j.persistent /\ stored'[k] = j /\ \A m \in DOMAIN stored : m < k
      /\ j.persistent => \E k \in DOMAIN stored' : stored'[k] = j
  BY <1>0, <1>1, <1>3
<1>6. Busy' = Busy /\ Decrypting' = Decrypting
  BY <1>0 DEF Busy, Decrypting
<1>7. JobsFormed'
  <2>1. \A n \in DOMAIN adding' : Formed(adding'[n]) /\ adding'[n].id = 0
    <3>1. \A n \in DOMAIN adding' : n + 1 \in DOMAIN adding /\ adding'[n] = adding[n + 1]
      BY <1>0, <1>1
    <3> QED
      BY <3>1 DEF Jobs, JobsFormed
  <2>2. \A n \in DOMAIN stored' : Formed(stored'[n]) /\ stored'[n].persistent /\ stored'[n].id \in 1..lastId'
    BY <1>0, <1>3, <1>5 DEF Jobs, JobsFormed
  <2>3. \A n \in DOMAIN queue' : Formed(queue'[n]) /\ queue'[n].id \in 1..lastId'
    BY <1>0, <1>3, <1>4 DEF Jobs, JobsFormed
  <2>4. \A c \in Busy' : Formed(thread'[c].job) /\ thread'[c].job.id \in 1..lastId'
    BY <1>0, <1>6 DEF Jobs, JobsFormed
  <2> QED
    BY <1>0, <2>1, <2>2, <2>3, <2>4 DEF JobsFormed, Formed
<1>8. InPlace'
  BY <1>0, <1>6 DEF Jobs, InPlace
<1>9. JobsApart'
  <2>1. \A n \in DOMAIN stored : stored[n].id < j.id /\ n \in Int
    BY <1>0, <1>3 DEF Jobs, JobsFormed
  <2>2. \A i, k \in DOMAIN stored' : i < k => stored'[i].id < stored'[k].id
    <3> SUFFICES ASSUME NEW i \in DOMAIN stored', NEW k \in DOMAIN stored', i < k
                 PROVE  stored'[i].id < stored'[k].id
      OBVIOUS
    <3>1. CASE k \in DOMAIN stored
      <4>1. i \in DOMAIN stored
        BY <1>0, <1>1, <3>1
      <4> QED
        BY <1>5, <3>1, <4>1 DEF Jobs, JobsApart
    <3>2. CASE k \notin DOMAIN stored
      <4>1. i \in DOMAIN stored
        BY <1>0, <1>1, <1>3, <3>2
      <4> QED
        BY <1>5, <2>1, <3>2, <4>1
    <3> QED
      BY <3>1, <3>2
  <2>3. \A n \in DOMAIN queue : queue[n].id < j.id /\ queue[n].id # j.id
    BY <1>0, <1>3 DEF Jobs, JobsFormed
  <2>4. \A c \in Busy : thread[c].job.id < j.id /\ thread[c].job.id # j.id
    BY <1>0, <1>3 DEF Jobs, JobsFormed
  <2>5. \A i, k \in DOMAIN queue' : queue'[i].id = queue'[k].id => i = k
    BY <1>4, <2>3 DEF Jobs, JobsApart
  <2>6. \A i \in DOMAIN queue', c \in Busy : queue'[i].id # thread[c].job.id
    BY <1>4, <2>4 DEF Jobs, JobsApart
  <2> QED
    BY <1>0, <1>6, <2>2, <2>5, <2>6 DEF Jobs, JobsApart
<1>10. JobsKept'
  <2>1. \A n \in DOMAIN queue' : queue'[n].persistent => \E m \in DOMAIN stored' : Same(stored'[m], queue'[n])
    BY <1>4, <1>5 DEF Jobs, JobsKept, Same
  <2>2. \A c \in Busy : thread[c].job.persistent => \E m \in DOMAIN stored' : Same(stored'[m], thread[c].job)
    BY <1>5 DEF Jobs, JobsKept, Same
  <2>3. \A m \in DOMAIN stored' :
          \/ \E n \in DOMAIN queue' : Same(stored'[m], queue'[n])
          \/ \E c \in Busy : Same(stored'[m], thread[c].job)
    <3> SUFFICES ASSUME NEW m \in DOMAIN stored'
                 PROVE  \/ \E n \in DOMAIN queue' : Same(stored'[m], queue'[n])
                        \/ \E c \in Busy : Same(stored'[m], thread[c].job)
      OBVIOUS
    <3>1. CASE m \in DOMAIN stored
      BY <1>4, <1>5, <3>1 DEF Jobs, JobsKept
    <3>2. CASE stored'[m] = j
      <4>1. Len(queue) + 1 \in DOMAIN queue'
        BY <1>0, <1>4
      <4> QED
        BY <1>4, <3>2, <4>1 DEF Same
    <3> QED
      BY <1>5, <3>1, <3>2
  <2> QED
    BY <1>0, <1>6, <2>1, <2>2, <2>3 DEF JobsKept, Same
<1>11. DecryptsInTurn'
  <2>1. \A n \in DOMAIN queue : queue[n].id < j.id
    BY <1>0, <1>3 DEF Jobs, JobsFormed
  <2>2. \A c \in Busy : thread[c].job.id < j.id
    BY <1>0, <1>3 DEF Jobs, JobsFormed
  <2>3. \A i, k \in DOMAIN queue' :
          queue'[i].kind = "decrypt" /\ queue'[k].kind = "decrypt" /\ i < k => queue'[i].id < queue'[k].id
    <3> SUFFICES ASSUME NEW i \in DOMAIN queue', NEW k \in DOMAIN queue', i < k,
                        queue'[i].kind = "decrypt", queue'[k].kind = "decrypt"
                 PROVE  queue'[i].id < queue'[k].id
      OBVIOUS
    <3>1. i \in DOMAIN queue
      BY <1>0, <1>4
    <3>2. CASE k \in DOMAIN queue
      BY <1>4, <3>1, <3>2 DEF Jobs, DecryptsInTurn
    <3>3. CASE k = Len(queue) + 1
      BY <1>4, <2>1, <3>1, <3>3
    <3> QED
      BY <1>4, <3>2, <3>3
  <2>4. \A c \in Decrypting, k \in DOMAIN queue' : queue'[k].kind = "decrypt" => thread[c].job.id < queue'[k].id
    BY <1>4, <2>2 DEF Jobs, DecryptsInTurn, Decrypting
  <2> QED
    BY <1>0, <1>6, <2>3, <2>4 DEF Jobs, DecryptsInTurn
<1> QED
  BY <1>7, <1>8, <1>9, <1>10, <1>11 DEF Jobs

LEMMA JobsTake ==
  ASSUME Typed, Jobs, NEW c \in Consumers, TakeJob(c)
  PROVE  Jobs'
<1>0. /\ c \in Threads /\ c \notin Busy /\ Service # c
      /\ \A d \in Consumers : d \in Threads
      /\ thread \in [Threads -> SoundThread] /\ queue \in Seq(SoundJob)
      /\ UNCHANGED <<arrived, adding, stored, lastId>>
  BY ConsumersAssumption DEF TakeJob, Busy, Threads, Typed, dataVars
<1>1. PICK i \in DOMAIN queue :
        /\ Eligible(i)
        /\ \A k \in 1..(i - 1) : ~Eligible(k)
        /\ thread' = [thread EXCEPT ![c] = [Rest EXCEPT !.pc = "run", !.job = queue[i]]]
        /\ queue' = RemoveAt(queue, i)
  BY DEF TakeJob
<1> DEFINE j == queue[i]
<1>2. /\ thread'[c].job = j /\ thread'[c].pc = "run"
      /\ \A t \in Threads : t # c => thread'[t] = thread[t]
  BY <1>0, <1>1 DEF Rest
<1>3. /\ DOMAIN queue = 1..Len(queue) /\ DOMAIN queue' = 1..(Len(queue) - 1)
      /\ \A k \in DOMAIN queue' : /\ k < i => queue'[k] = queue[k]
                                  /\ k >= i => queue'[k] = queue[k + 1]
  BY <1>0, <1>1, RemoveAtFacts
<1> DEFINE old(k) == IF k < i THEN k ELSE k + 1
<1>4. \A k \in DOMAIN queue' : old(k) \in DOMAIN queue /\ old(k) # i /\ queue'[k] = queue[old(k)]
  BY <1>3
<1>5. \A k, n \in DOMAIN queue' : (k < n => old(k) < old(n)) /\ (old(k) = old(n) => k = n)
  BY <1>3
<1>6. \A k \in DOMAIN queue : k # i => \E n \in DOMAIN queue' : queue'[n] = queue[k]
  <2> SUFFICES ASSUME NEW k \in DOMAIN queue, k # i
               PROVE  \E n \in DOMAIN queue' : queue'[n] = queue[k]
    OBVIOUS
  <2>1. CASE k < i
    <3>1. k \in DOMAIN queue'
      BY <1>3, <2>1
    <3> QED
      BY <1>3, <2>1, <3>1
  <2>2. CASE k > i
    <3>1. k - 1 \in DOMAIN queue' /\ k - 1 >= i /\ k - 1 + 1 = k
      BY <1>3, <2>2
    <3> QED
      BY <1>3, <3>1
  <2> QED
    BY <1>3, <2>1, <2>2
<1>7. Busy' = Busy \cup {c} /\ (j.kind # "decrypt" => Decrypting' = Decrypting)
      /\ Decrypting' \subseteq Decrypting \cup {c}
  BY <1>0, <1>2 DEF Busy, Decrypting
<1>8. Formed(j) /\ j.id \in 1..lastId
  BY DEF Jobs, JobsFormed
<1> HIDE DEF j, old
<1>9. JobsFormed'
  BY <1>0, <1>2, <1>4, <1>7, <1>8 DEF Jobs, JobsFormed, Formed, Busy
<1>10. InPlace'
  <2>1. thread'[c].pc \in Places(thread'[c].job.kind)
    <3>1. j.kind \in {"decrypt", "fetch", "content", "receipt"}
      BY <1>8 DEF Formed
    <3>2. "run" \in Places(j.kind)
      BY <3>1, PlacesBusy
    <3> QED
      BY <1>2, <3>2
  <2>2. \A d \in Busy : d \in Threads /\ d # c
    BY <1>0 DEF Busy
  <2>3. Service \in Threads /\ thread'[Service] = thread[Service]
    BY <1>0, <1>2 DEF Threads
  <2> QED
    BY <1>2, <1>7, <2>1, <2>2, <2>3 DEF Jobs, InPlace
<1>11. JobsApart'
  <2>1. \A d \in Busy : thread[d].job.id # j.id /\ d # c /\ thread'[d] = thread[d]
    BY <1>0, <1>2 DEF Jobs, JobsApart, j, Busy
  <2>2. \A k \in DOMAIN queue' : queue'[k].id # j.id
    BY <1>4 DEF Jobs, JobsApart, j
  <2>3. \A k, n \in DOMAIN queue' : queue'[k].id = queue'[n].id => k = n
    BY <1>4, <1>5 DEF Jobs, JobsApart
  <2>4. \A k \in DOMAIN queue', d \in Busy' : queue'[k].id # thread'[d].job.id
    BY <1>2, <1>4, <1>7, <2>1, <2>2 DEF Jobs, JobsApart
  <2>5. \A d, f \in Busy' : thread'[d].job.id = thread'[f].job.id => d = f
    BY <1>2, <1>7, <2>1 DEF Jobs, JobsApart
  <2> QED
    BY <1>0, <2>3, <2>4, <2>5 DEF Jobs, JobsApart
<1>12. JobsKept'
  <2>1. \A n \in DOMAIN queue' : queue'[n].persistent => \E m \in DOMAIN stored : Same(stored[m], queue'[n])
    BY <1>4 DEF Jobs, JobsKept
  <2>2. \A d \in Busy' : thread'[d].job.persistent => \E m \in DOMAIN stored : Same(stored[m], thread'[d].job)
    BY <1>0, <1>2, <1>7 DEF Jobs, JobsKept, j, Busy
  <2>3. ASSUME NEW m \in DOMAIN stored
        PROVE  \/ \E n \in DOMAIN queue' : Same(stored[m], queue'[n])
               \/ \E d \in Busy' : Same(stored[m], thread'[d].job)
    <3>1. ASSUME NEW k \in DOMAIN queue, Same(stored[m], queue[k])
          PROVE  \/ \E n \in DOMAIN queue' : Same(stored[m], queue'[n])
                 \/ \E d \in Busy' : Same(stored[m], thread'[d].job)
      <4>1. CASE k = i
        BY <1>2, <1>7, <3>1, <4>1 DEF j
      <4>2. CASE k # i
        BY <1>6, <3>1, <4>2
      <4> QED
        BY <4>1, <4>2
    <3>2. ASSUME NEW d \in Busy, Same(stored[m], thread[d].job)
          PROVE  d \in Busy' /\ Same(stored[m], thread'[d].job)
      BY <1>0, <1>2, <1>7, <3>2 DEF Busy
    <3> QED
      BY <2>3, <3>1, <3>2 DEF Jobs, JobsKept
  <2> QED
    BY <1>0, <2>1, <2>2, <2>3 DEF JobsKept, Same
<1>13. DecryptsInTurn'
  <2>1. \A k, n \in DOMAIN queue' :
          queue'[k].kind = "decrypt" /\ queue'[n].kind = "decrypt" /\ k < n => queue'[k].id < queue'[n].id
    BY <1>4, <1>5 DEF Jobs, DecryptsInTurn
  <2>2. CASE j.kind # "decrypt"
    BY <1>0, <1>2, <1>4, <1>7, <2>1, <2>2 DEF Jobs, DecryptsInTurn, Decrypting, Busy
  <2>3. CASE j.kind = "decrypt"
    <3>1. j.group = "decrypt" /\ GroupFree("decrypt")
      BY <1>1, <1>8, <2>3 DEF Eligible, Formed, j
    <3>2. Decrypting = {}
      <4>1. \A d \in Busy : thread[d].job \in Running
        BY DEF Running, Busy
      <4>2. \A d \in Decrypting : thread[d].job.group = "decrypt"
        BY DEF Decrypting, Jobs, JobsFormed, Formed
      <4> QED
        BY <3>1, <4>1, <4>2 DEF GroupFree, Decrypting
    <3>3. \A k \in DOMAIN queue : queue[k].kind = "decrypt" => Eligible(k)
      BY <3>1 DEF Eligible, Jobs, JobsFormed, Formed, NeedsNetwork
    <3>4. \A k \in DOMAIN queue : queue[k].kind = "decrypt" /\ k # i => queue[i].id < queue[k].id
      <4>1. \A k \in DOMAIN queue : k < i => k \in 1..(i - 1)
        BY <1>3
      <4>2. \A k \in DOMAIN queue : queue[k].kind = "decrypt" /\ k # i => i < k
        BY <1>1, <1>3, <3>3, <4>1
      <4> QED
        BY <2>3, <4>2 DEF Jobs, DecryptsInTurn, j
    <3>5. \A k \in DOMAIN queue' : queue'[k].kind = "decrypt" => j.id < queue'[k].id
      BY <1>4, <3>4 DEF j
    <3>6. Decrypting' \subseteq {c}
      BY <1>7, <3>2
    <3> QED
      BY <1>2, <2>1, <3>5, <3>6 DEF DecryptsInTurn
  <2> QED
    BY <2>2, <2>3
<1> QED
  BY <1>9, <1>10, <1>11, <1>12, <1>13 DEF Jobs

LEMMA JobsCrash ==
  ASSUME Typed, Jobs, Crash
  PROVE  Jobs'
<1>0. /\ Service \in Threads /\ Service \notin Consumers
      /\ adding' = <<>> /\ queue' = stored /\ UNCHANGED <<arrived, stored, lastId>>
      /\ thread' = [t \in Threads |-> IF t = Service THEN Start ELSE Rest]
  BY ConsumersAssumption DEF Crash, Threads, dataVars
<1>1. thread'[Service] = Start /\ \A c \in Consumers : thread'[c] = Rest
  BY <1>0 DEF Threads
<1>2. Busy' = {} /\ Decrypting' = {} /\ DOMAIN adding' = {}
  BY <1>0, <1>1 DEF Busy, Decrypting, Rest
<1>3. \A i \in DOMAIN stored : stored[i].id \in Nat /\ i \in Nat
  BY DEF Jobs, JobsFormed, Typed
<1>4. JobsFormed'
  BY <1>0, <1>2 DEF Jobs, JobsFormed, Formed
<1>5. InPlace'
  BY <1>0, <1>1, <1>2 DEF InPlace, Start, Rest
<1>6. JobsApart'
  <2>1. \A i, k \in DOMAIN stored : stored[i].id = stored[k].id => i = k
    <3>1. \A i, k \in DOMAIN stored : i = k \/ i < k \/ k < i
      BY <1>3
    <3> QED
      BY <1>3, <3>1 DEF Jobs, JobsApart
  <2> QED
    BY <1>0, <1>2, <2>1 DEF Jobs, JobsApart
<1>7. JobsKept'
  BY <1>0, <1>2 DEF JobsKept, Same
<1>8. DecryptsInTurn'
  BY <1>0, <1>2 DEF Jobs, JobsApart, DecryptsInTurn
<1> QED
  BY <1>4, <1>5, <1>6, <1>7, <1>8 DEF Jobs

LEMMA JobsInit == Init => Jobs
<1> SUFFICES ASSUME Init PROVE Jobs
  OBVIOUS
<1>1. Busy = {} /\ Decrypting = {} /\ thread[Service] = Start
  BY ConsumersAssumption DEF Init, Busy, Decrypting, Threads, Rest
<1>2. DOMAIN adding = {} /\ DOMAIN stored = {} /\ DOMAIN queue = {}
  BY DEF Init
<1>3. InPlace
  BY <1>1 DEF InPlace, Start, Rest
<1> QED
  BY <1>1, <1>2, <1>3 DEF Jobs, JobsFormed, JobsApart, JobsKept, DecryptsInTurn

(* Where a thread that handles an envelope can go.                         *)
LEMMA HandlerPlaces ==
  ASSUME Typed, Jobs, NEW t \in Threads, thread[t].pc \in {"find", "insert", "add", "receipt", "ack"}
  PROVE  /\ t # Service => t \in Busy /\ thread[t].job.kind \in {"fetch", "content"}
         /\ t = Service => thread[t].job = NoJob /\ thread[t].pc # "receipt"
         /\ thread[t].pc = "ack" => thread[t].job.kind # "content"
         /\ thread[t].pc = "receipt" => thread[t].job.kind = "content"
         /\ thread[t].job.kind = "content" <=> Handled(t) = "receipt"
         /\ thread[t].job.kind # "content" <=> Handled(t) = "ack"
<1>1. CASE t = Service
  BY <1>1 DEF Jobs, InPlace, Handled, NoJob
<1>2. CASE t # Service
  <2>1. t \in Busy
    BY <1>2 DEF Threads, Busy
  <2>2. thread[t].pc \in Places(thread[t].job.kind) /\ Formed(thread[t].job)
    BY <2>1 DEF Jobs, InPlace, JobsFormed
  <2>3. thread[t].job.kind \in {"decrypt", "fetch", "content", "receipt"}
    BY <2>2 DEF Formed
  <2> QED
    BY <1>2, <2>1, <2>2, <2>3 DEF Places, Handled
<1> QED
  BY <1>1, <1>2

LEMMA JobsHandle ==
  ASSUME Typed, Jobs, Channels, NEW t \in Threads, HandleStep(t)
  PROVE  Jobs'
<1>0. /\ thread \in [Threads -> SoundThread] /\ arrived \in Nat
      /\ \A n \in DOMAIN adding : Formed(adding[n]) /\ adding[n].id = 0
      /\ \A c \in Consumers : c \in Threads
      /\ Service \in Threads /\ Service \notin Consumers
      /\ thread[Service].pc \in AtService
      /\ adding \in Seq(SoundJob)
      /\ DOMAIN thread[t] = {"pc", "job", "e", "row", "todo"}
  BY ConsumersAssumption DEF Typed, TypeOK, Jobs, JobsFormed, InPlace, AtService, Threads,
     SoundThread, Thread
<1> DEFINE Moves(pc) ==
      /\ thread'[t].job = thread[t].job /\ thread'[t].pc = pc
      /\ \A u \in Threads : u # t => thread'[u] = thread[u]
      /\ t = Service => pc \in AtService
      /\ t # Service => t \in Busy /\ pc \in Places(thread[t].job.kind)
<1>1. ASSUME NEW pc, Moves(pc), UNCHANGED <<stored, queue, lastId, arrived>>,
             \A n \in DOMAIN adding' : Formed(adding'[n]) /\ adding'[n].id = 0
      PROVE  Jobs'
  <2>1. \A u \in Threads : thread'[u].job = thread[u].job
    BY <1>1
  <2>2. \A c \in Consumers :
          \/ thread'[c].pc = thread[c].pc
          \/ c \in Busy /\ thread'[c].pc \in Places(thread[c].job.kind)
    BY <1>0, <1>1
  <2>3. thread'[Service].pc \in AtService
    BY <1>0, <1>1
  <2>4. \A n \in DOMAIN adding' : (Formed(adding[n]))' /\ adding'[n].id = 0
    BY <1>1 DEF Formed
  <2> QED
    BY <1>0, <1>1, <2>1, <2>2, <2>3, <2>4, JobsMove
<1>2. ASSUME NEW pc, Goto(t, pc)
      PROVE  /\ thread'[t].job = thread[t].job /\ thread'[t].pc = pc
             /\ \A u \in Threads : u # t => thread'[u] = thread[u]
  BY <1>0, <1>2 DEF Goto
<1>3. ASSUME thread[t].pc \in {"find", "insert", "add"}
      PROVE  /\ t = Service => Handled(t) \in AtService /\ "add" \in AtService /\ "insert" \in AtService
             /\ t # Service => /\ t \in Busy /\ Handled(t) \in Places(thread[t].job.kind)
                               /\ {"add", "insert"} \subseteq Places(thread[t].job.kind)
  <2>1. thread[t].job.kind \in {"none", "fetch", "content"}
    BY <1>3, HandlerPlaces DEF NoJob
  <2> QED
    BY <1>3, <2>1, HandlerPlaces DEF AtService, Places, Handled, NoJob
<1>4. ASSUME NEW blocked \in Blocking, Find(t, blocked) PROVE Jobs'
  <2>1. thread[t].pc = "find" /\ UNCHANGED <<adding, stored, queue, lastId, arrived>>
    BY <1>4 DEF Find, dataVars, jobVars
  <2>2. CASE Goto(t, Handled(t))
    BY <1>0, <1>1, <1>2, <1>3, <2>1, <2>2
  <2>3. CASE Goto(t, "insert")
    BY <1>0, <1>1, <1>2, <1>3, <2>1, <2>3
  <2>4. CASE thread' = [thread EXCEPT ![t].pc = "add", ![t].row = Min(RowsOf(thread[t].e))]
    <3>1. /\ thread'[t].job = thread[t].job /\ thread'[t].pc = "add"
          /\ \A u \in Threads : u # t => thread'[u] = thread[u]
      BY <1>0, <2>4
    <3> QED
      BY <1>0, <1>1, <1>3, <2>1, <3>1
  <2> QED
    BY <1>4, <2>2, <2>3, <2>4 DEF Find
<1>5. CASE InsertRow(t)
  <2>1. thread[t].pc = "insert" /\ UNCHANGED <<adding, stored, queue, lastId, arrived>>
    BY <1>5 DEF InsertRow, jobVars
  <2>2. /\ thread'[t].job = thread[t].job /\ thread'[t].pc = "add"
        /\ \A u \in Threads : u # t => thread'[u] = thread[u]
    BY <1>0, <1>5 DEF InsertRow
  <2> QED
    BY <1>0, <1>1, <1>3, <2>1, <2>2
<1>6. CASE AddDecryptJob(t)
  <2>1. /\ thread[t].pc = "add" /\ UNCHANGED <<stored, queue, lastId, arrived>>
        /\ adding' = Append(adding, PushDecryptJob(thread[t].row, thread[t].e))
        /\ Goto(t, Handled(t))
    BY <1>6 DEF AddDecryptJob, dataVars
  <2>2. Formed(PushDecryptJob(thread[t].row, thread[t].e))
    <3>1. thread[t].e \in 1..arrived
      BY <2>1 DEF Channels, ThreadChannel, Handling
    <3> QED
      BY <3>1 DEF Formed, PushDecryptJob, NoJob
  <2>3. PushDecryptJob(thread[t].row, thread[t].e).id = 0
    BY DEF PushDecryptJob, NoJob
  <2>4. \A n \in DOMAIN adding' : Formed(adding'[n]) /\ adding'[n].id = 0
    BY <1>0, <2>1, <2>2, <2>3
  <2> QED
    BY <1>0, <1>1, <1>2, <1>3, <2>1, <2>4
<1>7. CASE AddReceiptJob(t)
  <2>1. /\ thread[t].pc = "receipt" /\ UNCHANGED <<stored, queue, lastId, arrived>>
        /\ adding' = Append(adding, DeliveryReceiptJob(thread[t].e))
        /\ Goto(t, "done")
    BY <1>7 DEF AddReceiptJob, dataVars
  <2>2. Formed(DeliveryReceiptJob(thread[t].e)) /\ DeliveryReceiptJob(thread[t].e).id = 0
    <3>1. thread[t].e \in 1..arrived
      BY <2>1 DEF Channels, ThreadChannel, Handling
    <3> QED
      BY <3>1 DEF Formed, DeliveryReceiptJob, NoJob
  <2>3. \A n \in DOMAIN adding' : Formed(adding'[n]) /\ adding'[n].id = 0
    BY <1>0, <2>1, <2>2
  <2>4. t # Service /\ t \in Busy /\ "done" \in Places(thread[t].job.kind)
    BY <2>1, HandlerPlaces DEF Places
  <2> QED
    BY <1>0, <1>1, <1>2, <2>1, <2>3, <2>4
<1>8. ASSUME t = Service, thread[t].pc = "ack", thread' = [thread EXCEPT ![t] = Start],
             UNCHANGED <<adding, stored, queue, lastId, arrived>>
      PROVE  Jobs'
  <2>1. /\ thread'[t].job = thread[t].job /\ thread'[t].pc = "check"
        /\ \A u \in Threads : u # t => thread'[u] = thread[u]
    BY <1>0, <1>8, HandlerPlaces DEF Start, Rest
  <2> QED
    BY <1>0, <1>1, <1>8, <2>1 DEF AtService
<1>9. ASSUME t # Service, thread[t].pc = "ack"
      PROVE  /\ t \in Busy /\ thread[t].job.kind = "fetch"
             /\ {"done", "find"} \subseteq Places(thread[t].job.kind)
  <2>1. t \in Busy /\ thread[t].job.kind = "fetch"
    BY <1>9, HandlerPlaces
  <2> QED
    BY <2>1 DEF Places
<1>10. CASE Acknowledge(t)
  <2>1. thread[t].pc = "ack" /\ UNCHANGED <<adding, stored, queue, lastId, arrived>>
    BY <1>10 DEF Acknowledge, jobVars
  <2>2. CASE t = Service /\ thread' = [thread EXCEPT ![t] = Start]
    BY <1>8, <2>1, <2>2
  <2>3. CASE t # Service /\ Goto(t, "done")
    BY <1>0, <1>1, <1>2, <1>9, <2>1, <2>3
  <2>4. CASE t # Service /\ thread' = [thread EXCEPT ![t].pc = "find", ![t].e = Head(thread[t].todo),
                                                    ![t].todo = Tail(thread[t].todo)]
    <3>1. /\ thread'[t].job = thread[t].job /\ thread'[t].pc = "find"
          /\ \A u \in Threads : u # t => thread'[u] = thread[u]
      BY <1>0, <2>4
    <3> QED
      BY <1>0, <1>1, <1>9, <2>1, <2>4, <3>1
  <2> QED
    BY <1>0, <1>10, <2>2, <2>3, <2>4 DEF Acknowledge
<1>11. CASE LoseAck(t)
  <2>1. thread[t].pc = "ack" /\ UNCHANGED <<adding, stored, lastId, arrived>>
    BY <1>11 DEF LoseAck
  <2>2. CASE t = Service /\ thread' = [thread EXCEPT ![t] = Start] /\ UNCHANGED queue
    BY <1>8, <2>1, <2>2
  <2>3. CASE t # Service /\ RetryLater(t)
    BY <1>9, <2>1, <2>3, JobsRetry
  <2> QED
    BY <1>11, <2>2, <2>3 DEF LoseAck
<1> QED
  BY <1>4, <1>5, <1>6, <1>7, <1>10, <1>11 DEF HandleStep

LEMMA JobsJob ==
  ASSUME Typed, Jobs, NEW c \in Consumers, JobStep(c)
  PROVE  Jobs'
<1>0. /\ c \in Threads /\ c # Service /\ Service \in Threads /\ arrived \in Nat
      /\ thread \in [Threads -> SoundThread]
      /\ \A n \in DOMAIN adding : Formed(adding[n]) /\ adding[n].id = 0
      /\ \A d \in Consumers : d \in Threads
      /\ thread[Service].pc \in AtService
      /\ DOMAIN thread[c] = {"pc", "job", "e", "row", "todo"}
  BY ConsumersAssumption DEF Typed, TypeOK, Jobs, JobsFormed, InPlace, AtService, Threads,
     SoundThread, Thread
<1>1. ASSUME NEW pc, thread'[c].job = thread[c].job, thread'[c].pc = pc,
             \A u \in Threads : u # c => thread'[u] = thread[u],
             c \in Busy, pc \in Places(thread[c].job.kind),
             UNCHANGED <<adding, stored, queue, lastId, arrived>>
      PROVE  Jobs'
  <2>1. \A u \in Threads : thread'[u].job = thread[u].job
    BY <1>1
  <2>2. \A d \in Consumers :
          \/ thread'[d].pc = thread[d].pc
          \/ d \in Busy /\ thread'[d].pc \in Places(thread[d].job.kind)
    BY <1>0, <1>1
  <2>3. thread'[Service].pc \in AtService
    BY <1>0, <1>1
  <2>4. \A n \in DOMAIN adding' : (Formed(adding[n]))' /\ adding'[n].id = 0
    BY <1>0, <1>1 DEF Formed
  <2> QED
    BY <1>0, <1>1, <2>1, <2>2, <2>3, <2>4, JobsMove
<1>2. ASSUME NEW pc, Goto(c, pc)
      PROVE  /\ thread'[c].job = thread[c].job /\ thread'[c].pc = pc
             /\ \A u \in Threads : u # c => thread'[u] = thread[u]
  BY <1>0, <1>2 DEF Goto
<1>3. ASSUME NEW kind, Run(c, kind) PROVE c \in Busy /\ thread[c].job.kind = kind
  BY <1>3 DEF Run, Busy
<1>4. ASSUME thread[c].pc \in {"decrypt", "show", "delete"}
      PROVE  c \in Busy /\ thread[c].job.kind = "decrypt"
  <2>1. c \in Busy
    BY <1>4 DEF Busy
  <2>2. thread[c].pc \in Places(thread[c].job.kind) /\ Formed(thread[c].job)
    BY <2>1 DEF Jobs, InPlace, JobsFormed
  <2> QED
    BY <1>4, <2>1, <2>2 DEF Places, Formed
<1>5. CASE RetrieveMessages(c)
  <2>1. /\ c \in Busy /\ thread[c].job.kind = "fetch"
        /\ UNCHANGED <<adding, stored, queue, lastId, arrived>>
    BY <1>3, <1>5 DEF RetrieveMessages, dataVars, jobVars
  <2>2. {"done", "find"} \subseteq Places(thread[c].job.kind)
    BY <2>1 DEF Places
  <2>3. CASE Goto(c, "done")
    BY <1>1, <1>2, <2>1, <2>2, <2>3
  <2>4. ASSUME NEW e, NEW list,
               thread' = [thread EXCEPT ![c].pc = "find", ![c].e = e, ![c].todo = list]
        PROVE  Jobs'
    <3>1. /\ thread'[c].job = thread[c].job /\ thread'[c].pc = "find"
          /\ \A u \in Threads : u # c => thread'[u] = thread[u]
      BY <1>0, <2>4
    <3> QED
      BY <1>1, <2>1, <2>2, <3>1
  <2> QED
    BY <1>5, <2>3, <2>4 DEF RetrieveMessages
<1>6. CASE RetrieveFails(c)
  <2>1. c \in Busy /\ thread[c].job.kind = "fetch" /\ RetryLater(c)
        /\ UNCHANGED <<arrived, adding, stored, lastId>>
    BY <1>3, <1>6 DEF RetrieveFails, dataVars
  <2> QED
    BY <2>1, JobsRetry
<1>7. CASE ReceiptFails(c)
  <2>1. c \in Busy /\ thread[c].job.kind = "receipt" /\ RetryLater(c)
        /\ UNCHANGED <<arrived, adding, stored, lastId>>
    BY <1>3, <1>7 DEF ReceiptFails, dataVars
  <2> QED
    BY <2>1, JobsRetry
<1>8. CASE ReadContent(c)
  <2>1. /\ c \in Busy /\ thread[c].job.kind = "content"
        /\ UNCHANGED <<adding, stored, queue, lastId, arrived>>
    BY <1>3, <1>8 DEF ReadContent, dataVars, jobVars
  <2>2. "find" \in Places(thread[c].job.kind)
    BY <2>1 DEF Places
  <2>3. /\ thread'[c].job = thread[c].job /\ thread'[c].pc = "find"
        /\ \A u \in Threads : u # c => thread'[u] = thread[u]
    BY <1>0, <1>8 DEF ReadContent
  <2> QED
    BY <1>1, <2>1, <2>2, <2>3
<1>9. CASE SendReceipt(c)
  <2>1. /\ c \in Busy /\ thread[c].job.kind = "receipt" /\ Goto(c, "done")
        /\ UNCHANGED <<adding, stored, queue, lastId, arrived>>
    BY <1>3, <1>9 DEF SendReceipt, dataVars, jobVars
  <2>2. "done" \in Places(thread[c].job.kind)
    BY <2>1 DEF Places
  <2> QED
    BY <1>1, <1>2, <2>1, <2>2
<1>10. CASE GetRow(c)
  <2>1. /\ c \in Busy /\ thread[c].job.kind = "decrypt"
        /\ UNCHANGED <<adding, stored, queue, lastId, arrived>>
    BY <1>3, <1>10 DEF GetRow, dataVars, jobVars
  <2>2. {"done", "decrypt"} \subseteq Places(thread[c].job.kind)
    BY <2>1 DEF Places
  <2>3. CASE Goto(c, "done")
    BY <1>1, <1>2, <2>1, <2>2, <2>3
  <2>4. ASSUME NEW e, NEW row,
               thread' = [thread EXCEPT ![c].pc = "decrypt", ![c].row = row, ![c].e = e]
        PROVE  Jobs'
    <3>1. /\ thread'[c].job = thread[c].job /\ thread'[c].pc = "decrypt"
          /\ \A u \in Threads : u # c => thread'[u] = thread[u]
      BY <1>0, <2>4
    <3> QED
      BY <1>1, <2>1, <2>2, <3>1
  <2> QED
    BY <1>10, <2>3, <2>4 DEF GetRow
<1>11. CASE Decrypt(c) \/ InsertMessageInbox(c) \/ DeleteRow(c)
  <2>1. /\ c \in Busy /\ thread[c].job.kind = "decrypt"
        /\ UNCHANGED <<adding, stored, queue, lastId, arrived>>
    BY <1>4, <1>11 DEF Decrypt, InsertMessageInbox, DeleteRow, jobVars
  <2>2. {"show", "delete", "done"} \subseteq Places(thread[c].job.kind)
    BY <2>1 DEF Places
  <2>3. Goto(c, "show") \/ Goto(c, "delete") \/ Goto(c, "done")
    BY <1>11 DEF Decrypt, InsertMessageInbox, DeleteRow
  <2> QED
    BY <1>1, <1>2, <2>1, <2>2, <2>3
<1>12. CASE FinishJob(c)
  BY <1>12, JobsFinish
<1> QED
  BY <1>5, <1>6, <1>7, <1>8, <1>9, <1>10, <1>11, <1>12 DEF JobStep

LEMMA JobsNext ==
  ASSUME Typed, Jobs, Channels, [Next]_vars
  PROVE  Jobs'
<1>0. /\ Service \in Threads /\ arrived \in Nat /\ adding \in Seq(SoundJob)
      /\ thread \in [Threads -> SoundThread] /\ Service \notin Consumers
      /\ \A n \in DOMAIN adding : Formed(adding[n]) /\ adding[n].id = 0
      /\ \A d \in Consumers : d \in Threads
      /\ thread[Service].pc \in AtService
      /\ DOMAIN thread[Service] = {"pc", "job", "e", "row", "todo"}
  BY ConsumersAssumption DEF Typed, TypeOK, Jobs, JobsFormed, InPlace, AtService, Threads,
     SoundThread, Thread
<1>1. ASSUME NEW pc \in AtService,
             thread'[Service].pc = pc, thread'[Service].job = thread[Service].job,
             \A c \in Consumers : thread'[c] = thread[c],
             UNCHANGED <<arrived, stored, queue, lastId, adding>>
      PROVE  Jobs'
  <2>1. \A n \in DOMAIN adding' : (Formed(adding[n]))' /\ adding'[n].id = 0
    BY <1>0, <1>1 DEF Formed
  <2>2. \A t \in Threads : thread'[t].job = thread[t].job
    BY <1>0, <1>1 DEF Threads
  <2> QED
    BY <1>0, <1>1, <2>1, <2>2, JobsMove
<1>2. ASSUME UNCHANGED <<thread, stored, queue, lastId>>, arrived' \in Nat, arrived' >= arrived,
             \A n \in DOMAIN adding' : (Formed(adding[n]))' /\ adding'[n].id = 0
      PROVE  Jobs'
  BY <1>0, <1>2, JobsMove
<1>3. CASE Arrive
  <2>1. arrived' = arrived + 1 /\ UNCHANGED <<thread, stored, queue, lastId, adding>>
    BY <1>3 DEF Arrive, jobVars
  <2>2. \A n \in DOMAIN adding' : (Formed(adding[n]))' /\ adding'[n].id = 0
    BY <1>0, <2>1, FormedStays DEF Formed
  <2> QED
    BY <1>0, <1>2, <2>1, <2>2
<1>4. CASE ReceivedMessage
  <2> DEFINE j == PushContentReceiveJob(arrived + 1)
  <2>1. /\ arrived' = arrived + 1 /\ UNCHANGED <<thread, stored, queue, lastId>>
        /\ adding' = Append(adding, j) /\ arrived + 1 \in Direct
    BY <1>4 DEF ReceivedMessage
  <2>2. j.id = 0 /\ j.kind = "content" /\ j.persistent = TRUE /\ j.group = "none" /\ j.iter = 0
        /\ j.e = arrived + 1
    BY DEF PushContentReceiveJob, NoJob
  <2> HIDE DEF j
  <2>3. \A n \in DOMAIN adding' : adding'[n] = j \/ (n \in DOMAIN adding /\ adding'[n] = adding[n])
    BY <1>0, <2>1
  <2>4. \A n \in DOMAIN adding' : (Formed(adding[n]))' /\ adding'[n].id = 0
    <3> SUFFICES ASSUME NEW n \in DOMAIN adding' PROVE (Formed(adding[n]))' /\ adding'[n].id = 0
      OBVIOUS
    <3>1. CASE adding'[n] = j
      BY <1>0, <2>1, <2>2, <3>1 DEF Formed
    <3>2. CASE n \in DOMAIN adding /\ adding'[n] = adding[n]
      BY <1>0, <2>1, <3>2, FormedStays DEF Formed
    <3> QED
      BY <2>3, <3>1, <3>2
  <2> QED
    BY <1>0, <1>2, <2>1, <2>4
<1>5. CASE ReceivedNotification
  <2>1. /\ arrived' = arrived /\ UNCHANGED <<thread, stored, queue, lastId>>
        /\ adding' = Append(adding, PushNotificationReceiveJob)
    BY <1>5 DEF ReceivedNotification, dataVars
  <2>2. Formed(PushNotificationReceiveJob) /\ PushNotificationReceiveJob.id = 0
    BY DEF PushNotificationReceiveJob, NoJob, Formed
  <2>3. \A n \in DOMAIN adding' : Formed(adding'[n]) /\ adding'[n].id = 0
    BY <1>0, <2>1, <2>2
  <2>4. \A n \in DOMAIN adding' : (Formed(adding[n]))' /\ adding'[n].id = 0
    BY <2>1, <2>3 DEF Formed
  <2> QED
    BY <1>0, <1>2, <2>1, <2>4
<1>6. CASE NotifyAll /\ UNCHANGED <<arrived, adding, stored, queue, lastId>>
  <2>1. /\ thread'[Service].pc \in {"check", thread[Service].pc}
        /\ thread'[Service].job = thread[Service].job
        /\ \A c \in Consumers : thread'[c] = thread[c]
    BY <1>0, <1>6 DEF NotifyAll
  <2> QED
    BY <1>0, <1>1, <1>6, <2>1 DEF AtService
<1>7. CASE IncrementActive \/ DecrementActive \/ RegainNetwork
  BY <1>6, <1>7 DEF IncrementActive, DecrementActive, RegainNetwork, dataVars, jobVars
<1>8. CASE LoseNetwork \/ UNCHANGED vars
  <2>1. UNCHANGED <<arrived, thread, adding, stored, queue, lastId>>
    BY <1>8 DEF LoseNetwork, dataVars, jobVars, vars
  <2> QED
    BY <1>0, <1>1, <2>1
<1>9. CASE StoreJob
  BY <1>9, JobsStore
<1>10. ASSUME NEW t \in Threads, HandleStep(t) PROVE Jobs'
  BY <1>10, JobsHandle
<1>11. CASE ServiceStep
  <2>1. UNCHANGED <<arrived, adding, stored, queue, lastId>>
    BY <1>11 DEF ServiceStep, CheckConnection, Read, ReadEnds, dataVars, jobVars
  <2>2. PICK pc \in {"read", "wait", "check", "find"} :
          /\ thread'[Service].pc = pc /\ thread'[Service].job = thread[Service].job
          /\ \A c \in Consumers : thread'[c] = thread[c]
    <3>1. CASE CheckConnection
      BY <1>0, <3>1 DEF CheckConnection, Goto
    <3>2. CASE Read
      BY <1>0, <3>2 DEF Read
    <3>3. CASE ReadEnds
      BY <1>0, <3>3 DEF ReadEnds, Goto
    <3> QED
      BY <1>11, <3>1, <3>2, <3>3 DEF ServiceStep
  <2> QED
    BY <1>1, <2>1, <2>2 DEF AtService
<1>12. ASSUME NEW c \in Consumers, TakeJob(c) \/ JobStep(c) PROVE Jobs'
  BY <1>12, JobsTake, JobsJob
<1>13. CASE Crash
  BY <1>13, JobsCrash
<1> QED
  BY <1>3, <1>4, <1>5, <1>7, <1>8, <1>9, <1>10, <1>11, <1>12, <1>13 DEF Next

-----------------------------------------------------------------------------
(* What a step does to the thread that takes it                            *)

Only(t) == \A u \in Threads : u # t => thread'[u] = thread[u]

ToRow(t, pc, row)      == thread' = [thread EXCEPT ![t].pc = pc, ![t].row = row]
ToEnvelope(t, pc, e)   == thread' = [thread EXCEPT ![t].pc = pc, ![t].e = e]
ToList(t, pc, e, todo) == thread' = [thread EXCEPT ![t].pc = pc, ![t].e = e, ![t].todo = todo]
ToBoth(t, pc, row, e)  == thread' = [thread EXCEPT ![t].pc = pc, ![t].row = row, ![t].e = e]
To(t, r)               == thread' = [thread EXCEPT ![t] = r]

LEMMA GotoFacts ==
  ASSUME Typed, NEW t \in Threads, NEW pc, Goto(t, pc)
  PROVE  /\ Only(t) /\ thread'[t].pc = pc
         /\ thread'[t].job = thread[t].job /\ thread'[t].e = thread[t].e
         /\ thread'[t].row = thread[t].row /\ thread'[t].todo = thread[t].todo
<1>1. thread \in [Threads -> SoundThread]
  BY DEF Typed
<1> QED
  BY <1>1 DEF Goto, Only, SoundThread, Thread

LEMMA RowFacts ==
  ASSUME Typed, NEW t \in Threads, NEW pc, NEW row,
         ToRow(t, pc, row)
  PROVE  /\ Only(t) /\ thread'[t].pc = pc /\ thread'[t].row = row
         /\ thread'[t].job = thread[t].job /\ thread'[t].e = thread[t].e
         /\ thread'[t].todo = thread[t].todo
<1>1. thread \in [Threads -> SoundThread]
  BY DEF Typed
<1> QED
  BY <1>1 DEF Only, ToRow, SoundThread, Thread

LEMMA EnvelopeFacts ==
  ASSUME Typed, NEW t \in Threads, NEW pc, NEW e,
         ToEnvelope(t, pc, e)
  PROVE  /\ Only(t) /\ thread'[t].pc = pc /\ thread'[t].e = e
         /\ thread'[t].job = thread[t].job /\ thread'[t].row = thread[t].row
         /\ thread'[t].todo = thread[t].todo
<1>1. thread \in [Threads -> SoundThread]
  BY DEF Typed
<1> QED
  BY <1>1 DEF Only, ToEnvelope, SoundThread, Thread

LEMMA ListFacts ==
  ASSUME Typed, NEW t \in Threads, NEW pc, NEW e, NEW todo,
         ToList(t, pc, e, todo)
  PROVE  /\ Only(t) /\ thread'[t].pc = pc /\ thread'[t].e = e /\ thread'[t].todo = todo
         /\ thread'[t].job = thread[t].job /\ thread'[t].row = thread[t].row
<1>1. thread \in [Threads -> SoundThread]
  BY DEF Typed
<1> QED
  BY <1>1 DEF Only, ToList, SoundThread, Thread

LEMMA GetFacts ==
  ASSUME Typed, NEW t \in Threads, NEW pc, NEW e, NEW row,
         ToBoth(t, pc, row, e)
  PROVE  /\ Only(t) /\ thread'[t].pc = pc /\ thread'[t].e = e /\ thread'[t].row = row
         /\ thread'[t].job = thread[t].job /\ thread'[t].todo = thread[t].todo
<1>1. thread \in [Threads -> SoundThread]
  BY DEF Typed
<1> QED
  BY <1>1 DEF Only, ToBoth, SoundThread, Thread

LEMMA SetFacts ==
  ASSUME Typed, NEW t \in Threads, NEW r, To(t, r)
  PROVE  Only(t) /\ thread'[t] = r
<1>1. thread \in [Threads -> SoundThread]
  BY DEF Typed
<1> QED
  BY <1>1 DEF Only, To

(* A job before and after a retry.                                         *)
SameWork(j, k) == /\ j.id = k.id /\ j.kind = k.kind /\ j.group = k.group
                  /\ j.persistent = k.persistent

LEMMA RetryFacts ==
  ASSUME Typed, NEW t \in Threads, RetryLater(t)
  PROVE  /\ Only(t) /\ thread'[t].pc \in {"idle", "run", "done"} /\ thread'[t].todo = <<>>
         /\ thread'[t].pc = "idle" \/ SameWork(thread'[t].job, thread[t].job)
         /\ thread'[t].pc = "idle" \/ thread'[t].job.kind = thread[t].job.kind
<1> DEFINE j == [thread[t].job EXCEPT !.iter = @ + 1]
           pc == IF j.iter < Retries(j) THEN "run" ELSE "done"
<1>1. thread \in [Threads -> SoundThread] /\ SameWork(j, thread[t].job) /\ pc \in {"run", "done"}
  BY DEF Typed, SoundThread, SoundJob, Job, SameWork
<1>2. To(t, Rest) \/ To(t, [Rest EXCEPT !.job = j, !.pc = pc])
  BY DEF RetryLater, To
<1> HIDE DEF j, pc
<1>3. /\ Rest.pc = "idle" /\ Rest.todo = <<>>
      /\ [Rest EXCEPT !.job = j, !.pc = pc].pc = pc /\ [Rest EXCEPT !.job = j, !.pc = pc].job = j
      /\ [Rest EXCEPT !.job = j, !.pc = pc].todo = <<>>
  BY DEF Rest
<1> QED
  BY <1>1, <1>2, <1>3, SetFacts DEF SameWork

(* The stored job of a thread that runs one.                               *)
LEMMA RunsStored ==
  ASSUME Typed, Jobs, NEW c \in Consumers, thread[c].pc # "idle",
         thread[c].job.kind \in {"decrypt", "content", "receipt"}
  PROVE  /\ c \in Busy
         /\ \E m \in DOMAIN stored : Same(stored[m], thread[c].job)
<1>1. c \in Busy
  BY DEF Busy
<1>2. thread[c].job.persistent
  BY <1>1 DEF Jobs, JobsFormed, Formed
<1> QED
  BY <1>1, <1>2 DEF Jobs, JobsKept

(* One thread at a time works on a row.                                    *)
LEMMA DecryptsAlone ==
  ASSUME Typed, Jobs, NEW t \in Threads,
         \/ thread[t].pc \in {"decrypt", "show", "delete"}
         \/ thread[t].job.kind = "decrypt" /\ thread[t].pc # "idle"
  PROVE  /\ t \in Consumers /\ t \in Busy /\ t \in Decrypting /\ thread[t].job.kind = "decrypt"
         /\ thread[t].pc \in {"run", "decrypt", "show", "delete", "done"}
         /\ \A u \in Threads : u # t => thread[u].pc \notin {"decrypt", "show", "delete"}
<1>1. ASSUME NEW u \in Threads, thread[u].pc \in {"decrypt", "show", "delete"}
      PROVE  u \in Decrypting /\ u \in Consumers /\ u \in Busy
  <2>1. u \in Consumers
    BY <1>1 DEF Threads, Jobs, InPlace
  <2>2. u \in Busy
    BY <1>1, <2>1 DEF Busy
  <2>3. thread[u].pc \in Places(thread[u].job.kind) /\ Formed(thread[u].job)
    BY <2>2 DEF Jobs, InPlace, JobsFormed
  <2>4. thread[u].job.kind = "decrypt"
    BY <1>1, <2>3 DEF Places, Formed
  <2> QED
    BY <2>1, <2>2, <2>4 DEF Decrypting
<1>2. t \in Decrypting /\ t \in Consumers /\ t \in Busy
  <2>1. CASE thread[t].job.kind = "decrypt" /\ thread[t].pc # "idle"
    BY <2>1 DEF Threads, Jobs, InPlace, NoJob, Busy, Decrypting
  <2> QED
    BY <1>1, <2>1
<1>3. thread[t].pc \in {"run", "decrypt", "show", "delete", "done"} /\ thread[t].job.kind = "decrypt"
  <2>1. thread[t].pc \in Places("decrypt") /\ thread[t].job.kind = "decrypt"
    BY <1>2 DEF Decrypting, Jobs, InPlace
  <2> QED
    BY <2>1 DEF Places
<1>4. \A u \in Threads : u # t => thread[u].pc \notin {"decrypt", "show", "delete"}
  BY <1>1, <1>2 DEF Jobs, DecryptsInTurn
<1> QED
  BY <1>2, <1>3, <1>4

(* What is known stays known.                                              *)
LEMMA KnownStays ==
  ASSUME Typed, session \subseteq session',
         inbox' = inbox \/ \E x : inbox' = Append(inbox, x)
  PROVE  \A e : Known(e) => Known(e)'
<1>1. \A e : e \in Shown => e \in Shown'
  <2>1. inbox \in Seq(Envelopes)
    BY DEF Typed, TypeOK
  <2>2. \A i \in DOMAIN inbox : i \in DOMAIN inbox' /\ inbox'[i] = inbox[i]
    <3>1. ASSUME NEW x, inbox' = Append(inbox, x)
          PROVE  \A i \in DOMAIN inbox : i \in DOMAIN inbox' /\ inbox'[i] = inbox[i]
      <4>1. inbox \in Seq(Envelopes \cup {x})
        BY <2>1
      <4> QED
        BY <3>1, <4>1
    <3> QED
      BY <3>1
  <2> QED
    BY <2>2 DEF Shown, ToSet
<1> QED
  BY <1>1 DEF Known

-----------------------------------------------------------------------------
(* The rows are held *)

LEMMA ThreadHeldStays ==
  ASSUME NEW t \in Threads, ThreadHeld(t), thread'[t] = thread[t],
         \A row, e : Held(row, e) => Held(row, e)',
         \A e : Known(e) => Known(e)',
         \/ \A row, e : Holds(row, e) => Holds(row, e)'
         \/ thread[t].pc \notin {"decrypt", "show", "delete"},
         log.astray \subseteq log'.astray
  PROVE  ThreadHeld(t)'
  BY DEF ThreadHeld

LEMMA HeldStep ==
  ASSUME Typed, RowsHeld,
         \A row, e : Held(row, e) => Held(row, e)',
         \A n \in DOMAIN stored' : stored'[n].kind = "decrypt" =>
           \/ \E m \in DOMAIN stored : stored'[n] = stored[m]
           \/ Held(stored'[n].row, stored'[n].e),
         \A n \in DOMAIN adding' : adding'[n].kind = "decrypt" =>
           \/ \E m \in DOMAIN adding : adding'[n] = adding[m]
           \/ Held(adding'[n].row, adding'[n].e),
         \A t \in Threads : ThreadHeld(t)'
  PROVE  RowsHeld'
<1>1. \A n \in DOMAIN stored' : stored'[n].kind = "decrypt" => Held(stored'[n].row, stored'[n].e)
  BY DEF RowsHeld
<1>2. \A n \in DOMAIN adding' : adding'[n].kind = "decrypt" => Held(adding'[n].row, adding'[n].e)
  BY DEF RowsHeld
<1>3. \A n \in DOMAIN stored' : stored'[n].kind = "decrypt" => (Held(stored[n].row, stored[n].e))'
  BY <1>1
<1>4. \A n \in DOMAIN adding' : adding'[n].kind = "decrypt" => (Held(adding[n].row, adding[n].e))'
  BY <1>2
<1> QED
  BY <1>3, <1>4 DEF RowsHeld

(* Steps that touch neither the rows nor the inbox.                        *)
LEMMA HeldQuiet ==
  ASSUME Typed, RowsHeld, UNCHANGED <<push, session, inbox>>, log.astray \subseteq log'.astray,
         \A n \in DOMAIN stored' : stored'[n].kind = "decrypt" =>
           \/ \E m \in DOMAIN stored : stored'[n] = stored[m]
           \/ Held(stored'[n].row, stored'[n].e),
         \A n \in DOMAIN adding' : adding'[n].kind = "decrypt" =>
           \/ \E m \in DOMAIN adding : adding'[n] = adding[m]
           \/ Held(adding'[n].row, adding'[n].e),
         \A t \in Threads :
           \/ thread'[t] = thread[t]
           \/ /\ thread'[t].pc \notin {"decrypt", "show", "delete"}
              /\ thread'[t].pc = "add" => Held(thread'[t].row, thread'[t].e)
              /\ thread'[t].pc = "done" /\ thread'[t].job.kind = "decrypt" => Known(thread'[t].job.e)
  PROVE  RowsHeld'
<1>1. /\ \A row, e : Holds(row, e) => Holds(row, e)'
      /\ \A e : Known(e) => Known(e)'
      /\ \A row, e : Held(row, e) => Held(row, e)'
  BY DEF Holds, Known, Held, Shown, ToSet
<1>2. ASSUME NEW t \in Threads PROVE ThreadHeld(t)'
  <2>1. CASE thread'[t] = thread[t]
    BY <1>1, <2>1, ThreadHeldStays DEF RowsHeld
  <2>2. CASE thread'[t] # thread[t]
    <3>1. /\ thread'[t].pc \notin {"decrypt", "show", "delete"}
          /\ thread'[t].pc = "add" => (Held(thread[t].row, thread[t].e))'
          /\ thread'[t].pc = "done" /\ thread'[t].job.kind = "decrypt" => (Known(thread[t].job.e))'
      BY <1>1, <2>2 DEF Held, Holds, Known, Shown, ToSet
    <3> QED
      BY <3>1 DEF ThreadHeld
  <2> QED
    BY <2>1, <2>2
<1> QED
  BY <1>1, <1>2, HeldStep

(* Whoever handles an envelope it was sent is not at a row.                *)
LEMMA HandlerNowhere ==
  ASSUME NEW t, HandleStep(t)
  PROVE  thread[t].pc \in {"find", "insert", "add", "receipt", "ack"}
  BY DEF HandleStep, Find, InsertRow, AddDecryptJob, AddReceiptJob, Acknowledge, LoseAck

LEMMA NotifyFacts ==
  ASSUME Typed, NotifyAll
  PROVE  /\ Only(Service)
         /\ \/ thread'[Service] = thread[Service]
            \/ /\ thread[Service].pc = "wait" /\ thread'[Service].pc = "check"
               /\ thread'[Service].job = thread[Service].job /\ thread'[Service].e = thread[Service].e
               /\ thread'[Service].todo = thread[Service].todo
<1>1. thread \in [Threads -> SoundThread] /\ Service \in Threads
  BY DEF Typed, Threads
<1>2. CASE thread[Service].pc = "wait"
  BY <1>1, <1>2 DEF NotifyAll, Only, SoundThread, Thread
<1>3. CASE thread[Service].pc # "wait"
  BY <1>1, <1>3 DEF NotifyAll, Only, SoundThread, Thread
<1> QED
  BY <1>2, <1>3

LEMMA HeldHandle ==
  ASSUME Typed, Jobs, RowsHeld, NEW t \in Threads, HandleStep(t)
  PROVE  RowsHeld'
<1>0. /\ adding \in Seq(SoundJob) /\ ThreadHeld(t)
      /\ thread[t].pc \notin {"decrypt", "show", "delete"}
  BY HandlerNowhere DEF Typed, RowsHeld
<1>1. ASSUME UNCHANGED <<push, session, inbox, stored, adding>>, log.astray \subseteq log'.astray,
             Only(t), thread'[t].pc \notin {"decrypt", "show", "delete"},
             thread'[t].pc = "add" => Held(thread'[t].row, thread'[t].e),
             thread'[t].pc = "done" => thread'[t].job.kind # "decrypt"
      PROVE  RowsHeld'
  BY <1>1, HeldQuiet DEF Only
<1>2. ASSUME NEW blocked \in Blocking, Find(t, blocked) PROVE RowsHeld'
  <2>1. /\ UNCHANGED <<push, session, inbox, stored, adding>> /\ log \in Logs
        /\ log' = log \/ log' = [log EXCEPT !.dropped = @ \cup {thread[t].e}]
    BY <1>2 DEF Find, dataVars, jobVars, Typed
  <2>2. log.astray \subseteq log'.astray
    BY <2>1 DEF Logs
  <2>3. CASE Goto(t, Handled(t)) \/ Goto(t, "insert")
    BY <1>1, <2>1, <2>2, <2>3, GotoFacts DEF Handled
  <2>4. CASE RowsOf(thread[t].e) # {} /\
             ToRow(t, "add", Min(RowsOf(thread[t].e)))
    <3>1. Held(Min(RowsOf(thread[t].e)), thread[t].e)
      BY <2>4, RowFound DEF Held, Holds
    <3> QED
      BY <1>1, <2>1, <2>2, <2>4, <3>1, RowFacts
  <2> QED
    BY <1>2, <2>3, <2>4 DEF Find, ToRow
<1>3. CASE InsertRow(t)
  <2>1. /\ push' = [i \in DOMAIN push \cup {NewRow} |-> IF i = NewRow THEN thread[t].e ELSE push[i]]
        /\ UNCHANGED <<session, inbox, stored, adding, log>>
        /\ ToRow(t, "add", NewRow)
    BY <1>3 DEF InsertRow, jobVars, restVars, ToRow
  <2>2. \A row, e : Holds(row, e) => Holds(row, e)'
    BY <2>1, NewRowIsNew DEF Holds
  <2>3. \A e : Known(e) => Known(e)'
    BY <2>1 DEF Known, Shown
  <2>4. \A row, e : Held(row, e) => Held(row, e)'
    BY <2>2, <2>3 DEF Held
  <2>5. (Holds(NewRow, thread[t].e))' <=> NewRow' \in DOMAIN push' /\ push'[NewRow'] = thread'[t].e
    BY DEF Holds
  <2>6. thread'[t].row \in DOMAIN push' /\ push'[thread'[t].row] = thread'[t].e /\ thread'[t].pc = "add"
    BY <2>1, RowFacts
  <2>7. ThreadHeld(t)'
    BY <2>6 DEF ThreadHeld, Held, Holds
  <2>8. \A u \in Threads : ThreadHeld(u)'
    <3> SUFFICES ASSUME NEW u \in Threads, u # t PROVE ThreadHeld(u)'
      BY <2>7
    <3>1. thread'[u] = thread[u]
      BY <2>1, RowFacts DEF Only
    <3> QED
      BY <2>1, <2>2, <2>3, <2>4, <3>1, ThreadHeldStays DEF RowsHeld
  <2> QED
    BY <2>1, <2>4, <2>8, HeldStep
<1>4. CASE AddDecryptJob(t)
  <2> DEFINE j == PushDecryptJob(thread[t].row, thread[t].e)
  <2>1. /\ UNCHANGED <<push, session, inbox, stored, log>> /\ Goto(t, Handled(t))
        /\ adding' = Append(adding, j) /\ thread[t].pc = "add"
    BY <1>4 DEF AddDecryptJob, dataVars, restVars
  <2>2. j.row = thread[t].row /\ j.e = thread[t].e
    BY DEF PushDecryptJob, NoJob
  <2> HIDE DEF j
  <2>3. Held(j.row, j.e)
    BY <1>0, <2>1, <2>2 DEF ThreadHeld
  <2>4. \A n \in DOMAIN adding' : \/ \E m \in DOMAIN adding : adding'[n] = adding[m]
                                  \/ Held(adding'[n].row, adding'[n].e)
    BY <1>0, <2>1, <2>3
  <2>5. \A u \in Threads : thread'[u] = thread[u] \/ thread'[u].pc \in {"receipt", "ack"}
    BY <2>1, GotoFacts DEF Only, Handled
  <2> QED
    BY <2>1, <2>4, <2>5, HeldQuiet
<1>5. CASE AddReceiptJob(t)
  <2>1. /\ UNCHANGED <<push, session, inbox, stored, log>> /\ Goto(t, "done")
        /\ adding' = Append(adding, DeliveryReceiptJob(thread[t].e)) /\ thread[t].pc = "receipt"
    BY <1>5 DEF AddReceiptJob, dataVars, restVars
  <2>2. DeliveryReceiptJob(thread[t].e).kind = "receipt"
    BY DEF DeliveryReceiptJob, NoJob
  <2>3. \A n \in DOMAIN adding' : \/ \E m \in DOMAIN adding : adding'[n] = adding[m]
                                  \/ adding'[n].kind # "decrypt"
    BY <1>0, <2>1, <2>2
  <2>4. \A u \in Threads :
          \/ thread'[u] = thread[u]
          \/ thread'[u].pc = "done" /\ thread'[u].job.kind # "decrypt"
    BY <2>1, GotoFacts, HandlerPlaces DEF Only
  <2> QED
    BY <2>1, <2>3, <2>4, HeldQuiet
<1>6. CASE Acknowledge(t)
  <2>1. UNCHANGED <<push, session, inbox, stored, adding, log>> /\ thread[t].pc = "ack"
    BY <1>6 DEF Acknowledge, jobVars, restVars
  <2>2. CASE To(t, Start)
    BY <1>1, <2>1, <2>2, SetFacts DEF Start, Rest
  <2>3. CASE t # Service /\ Goto(t, "done")
    BY <1>1, <2>1, <2>3, GotoFacts, HandlerPlaces
  <2>4. CASE ToList(t, "find", Head(thread[t].todo), Tail(thread[t].todo))
    BY <1>1, <2>1, <2>4, ListFacts
  <2>5. DOMAIN thread[t] = {"pc", "job", "e", "row", "todo"} /\ thread \in [Threads -> SoundThread]
    BY DEF Typed, SoundThread, Thread
  <2> QED
    BY <1>6, <2>2, <2>3, <2>4, <2>5 DEF Acknowledge, To, ToList
<1>7. CASE LoseAck(t)
  <2>1. UNCHANGED <<push, session, inbox, stored, adding, log>> /\ thread[t].pc = "ack"
    BY <1>7 DEF LoseAck
  <2>2. CASE To(t, Start)
    BY <1>1, <2>1, <2>2, SetFacts DEF Start, Rest
  <2>3. CASE t # Service /\ RetryLater(t)
    BY <1>1, <2>1, <2>3, RetryFacts, HandlerPlaces
  <2> QED
    BY <1>7, <2>2, <2>3 DEF LoseAck, To
<1> QED
  BY <1>2, <1>3, <1>4, <1>5, <1>6, <1>7 DEF HandleStep

LEMMA HeldJob ==
  ASSUME Typed, Jobs, RowsHeld, NEW c \in Consumers, JobStep(c)
  PROVE  RowsHeld'
<1>0. /\ c \in Threads /\ ThreadHeld(c) /\ log \in Logs /\ stored \in Seq(SoundJob)
      /\ c # Service
  BY ConsumersAssumption DEF Typed, RowsHeld, Threads
<1>1. ASSUME UNCHANGED <<push, session, inbox, stored, adding>>, log.astray \subseteq log'.astray,
             Only(c), thread'[c].pc \notin {"decrypt", "show", "delete", "add"},
             thread'[c].pc = "done" /\ thread'[c].job.kind = "decrypt" => Known(thread'[c].job.e)
      PROVE  RowsHeld'
  BY <1>1, HeldQuiet DEF Only
<1>2. CASE RetrieveMessages(c)
  <2>1. UNCHANGED <<push, session, inbox, stored, adding, log>> /\ thread[c].job.kind = "fetch"
    BY <1>2 DEF RetrieveMessages, Run, dataVars, jobVars, restVars
  <2>2. CASE Goto(c, "done")
    BY <1>0, <1>1, <2>1, <2>2, GotoFacts
  <2>3. ASSUME NEW e, NEW todo, ToList(c, "find", e, todo)
        PROVE  RowsHeld'
    BY <1>0, <1>1, <2>1, <2>3, ListFacts
  <2> QED
    BY <1>2, <2>2, <2>3 DEF RetrieveMessages, ToList
<1>3. CASE RetrieveFails(c)
  <2>1. UNCHANGED <<push, session, inbox, stored, adding, log>> /\ thread[c].job.kind = "fetch"
        /\ RetryLater(c)
    BY <1>3 DEF RetrieveFails, Run, dataVars
  <2> QED
    BY <1>0, <1>1, <2>1, RetryFacts
<1>4. CASE ReadContent(c)
  <2>1. /\ UNCHANGED <<push, session, inbox, stored, adding, log>>
        /\ ToEnvelope(c, "find", thread[c].job.e)
    BY <1>4 DEF ReadContent, dataVars, jobVars, restVars, ToEnvelope
  <2> QED
    BY <1>0, <1>1, <2>1, EnvelopeFacts
<1>5. CASE SendReceipt(c)
  <2>1. /\ UNCHANGED <<push, session, inbox, stored, adding>> /\ Goto(c, "done")
        /\ thread[c].job.kind = "receipt" /\ log.astray \subseteq log'.astray
    BY <1>0, <1>5 DEF SendReceipt, Run, dataVars, jobVars, Logs
  <2> QED
    BY <1>0, <1>1, <2>1, GotoFacts
<1>6. CASE ReceiptFails(c)
  <2>1. /\ UNCHANGED <<push, session, inbox, stored, adding>> /\ RetryLater(c)
        /\ thread[c].job.kind = "receipt" /\ log.astray \subseteq log'.astray
    BY <1>0, <1>6 DEF ReceiptFails, Run, dataVars, Logs
  <2> QED
    BY <1>0, <1>1, <2>1, RetryFacts
<1>7. CASE GetRow(c)
  <2> DEFINE j == thread[c].job
  <2>1. UNCHANGED <<push, session, inbox, stored, adding>> /\ j.kind = "decrypt" /\ thread[c].pc = "run"
    BY <1>7 DEF GetRow, Run, dataVars, jobVars
  <2>2. CASE /\ j.row \in DOMAIN push
             /\ ToBoth(c, "decrypt", j.row, push[j.row])
             /\ log' = [log EXCEPT !.astray = @ \cup ({push[j.row]} \ {j.e})]
    <3>1. /\ Only(c) /\ thread'[c].pc = "decrypt" /\ thread'[c].row = j.row
          /\ thread'[c].e = push[j.row] /\ thread'[c].job = j
      BY <1>0, <2>2, GetFacts
    <3>2. log'.astray = log.astray \cup ({push[j.row]} \ {j.e})
      BY <1>0, <2>2 DEF Logs
    <3>3. ThreadHeld(c)'
      BY <2>1, <2>2, <3>1, <3>2 DEF ThreadHeld, Holds
    <3>4. /\ \A row, e : Holds(row, e) => Holds(row, e)'
          /\ \A e : Known(e) => Known(e)'
          /\ \A row, e : Held(row, e) => Held(row, e)'
      BY <2>1 DEF Holds, Known, Held, Shown, ToSet
    <3>5. \A u \in Threads : ThreadHeld(u)'
      <4> SUFFICES ASSUME NEW u \in Threads, u # c PROVE ThreadHeld(u)'
        BY <3>3
      <4> QED
        BY <3>1, <3>2, <3>4, ThreadHeldStays DEF Only, RowsHeld
    <3> QED
      BY <2>1, <3>4, <3>5, HeldStep
  <2>3. CASE j.row \notin DOMAIN push /\ Goto(c, "done") /\ UNCHANGED log
    <3>1. PICK m \in DOMAIN stored : Same(stored[m], j)
      BY <2>1, RunsStored
    <3>2. Held(j.row, j.e)
      BY <2>1, <3>1 DEF Same, RowsHeld
    <3>3. Known(j.e)
      BY <2>3, <3>2 DEF Held, Holds
    <3> QED
      BY <1>0, <1>1, <2>1, <2>3, <3>3, GotoFacts
  <2> QED
    BY <1>7, <2>2, <2>3 DEF GetRow, ToBoth
<1>8. CASE Decrypt(c)
  <2> DEFINE e == thread[c].e
  <2>1. /\ UNCHANGED <<push, inbox, stored, adding, log>> /\ thread[c].pc = "decrypt"
        /\ session \subseteq session'
        /\ \/ Goto(c, "show")
           \/ Goto(c, "delete") /\ e \in session'
    BY <1>8 DEF Decrypt, jobVars, restVars
  <2>2. /\ \A row, x : Holds(row, x) => Holds(row, x)'
        /\ \A x : Known(x) => Known(x)'
        /\ \A row, x : Held(row, x) => Held(row, x)'
    BY <2>1 DEF Holds, Known, Held, Shown, ToSet
  <2>3. /\ Only(c) /\ thread'[c].pc \in {"show", "delete"} /\ thread'[c].e = e
        /\ thread'[c].row = thread[c].row /\ thread'[c].job = thread[c].job
    BY <1>0, <2>1, GotoFacts
  <2>4. thread'[c].pc = "delete" => e \in session'
    BY <1>0, <2>1, GotoFacts
  <2>5. ThreadHeld(c)'
    <3>1. Holds(thread[c].row, e)' <=> (thread'[c].row \in DOMAIN push' /\ push'[thread'[c].row] = thread'[c].e)
      BY DEF Holds
    <3>2. thread'[c].row \in DOMAIN push' /\ push'[thread'[c].row] = thread'[c].e
      BY <1>0, <2>1, <2>3 DEF ThreadHeld, Holds
    <3> QED
      BY <1>0, <2>1, <2>3, <2>4, <3>2 DEF ThreadHeld, Holds, Known
  <2>6. \A u \in Threads : ThreadHeld(u)'
    <3> SUFFICES ASSUME NEW u \in Threads, u # c PROVE ThreadHeld(u)'
      BY <2>5
    <3> QED
      BY <2>1, <2>2, <2>3, ThreadHeldStays DEF Only, RowsHeld
  <2> QED
    BY <2>1, <2>2, <2>6, HeldStep
<1>9. CASE InsertMessageInbox(c)
  <2> DEFINE e == thread[c].e
  <2>1. /\ UNCHANGED <<push, session, stored, adding, log>> /\ thread[c].pc = "show"
        /\ inbox' = Append(inbox, e) /\ Goto(c, "delete")
    BY <1>9 DEF InsertMessageInbox, jobVars, restVars
  <2>2. \A x : Known(x) => Known(x)'
    BY <2>1, KnownStays
  <2>3. \A row, x : Holds(row, x) => Holds(row, x)'
    BY <2>1 DEF Holds
  <2>4. \A row, x : Held(row, x) => Held(row, x)'
    BY <2>2, <2>3 DEF Held
  <2>5. /\ Only(c) /\ thread'[c].pc = "delete" /\ thread'[c].e = e
        /\ thread'[c].row = thread[c].row /\ thread'[c].job = thread[c].job
    BY <1>0, <2>1, GotoFacts
  <2>6. e \in Shown'
    <3>1. inbox \in Seq(Envelopes \cup {e})
      BY DEF Typed, TypeOK
    <3>2. Len(inbox) + 1 \in DOMAIN inbox' /\ inbox'[Len(inbox) + 1] = e
      BY <2>1, <3>1
    <3> QED
      BY <3>2 DEF Shown, ToSet
  <2>7. ThreadHeld(c)'
    BY <1>0, <2>1, <2>5, <2>6 DEF ThreadHeld, Holds, Known
  <2>8. \A u \in Threads : ThreadHeld(u)'
    <3> SUFFICES ASSUME NEW u \in Threads, u # c PROVE ThreadHeld(u)'
      BY <2>7
    <3> QED
      BY <2>1, <2>2, <2>3, <2>4, <2>5, ThreadHeldStays DEF Only, RowsHeld
  <2> QED
    BY <2>1, <2>4, <2>8, HeldStep
<1>10. CASE DeleteRow(c)
  <2> DEFINE r == thread[c].row
             e == thread[c].e
             j == thread[c].job
  <2>1. /\ UNCHANGED <<session, inbox, stored, adding, log>> /\ thread[c].pc = "delete"
        /\ push' = [i \in DOMAIN push \ {r} |-> push[i]] /\ Goto(c, "done")
    BY <1>10 DEF DeleteRow, jobVars, restVars
  <2>2. Holds(r, e) /\ Known(e) /\ r = j.row
    BY <1>0, <2>1 DEF ThreadHeld
  <2>3. \A x : Known(x) => Known(x)'
    BY <2>1 DEF Known, Shown, ToSet
  <2>4. \A row, x : Held(row, x) => Held(row, x)'
    BY <2>1, <2>2, <2>3 DEF Held, Holds
  <2>5. Known(j.e)
    <3>1. PICK m \in DOMAIN stored : Same(stored[m], j)
      BY <1>0, <2>1, DecryptsAlone, RunsStored
    <3>2. Held(j.row, j.e)
      BY <1>0, <2>1, <3>1, DecryptsAlone DEF Same, RowsHeld
    <3> QED
      BY <2>2, <3>2 DEF Held, Holds
  <2>6. Only(c) /\ thread'[c].pc = "done" /\ thread'[c].job = j
    BY <1>0, <2>1, GotoFacts
  <2>7. ThreadHeld(c)'
    BY <2>3, <2>5, <2>6 DEF ThreadHeld, Known
  <2>8. \A u \in Threads : ThreadHeld(u)'
    <3> SUFFICES ASSUME NEW u \in Threads, u # c PROVE ThreadHeld(u)'
      BY <2>7
    <3>1. thread[u].pc \notin {"decrypt", "show", "delete"}
      BY <1>0, <2>1, DecryptsAlone
    <3> QED
      BY <2>1, <2>3, <2>4, <2>6, <3>1, ThreadHeldStays DEF Only, RowsHeld
  <2> QED
    BY <2>1, <2>4, <2>8, HeldStep
<1>11. CASE FinishJob(c)
  <2>1. UNCHANGED <<push, session, inbox, adding, log>> /\ To(c, Rest)
    BY <1>11 DEF FinishJob, dataVars, restVars, To
  <2>2. Only(c) /\ thread'[c].pc = "idle"
    BY <1>0, <2>1, SetFacts DEF Rest
  <2>3. \A n \in DOMAIN stored' : \E m \in DOMAIN stored : stored'[n] = stored[m]
    BY <1>11, FinishStored
  <2> QED
    BY <2>1, <2>2, <2>3, HeldQuiet DEF Only
<1> QED
  BY <1>2, <1>3, <1>4, <1>5, <1>6, <1>7, <1>8, <1>9, <1>10, <1>11 DEF JobStep

LEMMA HeldNext ==
  ASSUME Typed, Jobs, RowsHeld, [Next]_vars
  PROVE  RowsHeld'
<1>0. /\ Service \in Threads /\ adding \in Seq(SoundJob) /\ log \in Logs
      /\ stored \in Seq(SoundJob) /\ Service \notin Consumers
  BY ConsumersAssumption DEF Typed, Threads
<1>1. ASSUME UNCHANGED <<push, session, inbox, stored, log>>,
             \/ adding' = adding
             \/ \E j : j.kind # "decrypt" /\ adding' = Append(adding, j),
             \A t \in Threads : thread'[t] = thread[t] \/ thread'[t].pc \in {"check", "wait", "read", "find", "run"}
      PROVE  RowsHeld'
  <2>1. ASSUME NEW j, j.kind # "decrypt", adding' = Append(adding, j)
        PROVE  \A n \in DOMAIN adding' : \/ \E m \in DOMAIN adding : adding'[n] = adding[m]
                                         \/ adding'[n].kind # "decrypt"
    <3>1. adding \in Seq(SoundJob \cup {j})
      BY <1>0
    <3> QED
      BY <2>1, <3>1
  <2>2. \A n \in DOMAIN adding' : \/ \E m \in DOMAIN adding : adding'[n] = adding[m]
                                  \/ adding'[n].kind # "decrypt"
    BY <1>1, <2>1
  <2> QED
    BY <1>1, <2>2, HeldQuiet
<1>2. CASE Arrive \/ LoseNetwork \/ UNCHANGED vars
  BY <1>1, <1>2 DEF Arrive, LoseNetwork, vars, dataVars, jobVars, restVars
<1>3. CASE ReceivedMessage
  <2>1. PushContentReceiveJob(arrived + 1).kind = "content"
    BY DEF PushContentReceiveJob, NoJob
  <2> QED
    BY <1>1, <1>3, <2>1 DEF ReceivedMessage, restVars
<1>4. CASE ReceivedNotification
  <2>1. PushNotificationReceiveJob.kind = "fetch"
    BY DEF PushNotificationReceiveJob, NoJob
  <2> QED
    BY <1>1, <1>4, <2>1 DEF ReceivedNotification, dataVars
<1>5. CASE IncrementActive \/ DecrementActive \/ RegainNetwork
  <2>1. NotifyAll /\ UNCHANGED <<push, session, inbox, stored, log, adding>>
    BY <1>5 DEF IncrementActive, DecrementActive, RegainNetwork, dataVars, jobVars
  <2>2. \A t \in Threads : thread'[t] = thread[t] \/ thread'[t].pc \in {"check", "wait", "read", "find", "run"}
    BY <1>0, <2>1, NotifyFacts DEF Only
  <2> QED
    BY <1>1, <2>1, <2>2
<1>6. CASE StoreJob
  <2> DEFINE j == [Head(adding) EXCEPT !.id = lastId + 1]
  <2>1. /\ UNCHANGED <<push, session, inbox, log, thread>> /\ adding' = Tail(adding) /\ adding # <<>>
        /\ stored' = stored \/ stored' = Append(stored, j)
    BY <1>6 DEF StoreJob, dataVars, restVars
  <2>2. 1 \in DOMAIN adding /\ Head(adding) = adding[1] /\ Head(adding) \in SoundJob
    BY <1>0, <2>1
  <2>3. j.kind = adding[1].kind /\ j.row = adding[1].row /\ j.e = adding[1].e /\ j \in SoundJob
    <3>1. j.kind = adding[1].kind /\ j.row = adding[1].row /\ j.e = adding[1].e
      BY <2>2 DEF SoundJob, Job
    <3> QED
      <4>1. lastId + 1 \in Nat
        BY DEF Typed, TypeOK
      <4> QED
        BY <2>2, <3>1, <4>1, JobTypes
  <2> HIDE DEF j
  <2>4. j.kind = "decrypt" => Held(j.row, j.e)
    BY <2>2, <2>3 DEF RowsHeld
  <2>5. \A n \in DOMAIN stored' : stored'[n].kind = "decrypt" =>
          \/ \E m \in DOMAIN stored : stored'[n] = stored[m]
          \/ Held(stored'[n].row, stored'[n].e)
    BY <1>0, <2>1, <2>3, <2>4
  <2>6. \A n \in DOMAIN adding' : \E m \in DOMAIN adding : adding'[n] = adding[m]
    <3>1. \A n \in DOMAIN adding' : n + 1 \in DOMAIN adding /\ adding'[n] = adding[n + 1]
      BY <1>0, <2>1
    <3> QED
      BY <3>1
  <2> QED
    BY <2>1, <2>5, <2>6, HeldQuiet
<1>7. ASSUME NEW t \in Threads, HandleStep(t) PROVE RowsHeld'
  BY <1>7, HeldHandle
<1>8. CASE ServiceStep
  <2>1. UNCHANGED <<push, session, inbox, stored, log, adding>>
    BY <1>8 DEF ServiceStep, CheckConnection, Read, ReadEnds, dataVars, jobVars, restVars
  <2>2. \/ \E pc \in {"check", "wait", "read"} : Goto(Service, pc)
        \/ ToEnvelope(Service, "find", Min(server))
    BY <1>8 DEF ServiceStep, CheckConnection, Read, ReadEnds, ToEnvelope
  <2>3. Only(Service) /\ thread'[Service].pc \in {"check", "wait", "read", "find"}
    BY <1>0, <2>2, GotoFacts, EnvelopeFacts
  <2> QED
    BY <1>1, <2>1, <2>3 DEF Only
<1>9. ASSUME NEW c \in Consumers, TakeJob(c) PROVE RowsHeld'
  <2>1. UNCHANGED <<push, session, inbox, stored, log, adding>> /\ c \in Threads
    BY <1>9 DEF TakeJob, dataVars, restVars, Threads
  <2>2. PICK j : To(c, [Rest EXCEPT !.pc = "run", !.job = j])
    BY <1>9 DEF TakeJob, To
  <2>3. [Rest EXCEPT !.pc = "run", !.job = j].pc = "run"
    BY DEF Rest
  <2>4. Only(c) /\ thread'[c].pc = "run"
    BY <2>1, <2>2, <2>3, SetFacts
  <2> QED
    BY <1>1, <2>1, <2>4 DEF Only
<1>10. ASSUME NEW c \in Consumers, JobStep(c) PROVE RowsHeld'
  BY <1>10, HeldJob
<1>11. CASE Crash
  <2>1. /\ UNCHANGED <<push, session, inbox, stored>> /\ adding' = <<>>
        /\ thread' = [t \in Threads |-> IF t = Service THEN Start ELSE Rest]
        /\ log.astray \subseteq log'.astray
    BY <1>0, <1>11 DEF Crash, dataVars, Logs
  <2>2. \A t \in Threads : thread'[t].pc \in {"check", "idle"}
    BY <2>1 DEF Start, Rest
  <2> QED
    BY <2>1, <2>2, HeldQuiet
<1> QED
  BY <1>2, <1>3, <1>4, <1>5, <1>6, <1>7, <1>8, <1>9, <1>10, <1>11 DEF Next

-----------------------------------------------------------------------------
(* Through which channel an envelope came                                  *)

LEMMA ChannelStep ==
  ASSUME Typed, Channels, arrived' \in Nat, arrived' >= arrived,
         server' \subseteq 1..arrived' \ Direct,
         \A row \in DOMAIN push' : push'[row] \in 1..arrived',
         log'.lost \subseteq 1..arrived',
         \A t \in Threads : thread'[t] = thread[t] \/ ThreadChannel(t)'
  PROVE  Channels'
<1>1. arrived \in Nat /\ 1..arrived \subseteq 1..arrived'
  BY DEF Typed, TypeOK
<1>2. ASSUME NEW t \in Threads, thread'[t] = thread[t] PROVE ThreadChannel(t)'
  BY <1>1, <1>2 DEF Channels, ThreadChannel, Handling
<1> QED
  BY <1>2 DEF Channels

(* Steps that bring no new envelope.                                       *)
LEMMA ChannelQuiet ==
  ASSUME Typed, Channels, UNCHANGED <<arrived, push>>, server' \subseteq server,
         log'.lost \subseteq 1..arrived,
         \A t \in Threads :
           \/ thread'[t] = thread[t]
           \/ /\ thread'[t].pc \in Handling =>
                   /\ thread'[t].e \in 1..arrived
                   /\ thread'[t].job.kind = "content" => thread'[t].e = thread'[t].job.e
                   /\ thread'[t].job.kind # "content" => thread'[t].e \notin Direct
              /\ \A k \in DOMAIN thread'[t].todo : thread'[t].todo[k] \in 1..arrived \ Direct
  PROVE  Channels'
<1>1. arrived \in Nat /\ arrived' = arrived /\ arrived' >= arrived
  BY DEF Typed, TypeOK
<1>2. \A t \in Threads : thread'[t] = thread[t] \/ ThreadChannel(t)'
  BY DEF ThreadChannel
<1>3. server' \subseteq 1..arrived' \ Direct /\ \A row \in DOMAIN push' : push'[row] \in 1..arrived'
  BY DEF Channels
<1> QED
  BY <1>1, <1>2, <1>3, ChannelStep

LEMMA ChannelHandle ==
  ASSUME Typed, Jobs, Channels, NEW t \in Threads, HandleStep(t)
  PROVE  Channels'
<1>0. /\ log \in Logs /\ thread[t] \in SoundThread /\ log.lost \subseteq 1..arrived /\ arrived \in Nat
      /\ thread[t].pc \in Handling /\ ThreadChannel(t)
  BY HandlerNowhere DEF Typed, TypeOK, Channels, Handling
<1>1. ASSUME UNCHANGED <<arrived, push>>, server' \subseteq server, log'.lost = log.lost,
             Only(t), thread'[t].e = thread[t].e, thread'[t].job = thread[t].job,
             thread'[t].todo = thread[t].todo
      PROVE  Channels'
  BY <1>0, <1>1, ChannelQuiet DEF Only, ThreadChannel
<1>2. ASSUME UNCHANGED <<arrived, push>>, server' \subseteq server, log'.lost = log.lost,
             Only(t), thread'[t].pc \notin Handling,
             thread'[t].todo = <<>> \/ thread'[t].todo = thread[t].todo
      PROVE  Channels'
  BY <1>0, <1>2, ChannelQuiet DEF Only, ThreadChannel
<1>3. ASSUME NEW blocked \in Blocking, Find(t, blocked) PROVE Channels'
  <2>1. UNCHANGED <<arrived, push, server>> /\ log'.lost = log.lost
    BY <1>0, <1>3 DEF Find, dataVars, Logs
  <2>2. Goto(t, Handled(t)) \/ Goto(t, "insert") \/ ToRow(t, "add", Min(RowsOf(thread[t].e)))
    BY <1>3 DEF Find, ToRow
  <2> QED
    BY <1>1, <2>1, <2>2, GotoFacts, RowFacts
<1>4. CASE InsertRow(t)
  <2>1. /\ push' = [i \in DOMAIN push \cup {NewRow} |-> IF i = NewRow THEN thread[t].e ELSE push[i]]
        /\ UNCHANGED <<arrived, server, log>> /\ ToRow(t, "add", NewRow)
    BY <1>4 DEF InsertRow, restVars, ToRow
  <2>2. \A row \in DOMAIN push' : push'[row] \in 1..arrived'
    BY <1>0, <2>1 DEF Channels, ThreadChannel
  <2>3. thread'[t].e = thread[t].e /\ thread'[t].job = thread[t].job /\ thread'[t].todo = thread[t].todo
    BY <2>1, RowFacts
  <2>4. ThreadChannel(t)'
    BY <1>0, <2>1, <2>3 DEF ThreadChannel
  <2>5. \A u \in Threads : thread'[u] = thread[u] \/ ThreadChannel(u)'
    BY <2>1, <2>4, RowFacts DEF Only
  <2> QED
    BY <1>0, <2>1, <2>2, <2>5, ChannelStep DEF Channels
<1>5. CASE AddDecryptJob(t) \/ AddReceiptJob(t)
  <2>1. UNCHANGED <<arrived, push, server, log>> /\ \E pc : Goto(t, pc)
    BY <1>5 DEF AddDecryptJob, AddReceiptJob, dataVars, restVars
  <2> QED
    BY <1>1, <2>1, GotoFacts
<1>6. CASE Acknowledge(t)
  <2>1. UNCHANGED <<arrived, push, log>> /\ server' \subseteq server /\ thread[t].pc = "ack"
    BY <1>6 DEF Acknowledge, restVars
  <2>2. CASE To(t, Start)
    BY <1>2, <2>1, <2>2, SetFacts DEF Start, Rest, Handling
  <2>3. CASE Goto(t, "done")
    BY <1>1, <2>1, <2>3, GotoFacts
  <2>4. CASE ToList(t, "find", Head(thread[t].todo), Tail(thread[t].todo)) /\ thread[t].todo # <<>>
    <3>1. thread[t].todo \in Seq(Envelopes)
      BY <1>0 DEF SoundThread, Thread
    <3>2. Head(thread[t].todo) \in 1..arrived \ Direct
      BY <1>0, <2>4, <3>1 DEF ThreadChannel
    <3>3. \A k \in DOMAIN Tail(thread[t].todo) :
            Tail(thread[t].todo)[k] = thread[t].todo[k + 1] /\ k + 1 \in DOMAIN thread[t].todo
      BY <2>4, <3>1
    <3>4. \A k \in DOMAIN Tail(thread[t].todo) : Tail(thread[t].todo)[k] \in 1..arrived \ Direct
      BY <1>0, <3>3 DEF ThreadChannel
    <3>5. /\ Only(t) /\ thread'[t].e = Head(thread[t].todo) /\ thread'[t].todo = Tail(thread[t].todo)
          /\ thread'[t].job = thread[t].job
      BY <2>4, ListFacts
    <3>6. thread[t].job.kind # "content"
      BY <2>1, HandlerPlaces
    <3> QED
      BY <1>0, <2>1, <3>2, <3>4, <3>5, <3>6, ChannelQuiet DEF Only
  <2>5. DOMAIN thread[t] = {"pc", "job", "e", "row", "todo"}
    BY <1>0 DEF SoundThread, Thread
  <2> QED
    BY <1>6, <2>2, <2>3, <2>4, <2>5 DEF Acknowledge, To, ToList
<1>7. CASE LoseAck(t)
  <2>1. UNCHANGED <<arrived, push, log>> /\ server' \subseteq server
    BY <1>7 DEF LoseAck
  <2>2. CASE To(t, Start)
    BY <1>2, <2>1, <2>2, SetFacts DEF Start, Rest, Handling
  <2>3. CASE RetryLater(t)
    BY <1>2, <2>1, <2>3, RetryFacts DEF Handling
  <2> QED
    BY <1>7, <2>2, <2>3 DEF LoseAck, To
<1> QED
  BY <1>3, <1>4, <1>5, <1>6, <1>7 DEF HandleStep

LEMMA ChannelJob ==
  ASSUME Typed, Jobs, Channels, NEW c \in Consumers, JobStep(c)
  PROVE  Channels'
<1>0. /\ log \in Logs /\ log.lost \subseteq 1..arrived /\ arrived \in Nat
      /\ c \in Threads /\ ThreadChannel(c)
  BY DEF Typed, TypeOK, Channels, Threads
<1>1. ASSUME UNCHANGED <<arrived, push, server>>, log'.lost = log.lost,
             Only(c), thread'[c].pc \notin Handling,
             thread'[c].todo = <<>> \/ thread'[c].todo = thread[c].todo
      PROVE  Channels'
  BY <1>0, <1>1, ChannelQuiet DEF Only, ThreadChannel
<1>2. CASE RetrieveMessages(c)
  <2>1. UNCHANGED <<arrived, push, server, log>> /\ thread[c].job.kind = "fetch"
    BY <1>2 DEF RetrieveMessages, Run, dataVars, restVars
  <2>2. CASE Goto(c, "done")
    BY <1>0, <1>1, <2>1, <2>2, GotoFacts DEF Handling
  <2>3. ASSUME NEW list \in InOrder(server), list # <<>>, ToList(c, "find", Head(list), Tail(list))
        PROVE  Channels'
    <3>1. list \in Seq(Envelopes) /\ \A k \in DOMAIN list : list[k] \in server
      BY ListType DEF ToSet
    <3>2. Head(list) \in server /\ \A k \in DOMAIN Tail(list) : Tail(list)[k] \in server
      <4>1. \A k \in DOMAIN Tail(list) : Tail(list)[k] = list[k + 1] /\ k + 1 \in DOMAIN list
        BY <2>3, <3>1
      <4> QED
        BY <2>3, <3>1, <4>1
    <3>3. /\ Only(c) /\ thread'[c].e = Head(list) /\ thread'[c].todo = Tail(list)
          /\ thread'[c].job = thread[c].job
      BY <1>0, <2>3, ListFacts
    <3> QED
      BY <1>0, <2>1, <3>2, <3>3, ChannelQuiet DEF Only, Channels
  <2> QED
    BY <1>2, <2>2, <2>3 DEF RetrieveMessages, ToList
<1>3. CASE RetrieveFails(c)
  <2>1. UNCHANGED <<arrived, push, server, log>> /\ RetryLater(c)
    BY <1>3 DEF RetrieveFails, dataVars
  <2> QED
    BY <1>0, <1>1, <2>1, RetryFacts DEF Handling
<1>4. CASE ReadContent(c)
  <2>1. /\ UNCHANGED <<arrived, push, server, log>> /\ thread[c].pc = "run"
        /\ thread[c].job.kind = "content" /\ ToEnvelope(c, "find", thread[c].job.e)
    BY <1>4 DEF ReadContent, Run, dataVars, restVars, ToEnvelope
  <2>2. thread[c].job.e \in 1..arrived
    <3>1. c \in Busy
      BY <2>1 DEF Busy
    <3> QED
      BY <2>1, <3>1 DEF Jobs, JobsFormed, Formed
  <2>3. /\ Only(c) /\ thread'[c].e = thread[c].job.e /\ thread'[c].job = thread[c].job
        /\ thread'[c].todo = thread[c].todo
    BY <1>0, <2>1, EnvelopeFacts
  <2> QED
    BY <1>0, <2>1, <2>2, <2>3, ChannelQuiet DEF Only, ThreadChannel
<1>5. CASE SendReceipt(c)
  <2>1. UNCHANGED <<arrived, push, server>> /\ Goto(c, "done") /\ log'.lost = log.lost
    BY <1>0, <1>5 DEF SendReceipt, dataVars, Logs
  <2> QED
    BY <1>0, <1>1, <2>1, GotoFacts DEF Handling
<1>6. CASE ReceiptFails(c)
  <2>1. UNCHANGED <<arrived, push, server>> /\ RetryLater(c) /\ log'.lost = log.lost
    BY <1>0, <1>6 DEF ReceiptFails, dataVars, Logs
  <2> QED
    BY <1>0, <1>1, <2>1, RetryFacts DEF Handling
<1>7. CASE GetRow(c)
  <2>1. UNCHANGED <<arrived, push, server>> /\ log'.lost = log.lost
    BY <1>0, <1>7 DEF GetRow, dataVars, Logs
  <2>2. Goto(c, "done") \/ ToBoth(c, "decrypt", thread[c].job.row, push[thread[c].job.row])
    BY <1>7 DEF GetRow, ToBoth
  <2> QED
    BY <1>0, <1>1, <2>1, <2>2, GotoFacts, GetFacts DEF Handling
<1>8. CASE Decrypt(c) \/ InsertMessageInbox(c)
  <2>1. UNCHANGED <<arrived, push, server, log>> /\ (Goto(c, "show") \/ Goto(c, "delete"))
    BY <1>8 DEF Decrypt, InsertMessageInbox, restVars
  <2> QED
    BY <1>0, <1>1, <2>1, GotoFacts DEF Handling
<1>9. CASE DeleteRow(c)
  <2>1. /\ UNCHANGED <<arrived, server, log>> /\ Goto(c, "done")
        /\ push' = [i \in DOMAIN push \ {thread[c].row} |-> push[i]]
    BY <1>9 DEF DeleteRow, restVars
  <2>2. \A row \in DOMAIN push' : push'[row] \in 1..arrived'
    BY <2>1 DEF Channels
  <2>3. ThreadChannel(c)'
    <3>1. thread'[c].pc \notin Handling /\ thread'[c].todo = thread[c].todo
      BY <1>0, <2>1, GotoFacts DEF Handling
    <3> QED
      BY <1>0, <2>1, <3>1 DEF ThreadChannel
  <2>4. \A u \in Threads : thread'[u] = thread[u] \/ ThreadChannel(u)'
    BY <1>0, <2>1, <2>3, GotoFacts DEF Only
  <2> QED
    BY <1>0, <2>1, <2>2, <2>4, ChannelStep DEF Channels
<1>10. CASE FinishJob(c)
  <2>1. UNCHANGED <<arrived, push, server, log>> /\ To(c, Rest)
    BY <1>10 DEF FinishJob, dataVars, restVars, To
  <2>2. Only(c) /\ thread'[c].pc = "idle" /\ thread'[c].todo = <<>>
    BY <1>0, <2>1, SetFacts DEF Rest
  <2> QED
    BY <1>1, <2>1, <2>2 DEF Handling
<1> QED
  BY <1>2, <1>3, <1>4, <1>5, <1>6, <1>7, <1>8, <1>9, <1>10 DEF JobStep

LEMMA ChannelNext ==
  ASSUME Typed, Jobs, Channels, [Next]_vars
  PROVE  Channels'
<1>0. /\ log \in Logs /\ log.lost \subseteq 1..arrived /\ arrived \in Nat /\ Service \in Threads
      /\ ThreadChannel(Service) /\ adding \in Seq(SoundJob) /\ thread[Service] \in SoundThread
      /\ server \subseteq 1..arrived
  BY DEF Typed, TypeOK, Channels, Threads
<1>1. ASSUME UNCHANGED <<arrived, push, server, log>>,
             \A t \in Threads : \/ thread'[t] = thread[t]
                                \/ thread'[t].pc \notin Handling /\ thread'[t].todo \in {<<>>, thread[t].todo}
      PROVE  Channels'
  BY <1>0, <1>1, ChannelQuiet DEF ThreadChannel, Channels
<1>2. CASE ReceivedNotification \/ LoseNetwork \/ StoreJob \/ UNCHANGED vars
  <2>1. UNCHANGED <<arrived, push, server, log, thread>>
    BY <1>2 DEF ReceivedNotification, LoseNetwork, StoreJob, vars, dataVars, jobVars, restVars
  <2> QED
    BY <1>1, <2>1
<1>3. CASE Arrive \/ ReceivedMessage
  <2>1. /\ arrived' = arrived + 1 /\ UNCHANGED <<push, log, thread>>
        /\ server' = server \/ (server' = server \cup {arrived + 1} /\ arrived + 1 \notin Direct)
    BY <1>3 DEF Arrive, ReceivedMessage, restVars
  <2>2. server' \subseteq 1..arrived' \ Direct /\ log'.lost \subseteq 1..arrived'
    <3>1. 1..arrived \subseteq 1..arrived' /\ arrived + 1 \in 1..arrived' /\ log'.lost = log.lost
      BY <1>0, <2>1
    <3>2. server \subseteq 1..arrived \ Direct
      BY DEF Channels
    <3> QED
      BY <1>0, <2>1, <3>1, <3>2
  <2>3. \A row \in DOMAIN push' : push'[row] \in 1..arrived'
    BY <1>0, <2>1 DEF Channels
  <2> QED
    BY <1>0, <2>1, <2>2, <2>3, ChannelStep
<1>4. CASE IncrementActive \/ DecrementActive \/ RegainNetwork
  <2>1. NotifyAll /\ UNCHANGED <<arrived, push, server, log>>
    BY <1>4 DEF IncrementActive, DecrementActive, RegainNetwork, dataVars
  <2> QED
    BY <1>1, <2>1, NotifyFacts DEF Only, Handling
<1>5. ASSUME NEW t \in Threads, HandleStep(t) PROVE Channels'
  BY <1>5, ChannelHandle
<1>6. CASE CheckConnection \/ ReadEnds
  <2>1. UNCHANGED <<arrived, push, server, log>> /\ \E pc \in {"check", "wait", "read"} : Goto(Service, pc)
    BY <1>6 DEF CheckConnection, ReadEnds, dataVars, restVars
  <2>2. Only(Service) /\ thread'[Service].pc \notin Handling /\ thread'[Service].todo = thread[Service].todo
    BY <1>0, <2>1, GotoFacts DEF Handling
  <2> QED
    BY <1>1, <2>1, <2>2 DEF Only
<1>7. CASE Read
  <2>1. /\ UNCHANGED <<arrived, push, server, log>> /\ server # {}
        /\ ToEnvelope(Service, "find", Min(server))
    BY <1>7 DEF Read, dataVars, restVars, ToEnvelope
  <2>2. Min(server) \in server
    BY <2>1, OldestFound
  <2>3. /\ Only(Service) /\ thread'[Service].e = Min(server) /\ thread'[Service].job = thread[Service].job
        /\ thread'[Service].todo = thread[Service].todo
    BY <1>0, <2>1, EnvelopeFacts
  <2>4. thread[Service].job.kind # "content"
    BY DEF Jobs, InPlace, NoJob
  <2>5. Min(server) \in 1..arrived \ Direct
    BY <2>2 DEF Channels
  <2>6. \A k \in DOMAIN thread[Service].todo : thread[Service].todo[k] \in 1..arrived \ Direct
    BY <1>0 DEF Channels, ThreadChannel
  <2>7. ThreadChannel(Service)'
    BY <2>1, <2>3, <2>4, <2>5, <2>6 DEF ThreadChannel
  <2>8. \A t \in Threads : t # Service => thread'[t] = thread[t]
    BY <2>3 DEF Only
  <2>9. arrived' \in Nat /\ arrived' >= arrived
    BY <1>0, <2>1 DEF Typed, TypeOK
  <2>10. /\ server' \subseteq 1..arrived' \ Direct
         /\ \A row \in DOMAIN push' : push'[row] \in 1..arrived'
         /\ log'.lost \subseteq 1..arrived'
    BY <2>1 DEF Channels
  <2> QED
    BY <2>7, <2>8, <2>9, <2>10, ChannelStep
<1>8. ASSUME NEW c \in Consumers, TakeJob(c) PROVE Channels'
  <2>1. UNCHANGED <<arrived, push, server, log>> /\ c \in Threads
    BY <1>8 DEF TakeJob, dataVars, restVars, Threads
  <2>2. PICK j : To(c, [Rest EXCEPT !.pc = "run", !.job = j])
    BY <1>8 DEF TakeJob, To
  <2>3. [Rest EXCEPT !.pc = "run", !.job = j].pc = "run" /\ [Rest EXCEPT !.pc = "run", !.job = j].todo = <<>>
    BY DEF Rest
  <2>4. Only(c) /\ thread'[c].pc = "run" /\ thread'[c].todo = <<>>
    BY <2>1, <2>2, <2>3, SetFacts
  <2> QED
    BY <1>1, <2>1, <2>4 DEF Only, Handling
<1>9. ASSUME NEW c \in Consumers, JobStep(c) PROVE Channels'
  BY <1>9, ChannelJob
<1>10. CASE Crash
  <2>1. /\ UNCHANGED <<arrived, push, server>>
        /\ thread' = [t \in Threads |-> IF t = Service THEN Start ELSE Rest]
        /\ log'.lost = log.lost \cup {j.e : j \in InAdding("content")}
    BY <1>0, <1>10 DEF Crash, dataVars, Logs
  <2>2. \A t \in Threads : thread'[t].pc \notin Handling /\ thread'[t].todo = <<>>
    BY <2>1 DEF Start, Rest, Handling
  <2>3. {j.e : j \in InAdding("content")} \subseteq 1..arrived
    BY DEF InAdding, ToSet, Jobs, JobsFormed, Formed
  <2> QED
    BY <1>0, <2>1, <2>2, <2>3, ChannelQuiet
<1> QED
  BY <1>2, <1>3, <1>4, <1>5, <1>6, <1>7, <1>8, <1>9, <1>10 DEF Next, ServiceStep

-----------------------------------------------------------------------------
(* What was lost with a GCM message was not seen                           *)

(* The content job of a thread that handles an envelope is stored.         *)
LEMMA HandledTouched ==
  ASSUME Typed, Jobs, Channels, NEW t \in Threads, thread[t].pc \in Handling
  PROVE  ~Untouched(thread[t].e)
<1>0. ThreadChannel(t) /\ thread[t].pc \in {"find", "insert", "add", "receipt", "ack"}
  BY DEF Channels, Handling
<1>1. CASE thread[t].job.kind # "content"
  BY <1>0, <1>1 DEF ThreadChannel, Untouched, Handling
<1>2. CASE thread[t].job.kind = "content"
  <2>1. t \in Consumers
    BY <1>2 DEF Threads, Jobs, InPlace, NoJob
  <2>2. PICK m \in DOMAIN stored : Same(stored[m], thread[t].job)
    BY <1>0, <1>2, <2>1, RunsStored
  <2>3. stored[m].kind = "content" /\ stored[m].e = thread[t].e
    BY <1>0, <1>2, <2>2 DEF Same, ThreadChannel, Handling
  <2> QED
    BY <2>3 DEF Untouched
<1> QED
  BY <1>1, <1>2

(* No step but its own makes a row of an envelope or stores its job.       *)
LEMMA LostQuiet ==
  ASSUME Typed, LostUnseen, log'.lost = log.lost,
         \A row \in DOMAIN push' :
           \/ \E r \in DOMAIN push : push'[row] = push[r]
           \/ ~Untouched(push'[row]),
         \A n \in DOMAIN stored' : stored'[n].kind = "content" =>
           \E m \in DOMAIN stored : stored'[n] = stored[m],
         \/ adding' = adding
         \/ \E j : j.kind # "content" /\ adding' = Append(adding, j)
  PROVE  LostUnseen'
<1>1. \A e : Untouched(e) => Untouched(e)'
  BY DEF Untouched
<1>2. \A n \in DOMAIN adding' : adding'[n].kind = "content" => n \in DOMAIN adding /\ adding'[n] = adding[n]
  <2>1. ASSUME NEW j, j.kind # "content", adding' = Append(adding, j)
        PROVE  \A n \in DOMAIN adding' : adding'[n].kind = "content" => n \in DOMAIN adding /\ adding'[n] = adding[n]
    <3>1. adding \in Seq(SoundJob \cup {j})
      BY DEF Typed
    <3> QED
      BY <2>1, <3>1
  <2> QED
    BY <2>1
<1>3. \A n \in DOMAIN adding' : adding'[n].kind = "content" => (Untouched(adding[n].e))'
  <2> SUFFICES ASSUME NEW n \in DOMAIN adding', adding'[n].kind = "content"
               PROVE  (Untouched(adding[n].e))'
    OBVIOUS
  <2>1. n \in DOMAIN adding /\ adding'[n] = adding[n] /\ Untouched(adding[n].e)
    BY <1>2 DEF LostUnseen
  <2> QED
    BY <2>1 DEF Untouched
<1>4. \A e \in log'.lost : Untouched(e)'
  BY <1>1 DEF LostUnseen
<1> QED
  BY <1>2, <1>3, <1>4 DEF LostUnseen

LEMMA LostNext ==
  ASSUME Typed, Jobs, Channels, LostUnseen, [Next]_vars
  PROVE  LostUnseen'
<1>0. /\ log \in Logs /\ adding \in Seq(SoundJob) /\ stored \in Seq(SoundJob)
      /\ arrived \in Nat /\ \A c \in Consumers : c \in Threads
  BY DEF Typed, TypeOK, Threads
<1>1. ASSUME log'.lost = log.lost, UNCHANGED <<push, stored>>,
             \/ adding' = adding
             \/ \E j : j.kind # "content" /\ adding' = Append(adding, j)
      PROVE  LostUnseen'
  BY <1>1, LostQuiet
<1>2. CASE Arrive \/ IncrementActive \/ DecrementActive \/ LoseNetwork \/ RegainNetwork \/ UNCHANGED vars
  <2>1. UNCHANGED <<log, push, stored, adding>>
    BY <1>2 DEF Arrive, IncrementActive, DecrementActive, LoseNetwork, RegainNetwork, vars,
       dataVars, jobVars, restVars
  <2> QED
    BY <1>1, <2>1
<1>3. CASE ReceivedMessage
  <2> DEFINE j == PushContentReceiveJob(arrived + 1)
  <2>1. UNCHANGED <<push, stored, log>> /\ adding' = Append(adding, j) /\ arrived + 1 \in Direct
    BY <1>3 DEF ReceivedMessage, restVars
  <2>2. j.e = arrived + 1
    BY DEF PushContentReceiveJob, NoJob
  <2> HIDE DEF j
  <2>3. Untouched(arrived + 1) /\ arrived + 1 \notin log.lost
    <3>1. arrived + 1 \notin 1..arrived
      BY <1>0
    <3>2. \A row \in DOMAIN push : push[row] # arrived + 1
      BY <3>1 DEF Channels
    <3>3. \A n \in DOMAIN stored : stored[n].kind = "content" => stored[n].e # arrived + 1
      BY <3>1 DEF Jobs, JobsFormed, Formed
    <3> QED
      BY <2>1, <3>1, <3>2, <3>3 DEF Untouched, Channels
  <2>4. \A n \in DOMAIN adding : adding[n].kind = "content" => adding[n].e # arrived + 1
    BY <1>0 DEF Jobs, JobsFormed, Formed
  <2>5. /\ DOMAIN adding' = DOMAIN adding \cup {Len(adding) + 1}
        /\ \A n \in DOMAIN adding : adding'[n] = adding[n]
        /\ adding'[Len(adding) + 1] = j
    <3>1. adding \in Seq(SoundJob \cup {j})
      BY <1>0
    <3> QED
      BY <2>1, <3>1
  <2>6. \A e : Untouched(e) <=> Untouched(e)'
    BY <2>1 DEF Untouched
  <2>7. \A n \in DOMAIN adding' : adding'[n].kind = "content" =>
          /\ (Untouched(adding[n].e))' /\ adding'[n].e \notin log'.lost
          /\ \A m \in DOMAIN adding' : adding'[m].kind = "content" /\ adding'[m].e = adding'[n].e => m = n
    <3> SUFFICES ASSUME NEW n \in DOMAIN adding', adding'[n].kind = "content"
                 PROVE  /\ (Untouched(adding[n].e))' /\ adding'[n].e \notin log'.lost
                        /\ \A m \in DOMAIN adding' :
                             adding'[m].kind = "content" /\ adding'[m].e = adding'[n].e => m = n
      OBVIOUS
    <3>1. Untouched(adding'[n].e) /\ adding'[n].e \notin log.lost
      BY <2>2, <2>3, <2>5 DEF LostUnseen
    <3>2. (Untouched(adding[n].e))'
      BY <2>1, <3>1 DEF Untouched
    <3>3. \A m \in DOMAIN adding' : adding'[m].kind = "content" /\ adding'[m].e = adding'[n].e => m = n
      BY <2>2, <2>4, <2>5 DEF LostUnseen
    <3> QED
      BY <2>1, <3>1, <3>2, <3>3
  <2>8. \A e \in log'.lost : Untouched(e)'
    BY <2>1, <2>6 DEF LostUnseen
  <2> QED
    BY <2>7, <2>8 DEF LostUnseen
<1>4. CASE ReceivedNotification
  <2>1. PushNotificationReceiveJob.kind = "fetch"
    BY DEF PushNotificationReceiveJob, NoJob
  <2> QED
    BY <1>1, <1>4, <2>1 DEF ReceivedNotification, dataVars
<1>5. CASE StoreJob
  <2> DEFINE j == [Head(adding) EXCEPT !.id = lastId + 1]
  <2>1. /\ UNCHANGED <<push, log>> /\ adding' = Tail(adding) /\ adding # <<>>
        /\ stored' = stored \/ stored' = Append(stored, j)
    BY <1>5 DEF StoreJob, dataVars, restVars
  <2>2. 1 \in DOMAIN adding /\ Head(adding) = adding[1] /\ adding[1] \in SoundJob
    BY <1>0, <2>1
  <2>3. j.kind = adding[1].kind /\ j.e = adding[1].e
    BY <2>2 DEF SoundJob, Job
  <2> HIDE DEF j
  <2>4. \A n \in DOMAIN adding' : n + 1 \in DOMAIN adding /\ adding'[n] = adding[n + 1] /\ n + 1 # 1 /\ n \in Nat
    BY <1>0, <2>1
  <2>5. \A n \in DOMAIN stored' : stored'[n] = j \/ \E m \in DOMAIN stored : stored'[n] = stored[m]
    <3>1. stored \in Seq(SoundJob \cup {j})
      BY <1>0
    <3> QED
      BY <2>1, <3>1
  <2>6. \A e : Untouched(e) /\ (j.kind = "content" => j.e # e) => Untouched(e)'
    BY <2>1, <2>5 DEF Untouched
  <2>7. \A n \in DOMAIN adding' : adding'[n].kind = "content" =>
          Untouched(adding'[n].e) /\ (j.kind = "content" => j.e # adding'[n].e)
    BY <2>2, <2>3, <2>4 DEF LostUnseen
  <2>8. \A n \in DOMAIN adding' : adding'[n].kind = "content" => (Untouched(adding[n].e))'
    <3> SUFFICES ASSUME NEW n \in DOMAIN adding', adding'[n].kind = "content"
                 PROVE  (Untouched(adding[n].e))'
      OBVIOUS
    <3>1. Untouched(adding'[n].e) /\ (j.kind = "content" => j.e # adding'[n].e)
      BY <2>7
    <3> QED
      BY <2>1, <2>5, <3>1 DEF Untouched
  <2>9. \A e \in log'.lost : Untouched(e)'
    BY <2>1, <2>2, <2>3, <2>6 DEF LostUnseen
  <2>10. \A n \in DOMAIN adding' : adding'[n].kind = "content" =>
           /\ adding'[n].e \notin log'.lost
           /\ \A m \in DOMAIN adding' : adding'[m].kind = "content" /\ adding'[m].e = adding'[n].e => m = n
    <3> SUFFICES ASSUME NEW n \in DOMAIN adding', adding'[n].kind = "content"
                 PROVE  /\ adding'[n].e \notin log.lost
                        /\ \A m \in DOMAIN adding' :
                             adding'[m].kind = "content" /\ adding'[m].e = adding'[n].e => m + 1 = n + 1
      BY <2>1, <2>4
    <3> QED
      BY <2>4 DEF LostUnseen
  <2> QED
    BY <2>8, <2>9, <2>10 DEF LostUnseen
<1>6. ASSUME NEW t \in Threads, HandleStep(t) PROVE LostUnseen'
  <2>1. CASE AddDecryptJob(t) \/ AddReceiptJob(t)
    <3>1. UNCHANGED <<log, push, stored>>
      BY <2>1 DEF AddDecryptJob, AddReceiptJob, dataVars, restVars
    <3>2. /\ PushDecryptJob(thread[t].row, thread[t].e).kind = "decrypt"
          /\ DeliveryReceiptJob(thread[t].e).kind = "receipt"
      BY DEF PushDecryptJob, DeliveryReceiptJob, NoJob
    <3> QED
      BY <1>1, <2>1, <3>1, <3>2 DEF AddDecryptJob, AddReceiptJob
  <2>2. CASE InsertRow(t)
    <3>1. /\ push' = [i \in DOMAIN push \cup {NewRow} |-> IF i = NewRow THEN thread[t].e ELSE push[i]]
          /\ UNCHANGED <<log, stored, adding>> /\ thread[t].pc \in Handling
      BY <2>2 DEF InsertRow, restVars, jobVars, Handling
    <3>2. ~Untouched(thread[t].e)
      BY <3>1, HandledTouched
    <3> QED
      BY <3>1, <3>2, LostQuiet
  <2>3. CASE (\E blocked \in Blocking : Find(t, blocked)) \/ Acknowledge(t) \/ LoseAck(t)
    <3>1. UNCHANGED <<push, stored, adding>> /\ log'.lost = log.lost
      BY <1>0, <2>3 DEF Find, Acknowledge, LoseAck, dataVars, jobVars, restVars, Logs
    <3> QED
      BY <1>1, <3>1
  <2> QED
    BY <1>6, <2>1, <2>2, <2>3 DEF HandleStep
<1>7. CASE ServiceStep
  <2>1. UNCHANGED <<log, push, stored, adding>>
    BY <1>7 DEF ServiceStep, CheckConnection, Read, ReadEnds, dataVars, jobVars, restVars
  <2> QED
    BY <1>1, <2>1
<1>8. ASSUME NEW c \in Consumers, TakeJob(c) PROVE LostUnseen'
  <2>1. UNCHANGED <<log, push, stored, adding>>
    BY <1>8 DEF TakeJob, dataVars, restVars
  <2> QED
    BY <1>1, <2>1
<1>9. ASSUME NEW c \in Consumers, JobStep(c) PROVE LostUnseen'
  <2>1. CASE DeleteRow(c)
    <3>1. /\ push' = [i \in DOMAIN push \ {thread[c].row} |-> push[i]]
          /\ UNCHANGED <<log, stored, adding>>
      BY <2>1 DEF DeleteRow, restVars, jobVars
    <3> QED
      BY <3>1, LostQuiet
  <2>2. CASE FinishJob(c)
    <3>1. UNCHANGED <<push, log, adding>>
      BY <2>2 DEF FinishJob, dataVars, restVars
    <3>2. \A n \in DOMAIN stored' : \E m \in DOMAIN stored : stored'[n] = stored[m]
      BY <2>2, FinishStored
    <3> QED
      BY <3>1, <3>2, LostQuiet
  <2>3. CASE \/ RetrieveMessages(c) \/ RetrieveFails(c) \/ ReadContent(c) \/ SendReceipt(c)
             \/ ReceiptFails(c) \/ GetRow(c) \/ Decrypt(c) \/ InsertMessageInbox(c)
    <3>1. UNCHANGED <<push, stored, adding>>
      BY <2>3 DEF RetrieveMessages, RetrieveFails, ReadContent, SendReceipt, ReceiptFails, GetRow,
         Decrypt, InsertMessageInbox, dataVars, jobVars
    <3>2. log'.lost = log.lost
      BY <1>0, <2>3 DEF RetrieveMessages, RetrieveFails, ReadContent, SendReceipt, ReceiptFails, GetRow,
         Decrypt, InsertMessageInbox, restVars, Logs
    <3> QED
      BY <1>1, <3>1, <3>2
  <2> QED
    BY <1>9, <2>1, <2>2, <2>3 DEF JobStep
<1>10. CASE Crash
  <2>1. /\ UNCHANGED <<push, stored>> /\ adding' = <<>>
        /\ log'.lost = log.lost \cup {j.e : j \in InAdding("content")}
    BY <1>0, <1>10 DEF Crash, dataVars, Logs
  <2>2. \A e : Untouched(e) => Untouched(e)'
    BY <2>1 DEF Untouched
  <2>3. \A e \in {j.e : j \in InAdding("content")} : Untouched(e)
    BY DEF InAdding, ToSet, LostUnseen
  <2>4. \A e \in log'.lost : Untouched(e)'
    BY <2>1, <2>2, <2>3 DEF LostUnseen
  <2>5. DOMAIN adding' = {}
    BY <2>1
  <2> QED
    BY <2>4, <2>5 DEF LostUnseen
<1> QED
  BY <1>2, <1>3, <1>4, <1>5, <1>6, <1>7, <1>8, <1>9, <1>10 DEF Next

-----------------------------------------------------------------------------
(* What every step leaves                                                  *)

(* Only these steps touch the database, the session or the ghosts.         *)
LEMMA StepKinds ==
  ASSUME [Next]_vars
  PROVE  \/ Arrive \/ ReceivedMessage \/ ReceivedNotification \/ StoreJob \/ Crash
         \/ \E t \in Threads : \/ \E blocked \in Blocking : Find(t, blocked)
                              \/ InsertRow(t) \/ AddDecryptJob(t) \/ AddReceiptJob(t)
                              \/ Acknowledge(t) \/ LoseAck(t)
         \/ \E c \in Consumers : \/ TakeJob(c) \/ RetrieveMessages(c) \/ RetrieveFails(c) \/ ReadContent(c)
                                \/ SendReceipt(c) \/ ReceiptFails(c) \/ GetRow(c) \/ Decrypt(c)
                                \/ InsertMessageInbox(c) \/ DeleteRow(c) \/ FinishJob(c)
         \/ /\ CheckConnection \/ ReadEnds \/ Read
            /\ UNCHANGED <<dataVars, jobVars, log>>
         \/ /\ NotifyAll \/ UNCHANGED thread
            /\ UNCHANGED <<dataVars, jobVars, log>>
  BY DEF Next, HandleStep, JobStep, ServiceStep, CheckConnection, ReadEnds, Read, restVars,
     IncrementActive, DecrementActive, LoseNetwork, RegainNetwork, vars, dataVars, jobVars

LEMMA LogGrows ==
  ASSUME Typed, [Next]_vars
  PROVE  /\ log.dropped \subseteq log'.dropped /\ log.astray \subseteq log'.astray
         /\ log.lost \subseteq log'.lost /\ log.orphans \subseteq log'.orphans
<1>0. log \in Logs
  BY DEF Typed
<1>1. ASSUME UNCHANGED log PROVE log.dropped \subseteq log'.dropped /\ log.astray \subseteq log'.astray
                               /\ log.lost \subseteq log'.lost /\ log.orphans \subseteq log'.orphans
  BY <1>1
<1>2. ASSUME NEW t \in Threads, NEW blocked \in Blocking, Find(t, blocked)
      PROVE  /\ log.dropped \subseteq log'.dropped /\ log.astray \subseteq log'.astray
             /\ log.lost \subseteq log'.lost /\ log.orphans \subseteq log'.orphans
  BY <1>0, <1>2 DEF Find, Logs
<1>3. ASSUME NEW c \in Consumers, SendReceipt(c) \/ ReceiptFails(c) \/ GetRow(c)
      PROVE  /\ log.dropped \subseteq log'.dropped /\ log.astray \subseteq log'.astray
             /\ log.lost \subseteq log'.lost /\ log.orphans \subseteq log'.orphans
  BY <1>0, <1>3 DEF SendReceipt, ReceiptFails, GetRow, Logs
<1>4. ASSUME Crash PROVE /\ log.dropped \subseteq log'.dropped /\ log.astray \subseteq log'.astray
                         /\ log.lost \subseteq log'.lost /\ log.orphans \subseteq log'.orphans
  BY <1>0, <1>4 DEF Crash, Logs
<1>5. ASSUME NEW t \in Threads, InsertRow(t) \/ AddDecryptJob(t) \/ AddReceiptJob(t) \/ Acknowledge(t) \/ LoseAck(t)
      PROVE  UNCHANGED log
  BY <1>5 DEF InsertRow, AddDecryptJob, AddReceiptJob, Acknowledge, LoseAck, restVars
<1>6. ASSUME NEW c \in Consumers,
             \/ TakeJob(c) \/ RetrieveMessages(c) \/ RetrieveFails(c) \/ ReadContent(c)
             \/ Decrypt(c) \/ InsertMessageInbox(c) \/ DeleteRow(c) \/ FinishJob(c)
      PROVE  UNCHANGED log
  BY <1>6 DEF TakeJob, RetrieveMessages, RetrieveFails, ReadContent, Decrypt, InsertMessageInbox,
     DeleteRow, FinishJob, restVars
<1>7. ASSUME Arrive \/ ReceivedMessage \/ ReceivedNotification \/ StoreJob PROVE UNCHANGED log
  BY <1>7 DEF Arrive, ReceivedMessage, ReceivedNotification, StoreJob, restVars
<1> QED
  BY <1>1, <1>2, <1>3, <1>4, <1>5, <1>6, <1>7, StepKinds

LEMMA KnownGrows ==
  ASSUME Typed, [Next]_vars
  PROVE  \A e : Known(e) => Known(e)'
<1>1. ASSUME UNCHANGED <<session, inbox>> PROVE \A e : Known(e) => Known(e)'
  BY <1>1, KnownStays
<1>2. ASSUME Arrive \/ ReceivedMessage \/ ReceivedNotification \/ StoreJob \/ Crash
      PROVE  UNCHANGED <<session, inbox>>
  BY <1>2 DEF Arrive, ReceivedMessage, ReceivedNotification, StoreJob, Crash, dataVars
<1>3. ASSUME NEW t \in Threads, \/ \E blocked \in Blocking : Find(t, blocked)
                               \/ InsertRow(t) \/ AddDecryptJob(t) \/ AddReceiptJob(t)
                               \/ Acknowledge(t) \/ LoseAck(t)
      PROVE  UNCHANGED <<session, inbox>>
  BY <1>3 DEF Find, InsertRow, AddDecryptJob, AddReceiptJob, Acknowledge, LoseAck, dataVars
<1>4. ASSUME NEW c \in Consumers,
             \/ TakeJob(c) \/ RetrieveMessages(c) \/ RetrieveFails(c) \/ ReadContent(c)
             \/ SendReceipt(c) \/ ReceiptFails(c) \/ GetRow(c) \/ DeleteRow(c) \/ FinishJob(c)
      PROVE  UNCHANGED <<session, inbox>>
  BY <1>4 DEF TakeJob, RetrieveMessages, RetrieveFails, ReadContent, SendReceipt, ReceiptFails, GetRow,
     DeleteRow, FinishJob, dataVars
<1>5. ASSUME NEW c \in Consumers, Decrypt(c) PROVE session \subseteq session' /\ inbox' = inbox
  BY <1>5 DEF Decrypt
<1>6. ASSUME NEW c \in Consumers, InsertMessageInbox(c)
      PROVE  session \subseteq session' /\ inbox' = Append(inbox, thread[c].e)
  BY <1>6 DEF InsertMessageInbox
<1>7. ASSUME NEW c \in Consumers, Decrypt(c) \/ InsertMessageInbox(c) PROVE \A e : Known(e) => Known(e)'
  BY <1>5, <1>6, <1>7, KnownStays
<1>8. UNCHANGED dataVars => UNCHANGED <<session, inbox>>
  BY DEF dataVars
<1> QED
  BY <1>1, <1>2, <1>3, <1>4, <1>7, <1>8, StepKinds

(* The job that ends has done what it was for.                             *)
LEMMA FinishedDone ==
  ASSUME Typed, Jobs, RowsHeld, NEW c \in Consumers, FinishJob(c),
         thread[c].job.kind \in {"decrypt", "content"}
  PROVE  /\ thread[c].pc = "done" /\ c \in Busy /\ c \in Threads
         /\ thread[c].job.kind = "decrypt" => Known(thread[c].job.e)
<1>1. c \in Busy /\ c \in Threads
  BY DEF FinishJob, Busy, Threads
<1>2. thread[c].job.iter = 0
  BY <1>1 DEF Jobs, JobsFormed, Formed
<1>3. Retries(thread[c].job) = 1
  BY DEF Retries
<1>4. thread[c].pc = "done"
  BY <1>2, <1>3 DEF FinishJob
<1> QED
  BY <1>1, <1>4 DEF RowsHeld, ThreadHeld

(* A stored job stays until it ends.                                       *)
LEMMA StoredStays ==
  ASSUME Typed, Jobs, [Next]_vars, NEW n \in DOMAIN stored
  PROVE  \/ \E m \in DOMAIN stored' : stored'[m] = stored[n]
         \/ \E c \in Consumers : FinishJob(c) /\ Same(stored[n], thread[c].job)
<1>0. stored \in Seq(SoundJob)
  BY DEF Typed
<1>1. ASSUME UNCHANGED stored PROVE \E m \in DOMAIN stored' : stored'[m] = stored[n]
  BY <1>1
<1>2. ASSUME Arrive \/ ReceivedMessage \/ ReceivedNotification \/ Crash PROVE UNCHANGED stored
  BY <1>2 DEF Arrive, ReceivedMessage, ReceivedNotification, Crash, jobVars
<1>3. ASSUME NEW t \in Threads, \/ \E blocked \in Blocking : Find(t, blocked)
                               \/ InsertRow(t) \/ AddDecryptJob(t) \/ AddReceiptJob(t)
                               \/ Acknowledge(t) \/ LoseAck(t)
      PROVE  UNCHANGED stored
  BY <1>3 DEF Find, InsertRow, AddDecryptJob, AddReceiptJob, Acknowledge, LoseAck, jobVars
<1>4. ASSUME NEW c \in Consumers,
             \/ TakeJob(c) \/ RetrieveMessages(c) \/ RetrieveFails(c) \/ ReadContent(c)
             \/ SendReceipt(c) \/ ReceiptFails(c) \/ GetRow(c) \/ DeleteRow(c)
             \/ Decrypt(c) \/ InsertMessageInbox(c)
      PROVE  UNCHANGED stored
  BY <1>4 DEF TakeJob, RetrieveMessages, RetrieveFails, ReadContent, SendReceipt, ReceiptFails, GetRow,
     DeleteRow, Decrypt, InsertMessageInbox, jobVars
<1>5. CASE StoreJob
  <2>1. PICK j \in SoundJob : stored' = stored \/ stored' = Append(stored, j)
    <3>1. Head(adding) \in SoundJob /\ lastId + 1 \in Nat
      BY <1>5 DEF StoreJob, Typed, TypeOK
    <3>2. [Head(adding) EXCEPT !.id = lastId + 1] \in SoundJob
      BY <3>1, JobTypes
    <3> QED
      BY <1>5, <3>2 DEF StoreJob
  <2> QED
    BY <1>0, <2>1
<1>6. ASSUME NEW c \in Consumers, FinishJob(c)
      PROVE  \/ \E m \in DOMAIN stored' : stored'[m] = stored[n]
             \/ Same(stored[n], thread[c].job)
  <2>1. c \in Busy
    BY <1>6 DEF FinishJob, Busy
  <2>2. CASE stored[n].id # thread[c].job.id
    BY <1>6, <2>2, FinishStored
  <2>3. CASE stored[n].id = thread[c].job.id
    <3>1. \A k \in DOMAIN queue : ~Same(stored[n], queue[k])
      BY <2>1, <2>3 DEF Jobs, JobsApart, Same
    <3>2. PICK d \in Busy : Same(stored[n], thread[d].job)
      BY <3>1 DEF Jobs, JobsKept
    <3>3. d = c
      BY <2>1, <2>3, <3>2 DEF Jobs, JobsApart, Same
    <3> QED
      BY <3>2, <3>3
  <2> QED
    BY <2>2, <2>3
<1>7. UNCHANGED jobVars => UNCHANGED stored
  BY DEF jobVars
<1> QED
  BY <1>1, <1>2, <1>3, <1>4, <1>5, <1>6, <1>7, StepKinds

(* A job given to add gets stored, unless the process dies.                *)
LEMMA AddingStays ==
  ASSUME Typed, Jobs, [Next]_vars, ~Crash, NEW n \in DOMAIN adding, adding[n].kind # "fetch"
  PROVE  \/ \E m \in DOMAIN adding' : adding'[m] = adding[n]
         \/ \E m \in DOMAIN stored' : /\ stored'[m].kind = adding[n].kind
                                      /\ stored'[m].row = adding[n].row /\ stored'[m].e = adding[n].e
<1>0. adding \in Seq(SoundJob) /\ stored \in Seq(SoundJob)
  BY DEF Typed
<1>1. ASSUME UNCHANGED adding PROVE \E m \in DOMAIN adding' : adding'[m] = adding[n]
  BY <1>1
<1>2. ASSUME NEW j, adding' = Append(adding, j) PROVE \E m \in DOMAIN adding' : adding'[m] = adding[n]
  <2>1. adding \in Seq(SoundJob \cup {j})
    BY <1>0
  <2> QED
    BY <1>2, <2>1
<1>3. ASSUME Arrive \/ ReceivedMessage \/ ReceivedNotification
      PROVE  UNCHANGED adding \/ \E j : adding' = Append(adding, j)
  BY <1>3 DEF Arrive, ReceivedMessage, ReceivedNotification, jobVars
<1>4. ASSUME NEW t \in Threads, \/ \E blocked \in Blocking : Find(t, blocked)
                               \/ InsertRow(t) \/ AddDecryptJob(t) \/ AddReceiptJob(t)
                               \/ Acknowledge(t) \/ LoseAck(t)
      PROVE  UNCHANGED adding \/ \E j : adding' = Append(adding, j)
  BY <1>4 DEF Find, InsertRow, AddDecryptJob, AddReceiptJob, Acknowledge, LoseAck, jobVars
<1>5. ASSUME NEW c \in Consumers,
             \/ TakeJob(c) \/ RetrieveMessages(c) \/ RetrieveFails(c) \/ ReadContent(c)
             \/ SendReceipt(c) \/ ReceiptFails(c) \/ GetRow(c) \/ DeleteRow(c)
             \/ Decrypt(c) \/ InsertMessageInbox(c) \/ FinishJob(c)
      PROVE  UNCHANGED adding
  BY <1>5 DEF TakeJob, RetrieveMessages, RetrieveFails, ReadContent, SendReceipt, ReceiptFails, GetRow,
     DeleteRow, Decrypt, InsertMessageInbox, FinishJob, jobVars
<1>6. CASE StoreJob
  <2> DEFINE j == [Head(adding) EXCEPT !.id = lastId + 1]
  <2>1. /\ adding' = Tail(adding) /\ adding # <<>>
        /\ j.persistent => stored' = Append(stored, j)
    BY <1>6 DEF StoreJob
  <2>2. 1 \in DOMAIN adding /\ Head(adding) = adding[1] /\ adding[1] \in SoundJob
    BY <1>0, <2>1
  <2>3. j.kind = adding[1].kind /\ j.e = adding[1].e /\ j.row = adding[1].row /\ j.persistent = adding[1].persistent
    BY <2>2 DEF SoundJob, Job
  <2> HIDE DEF j
  <2>4. CASE n = 1
    <3>1. stored' = Append(stored, j)
      BY <2>1, <2>2, <2>3, <2>4 DEF Jobs, JobsFormed, Formed
    <3>2. stored \in Seq(SoundJob \cup {j})
      BY <1>0
    <3>3. Len(stored) + 1 \in DOMAIN stored' /\ stored'[Len(stored) + 1] = j
      BY <3>1, <3>2
    <3> QED
      BY <2>3, <2>4, <3>3
  <2>5. CASE n # 1
    <3>1. n - 1 \in DOMAIN adding' /\ adding'[n - 1] = adding[n]
      BY <1>0, <2>1, <2>5
    <3> QED
      BY <3>1
  <2> QED
    BY <2>4, <2>5
<1>7. UNCHANGED jobVars => UNCHANGED adding
  BY DEF jobVars
<1> QED
  BY <1>1, <1>2, <1>3, <1>4, <1>5, <1>6, <1>7, StepKinds

-----------------------------------------------------------------------------
(* Nothing is lost sight of *)

LEMMA SecuredStays ==
  ASSUME Typed, Jobs, RowsHeld, [Next]_vars, NEW e, Secured(e)
  PROVE  Secured(e)'
<1>1. CASE e \in Shown \cup session
  BY <1>1, KnownGrows DEF Known, Secured
<1>2. CASE e \in log.dropped
  BY <1>2, LogGrows DEF Secured
<1>3. ASSUME NEW n \in DOMAIN stored, stored[n].kind = "decrypt", stored[n].e = e
      PROVE  Secured(e)'
  <2>1. CASE \E m \in DOMAIN stored' : stored'[m] = stored[n]
    BY <1>3, <2>1 DEF Secured, OwnStored
  <2>2. ASSUME NEW c \in Consumers, FinishJob(c), Same(stored[n], thread[c].job)
        PROVE  Secured(e)'
    <3>1. Known(e)
      BY <1>3, <2>2, FinishedDone DEF Same
    <3> QED
      BY <3>1, KnownGrows DEF Known, Secured
  <2> QED
    BY <2>1, <2>2, StoredStays
<1> QED
  BY <1>1, <1>2, <1>3 DEF Secured, OwnStored

LEMMA AddingSecured ==
  ASSUME Typed, Jobs, RowsHeld, [Next]_vars, ~Crash, NEW e, Secured(e) \/ OwnAdding(e)
  PROVE  Secured(e)' \/ OwnAdding(e)'
<1>1. CASE Secured(e)
  BY <1>1, SecuredStays
<1>2. ASSUME NEW n \in DOMAIN adding, adding[n].kind = "decrypt", adding[n].e = e
      PROVE  Secured(e)' \/ OwnAdding(e)'
  BY <1>2, AddingStays DEF Secured, OwnStored, OwnAdding
<1> QED
  BY <1>1, <1>2 DEF OwnAdding

LEMMA HandledNext ==
  ASSUME Typed, Jobs, RowsHeld, Channels, HandledSafely, [Next]_vars
  PROVE  HandledSafely'
<1>0. /\ log \in Logs /\ Service \in Threads /\ Service \notin Consumers
      /\ \A c \in Consumers : c \in Threads
  BY ConsumersAssumption DEF Typed, Threads
<1> DEFINE Safe(t) ==
      /\ thread[t].pc \in {"ack", "receipt"} => Secured(thread[t].e) \/ OwnAdding(thread[t].e)
      /\ thread[t].pc = "done" /\ thread[t].job.kind = "content" =>
           Secured(thread[t].job.e) \/ OwnAdding(thread[t].job.e)
<1>1. CASE Crash
  <2>1. thread' = [t \in Threads |-> IF t = Service THEN Start ELSE Rest]
    BY <1>1 DEF Crash
  <2>2. \A t \in Threads : thread'[t].pc \in {"check", "idle"}
    BY <2>1 DEF Start, Rest
  <2> QED
    BY <2>2 DEF HandledSafely
<1>2. ASSUME ~Crash, NEW t \in Threads, thread'[t] = thread[t] PROVE Safe(t)'
  <2>1. Safe(t)
    BY DEF HandledSafely
  <2>2. /\ thread'[t].pc \in {"ack", "receipt"} =>
             (Secured(thread[t].e) \/ OwnAdding(thread[t].e)) /\ thread'[t].e = thread[t].e
        /\ thread'[t].pc = "done" /\ thread'[t].job.kind = "content" =>
             (Secured(thread[t].job.e) \/ OwnAdding(thread[t].job.e)) /\ thread'[t].job.e = thread[t].job.e
    BY <1>2, <2>1
  <2>3. /\ thread'[t].pc \in {"ack", "receipt"} => (\E e : e = thread'[t].e /\ (Secured(e)' \/ OwnAdding(e)'))
        /\ thread'[t].pc = "done" /\ thread'[t].job.kind = "content" =>
             (\E e : e = thread'[t].job.e /\ (Secured(e)' \/ OwnAdding(e)'))
    BY <1>2, <2>2, AddingSecured
  <2> QED
    BY <2>3 DEF Secured, OwnAdding, OwnStored
<1>3. ASSUME NEW t \in Threads, thread'[t].pc \notin {"ack", "receipt"},
             thread'[t].pc # "done" \/ thread'[t].job.kind # "content"
      PROVE  Safe(t)'
  BY <1>3
<1>4. ASSUME NEW t \in Threads, Safe(t)', ~Crash, Only(t) PROVE HandledSafely'
  BY <1>2, <1>4 DEF Only, HandledSafely
<1>5. ASSUME ~Crash, UNCHANGED thread PROVE HandledSafely'
  BY <1>2, <1>5 DEF HandledSafely
<1> HIDE DEF Safe
<1>6. ASSUME NEW t \in Threads, ~Crash, Only(t), thread'[t].pc \notin {"ack", "receipt"},
             thread'[t].pc # "done" \/ thread'[t].job.kind # "content"
      PROVE  HandledSafely'
  BY <1>3, <1>4, <1>6
<1>7. CASE Arrive \/ ReceivedMessage \/ ReceivedNotification \/ StoreJob
  BY <1>1, <1>5, <1>7 DEF Arrive, ReceivedMessage, ReceivedNotification, StoreJob
<1>8. ASSUME NEW t \in Threads, NEW blocked \in Blocking, Find(t, blocked), ~Crash PROVE HandledSafely'
  <2>1. CASE blocked
    <3>1. /\ Goto(t, Handled(t)) /\ log' = [log EXCEPT !.dropped = @ \cup {thread[t].e}]
      BY <1>8, <2>1 DEF Find
    <3>2. Only(t) /\ thread'[t].e = thread[t].e /\ thread'[t].pc \in {"ack", "receipt"}
      BY <3>1, GotoFacts DEF Handled
    <3>3. thread'[t].e \in log'.dropped
      BY <1>0, <3>1, <3>2 DEF Logs
    <3>4. Safe(t)'
      BY <3>2, <3>3 DEF Safe, Secured
    <3> QED
      BY <1>4, <1>8, <3>2, <3>4
  <2>2. CASE ~blocked
    <3>1. Goto(t, "insert") \/ ToRow(t, "add", Min(RowsOf(thread[t].e)))
      BY <1>8, <2>2 DEF Find, ToRow
    <3>2. Only(t) /\ thread'[t].pc \in {"insert", "add"}
      BY <3>1, GotoFacts, RowFacts
    <3> QED
      BY <1>6, <1>8, <3>2
  <2> QED
    BY <2>1, <2>2
<1>9. ASSUME NEW t \in Threads, InsertRow(t), ~Crash PROVE HandledSafely'
  <2>1. ToRow(t, "add", NewRow)
    BY <1>9 DEF InsertRow, ToRow
  <2>2. Only(t) /\ thread'[t].pc = "add"
    BY <2>1, RowFacts
  <2> QED
    BY <1>6, <1>9, <2>2
<1>10. ASSUME NEW t \in Threads, AddDecryptJob(t), ~Crash PROVE HandledSafely'
  <2> DEFINE j == PushDecryptJob(thread[t].row, thread[t].e)
  <2>1. Goto(t, Handled(t)) /\ adding' = Append(adding, j)
    BY <1>10 DEF AddDecryptJob
  <2>2. Only(t) /\ thread'[t].e = thread[t].e /\ thread'[t].pc \in {"ack", "receipt"}
    BY <2>1, GotoFacts DEF Handled
  <2>3. j.kind = "decrypt" /\ j.e = thread[t].e
    BY DEF PushDecryptJob, NoJob
  <2> HIDE DEF j
  <2>4. Len(adding) + 1 \in DOMAIN adding' /\ adding'[Len(adding) + 1] = j
    <3>1. adding \in Seq(SoundJob \cup {j})
      BY DEF Typed
    <3> QED
      BY <2>1, <3>1
  <2>5. Safe(t)'
    BY <2>2, <2>3, <2>4 DEF Safe, OwnAdding
  <2> QED
    BY <1>4, <1>10, <2>2, <2>5
<1>11. ASSUME NEW t \in Threads, AddReceiptJob(t), ~Crash PROVE HandledSafely'
  <2>1. Goto(t, "done") /\ thread[t].pc = "receipt"
    BY <1>11 DEF AddReceiptJob
  <2>2. Only(t) /\ thread'[t].job = thread[t].job /\ thread'[t].pc = "done"
    BY <2>1, GotoFacts
  <2>3. thread[t].job.e = thread[t].e
    BY <2>1, HandlerPlaces DEF Channels, ThreadChannel, Handling
  <2>4. PICK e : e = thread[t].e /\ (Secured(e)' \/ OwnAdding(e)')
    BY <1>11, <2>1, AddingSecured DEF HandledSafely
  <2>5. Safe(t)'
    BY <2>2, <2>3, <2>4 DEF Safe, OwnAdding, OwnStored, Secured
  <2> QED
    BY <1>4, <1>11, <2>2, <2>5
<1>12. ASSUME NEW t \in Threads, Acknowledge(t) \/ LoseAck(t), ~Crash PROVE HandledSafely'
  <2>1. thread[t].pc = "ack"
    BY <1>12 DEF Acknowledge, LoseAck
  <2>2. thread[t].job.kind # "content"
    BY <2>1, HandlerPlaces
  <2>3. \/ To(t, Start) \/ Goto(t, "done") \/ RetryLater(t)
        \/ ToList(t, "find", Head(thread[t].todo), Tail(thread[t].todo))
    <3>1. DOMAIN thread[t] = {"pc", "job", "e", "row", "todo"}
      BY DEF Typed, SoundThread, Thread
    <3> QED
      BY <1>12, <3>1 DEF Acknowledge, LoseAck, To, ToList
  <2>4. Start.pc = "check"
    BY DEF Start, Rest
  <2>5. /\ Only(t) /\ thread'[t].pc \notin {"ack", "receipt"}
        /\ thread'[t].pc # "done" \/ thread'[t].job.kind # "content"
    <3>1. CASE To(t, Start)
      BY <2>4, <3>1, SetFacts
    <3>2. CASE Goto(t, "done")
      BY <2>2, <3>2, GotoFacts
    <3>3. CASE RetryLater(t)
      BY <2>2, <3>3, RetryFacts
    <3>4. CASE ToList(t, "find", Head(thread[t].todo), Tail(thread[t].todo))
      BY <3>4, ListFacts
    <3> QED
      BY <2>3, <3>1, <3>2, <3>3, <3>4
  <2> QED
    BY <1>6, <1>12, <2>5
<1>13. ASSUME NEW c \in Consumers, NEW pc, Goto(c, pc), pc \notin {"ack", "receipt"},
              pc # "done" \/ thread[c].job.kind # "content", ~Crash
       PROVE  HandledSafely'
  BY <1>0, <1>6, <1>13, GotoFacts
<1>14. ASSUME NEW c \in Consumers, RetrieveMessages(c), ~Crash PROVE HandledSafely'
  <2>1. thread[c].job.kind = "fetch"
    BY <1>14 DEF RetrieveMessages, Run
  <2>2. ASSUME NEW e, NEW todo, ToList(c, "find", e, todo) PROVE HandledSafely'
    BY <1>0, <1>6, <1>14, <2>2, ListFacts
  <2> QED
    BY <1>13, <1>14, <2>1, <2>2 DEF RetrieveMessages, ToList
<1>15. ASSUME NEW c \in Consumers, RetrieveFails(c) \/ ReceiptFails(c), ~Crash PROVE HandledSafely'
  <2>1. RetryLater(c) /\ thread[c].job.kind \in {"fetch", "receipt"}
    BY <1>15 DEF RetrieveFails, ReceiptFails, Run
  <2> QED
    BY <1>0, <1>6, <1>15, <2>1, RetryFacts
<1>16. ASSUME NEW c \in Consumers, ReadContent(c), ~Crash PROVE HandledSafely'
  <2>1. ToEnvelope(c, "find", thread[c].job.e)
    BY <1>16 DEF ReadContent, ToEnvelope
  <2> QED
    BY <1>0, <1>6, <1>16, <2>1, EnvelopeFacts
<1>17. ASSUME NEW c \in Consumers, SendReceipt(c), ~Crash PROVE HandledSafely'
  BY <1>13, <1>17 DEF SendReceipt, Run
<1>18. ASSUME NEW c \in Consumers, GetRow(c), ~Crash PROVE HandledSafely'
  <2>1. thread[c].job.kind = "decrypt"
    BY <1>18 DEF GetRow, Run
  <2>2. Goto(c, "done") \/ ToBoth(c, "decrypt", thread[c].job.row, push[thread[c].job.row])
    BY <1>18 DEF GetRow, ToBoth
  <2>3. ASSUME ToBoth(c, "decrypt", thread[c].job.row, push[thread[c].job.row]) PROVE HandledSafely'
    BY <1>0, <1>6, <1>18, <2>3, GetFacts
  <2> QED
    BY <1>13, <1>18, <2>1, <2>2, <2>3
<1>19. ASSUME NEW c \in Consumers, Decrypt(c) \/ InsertMessageInbox(c) \/ DeleteRow(c), ~Crash
       PROVE  HandledSafely'
  <2>1. thread[c].pc \in {"decrypt", "show", "delete"}
    BY <1>19 DEF Decrypt, InsertMessageInbox, DeleteRow
  <2>2. thread[c].job.kind = "decrypt"
    BY <1>0, <2>1, DecryptsAlone
  <2>3. Goto(c, "show") \/ Goto(c, "delete") \/ Goto(c, "done")
    BY <1>19 DEF Decrypt, InsertMessageInbox, DeleteRow
  <2> QED
    BY <1>13, <1>19, <2>2, <2>3
<1>20. ASSUME NEW c \in Consumers, FinishJob(c), ~Crash PROVE HandledSafely'
  <2>1. To(c, Rest) /\ Rest.pc = "idle"
    BY <1>20 DEF FinishJob, To, Rest
  <2> QED
    BY <1>0, <1>6, <1>20, <2>1, SetFacts
<1>21. ASSUME NEW c \in Consumers, TakeJob(c), ~Crash PROVE HandledSafely'
  <2>1. PICK j : To(c, [Rest EXCEPT !.pc = "run", !.job = j])
    BY <1>21 DEF TakeJob, To
  <2>2. [Rest EXCEPT !.pc = "run", !.job = j].pc = "run"
    BY DEF Rest
  <2> QED
    BY <1>0, <1>6, <1>21, <2>1, <2>2, SetFacts
<1>22. ASSUME CheckConnection \/ ReadEnds \/ Read, ~Crash PROVE HandledSafely'
  <2>1. \/ \E pc \in {"check", "wait", "read"} : Goto(Service, pc)
        \/ ToEnvelope(Service, "find", Min(server))
    BY <1>22 DEF CheckConnection, Read, ReadEnds, ToEnvelope
  <2>2. Only(Service) /\ thread'[Service].pc \in {"check", "wait", "read", "find"}
    BY <1>0, <2>1, GotoFacts, EnvelopeFacts
  <2> QED
    BY <1>0, <1>6, <1>22, <2>2
<1>23. ASSUME NotifyAll, ~Crash PROVE HandledSafely'
  <2>1. \/ thread'[Service] = thread[Service]
        \/ thread'[Service].pc = "check"
    BY <1>23, NotifyFacts
  <2>2. Only(Service)
    BY <1>23, NotifyFacts
  <2> QED
    BY <1>0, <1>2, <1>4, <1>6, <1>23, <2>1, <2>2
<1> QED
  BY <1>1, <1>5, <1>7, <1>8, <1>9, <1>10, <1>11, <1>12, <1>14, <1>15, <1>16, <1>17, <1>18, <1>19,
     <1>20, <1>21, <1>22, <1>23, StepKinds

(* Which steps a new envelope, or a stranded one, can come from.           *)
LEMMA ArrivedGrows ==
  ASSUME [Next]_vars, arrived' # arrived
  PROVE  Arrive \/ ReceivedMessage
<1>1. ASSUME NEW t \in Threads, HandleStep(t) PROVE arrived' = arrived
  BY <1>1 DEF HandleStep, Find, InsertRow, AddDecryptJob, AddReceiptJob, Acknowledge, LoseAck, dataVars
<1>2. ASSUME NEW c \in Consumers, TakeJob(c) \/ JobStep(c) PROVE arrived' = arrived
  BY <1>2 DEF JobStep, TakeJob, RetrieveMessages, RetrieveFails, ReadContent, SendReceipt, ReceiptFails,
     GetRow, FinishJob, Decrypt, InsertMessageInbox, DeleteRow, dataVars
<1>3. ASSUME \/ ReceivedNotification \/ IncrementActive \/ DecrementActive \/ LoseNetwork
             \/ RegainNetwork \/ StoreJob \/ ServiceStep \/ Crash \/ UNCHANGED vars
      PROVE  arrived' = arrived
  BY <1>3 DEF ReceivedNotification, IncrementActive, DecrementActive, LoseNetwork, RegainNetwork, StoreJob,
     ServiceStep, CheckConnection, Read, ReadEnds, Crash, vars, dataVars
<1> QED
  BY <1>1, <1>2, <1>3 DEF Next

LEMMA OrphansGrow ==
  ASSUME Typed, [Next]_vars, NEW e \in log'.orphans, e \notin log.orphans
  PROVE  Crash
<1>0. log \in Logs
  BY DEF Typed
<1>1. ASSUME NEW t \in Threads, HandleStep(t) PROVE log'.orphans = log.orphans
  BY <1>0, <1>1 DEF HandleStep, Find, InsertRow, AddDecryptJob, AddReceiptJob, Acknowledge, LoseAck,
     restVars, Logs
<1>2. ASSUME NEW c \in Consumers, SendReceipt(c) \/ ReceiptFails(c) \/ GetRow(c)
      PROVE  log'.orphans = log.orphans
  BY <1>0, <1>2 DEF SendReceipt, ReceiptFails, GetRow, Logs
<1>3. ASSUME NEW c \in Consumers,
             \/ TakeJob(c) \/ RetrieveMessages(c) \/ RetrieveFails(c) \/ ReadContent(c)
             \/ FinishJob(c) \/ Decrypt(c) \/ InsertMessageInbox(c) \/ DeleteRow(c)
      PROVE  UNCHANGED log
  BY <1>3 DEF TakeJob, RetrieveMessages, RetrieveFails, ReadContent, FinishJob, Decrypt,
     InsertMessageInbox, DeleteRow, restVars
<1>4. ASSUME \/ ReceivedNotification \/ IncrementActive \/ DecrementActive \/ LoseNetwork
             \/ RegainNetwork \/ StoreJob \/ ServiceStep \/ Arrive \/ ReceivedMessage \/ UNCHANGED vars
      PROVE  UNCHANGED log
  BY <1>4 DEF ReceivedNotification, IncrementActive, DecrementActive, LoseNetwork, RegainNetwork, StoreJob,
     ServiceStep, CheckConnection, Read, ReadEnds, Arrive, ReceivedMessage, vars, restVars
<1> QED
  BY <1>1, <1>2, <1>3, <1>4 DEF Next, JobStep

(* A row that holds what it should goes on holding it, or it is known.     *)
LEMMA HeldStays ==
  ASSUME Typed, Jobs, RowsHeld, [Next]_vars, NEW row, NEW e, Held(row, e)
  PROVE  Held(row, e)'
<1>0. \A x : Known(x) => Known(x)'
  BY KnownGrows
<1>1. ASSUME UNCHANGED push PROVE Held(row, e)'
  BY <1>0, <1>1 DEF Held, Holds
<1>2. ASSUME Arrive \/ ReceivedMessage \/ ReceivedNotification \/ StoreJob \/ Crash
      PROVE  UNCHANGED push
  BY <1>2 DEF Arrive, ReceivedMessage, ReceivedNotification, StoreJob, Crash, dataVars
<1>3. ASSUME NEW t \in Threads, \/ \E blocked \in Blocking : Find(t, blocked)
                               \/ AddDecryptJob(t) \/ AddReceiptJob(t) \/ Acknowledge(t) \/ LoseAck(t)
      PROVE  UNCHANGED push
  BY <1>3 DEF Find, AddDecryptJob, AddReceiptJob, Acknowledge, LoseAck, dataVars
<1>4. ASSUME NEW c \in Consumers,
             \/ TakeJob(c) \/ RetrieveMessages(c) \/ RetrieveFails(c) \/ ReadContent(c)
             \/ SendReceipt(c) \/ ReceiptFails(c) \/ GetRow(c) \/ FinishJob(c)
             \/ Decrypt(c) \/ InsertMessageInbox(c)
      PROVE  UNCHANGED push
  BY <1>4 DEF TakeJob, RetrieveMessages, RetrieveFails, ReadContent, SendReceipt, ReceiptFails, GetRow,
     FinishJob, Decrypt, InsertMessageInbox, dataVars
<1>5. ASSUME NEW t \in Threads, InsertRow(t) PROVE Held(row, e)'
  BY <1>0, <1>5, NewRowIsNew DEF InsertRow, Held, Holds
<1>6. ASSUME NEW c \in Consumers, DeleteRow(c) PROVE Held(row, e)'
  <2>1. Holds(thread[c].row, thread[c].e) /\ Known(thread[c].e)
    BY <1>6 DEF DeleteRow, RowsHeld, ThreadHeld, Threads
  <2> QED
    BY <1>0, <1>6, <2>1 DEF DeleteRow, Held, Holds
<1>7. UNCHANGED dataVars => UNCHANGED push
  BY DEF dataVars
<1> QED
  BY <1>1, <1>2, <1>3, <1>4, <1>5, <1>6, <1>7, StepKinds

(* The server lets go of an envelope only for an acknowledgement.          *)
LEMMA ServerKeeps ==
  ASSUME Typed, [Next]_vars, NEW e \in server, e \notin server'
  PROVE  \E t \in Threads : /\ thread[t].pc = "ack" /\ thread[t].e = e
                            /\ Acknowledge(t) \/ LoseAck(t)
<1>2. ASSUME Arrive \/ ReceivedMessage \/ ReceivedNotification \/ StoreJob \/ Crash PROVE FALSE
  BY <1>2 DEF Arrive, ReceivedMessage, ReceivedNotification, StoreJob, Crash, dataVars
<1>3. ASSUME NEW t \in Threads, \/ \E blocked \in Blocking : Find(t, blocked)
                               \/ InsertRow(t) \/ AddDecryptJob(t) \/ AddReceiptJob(t)
      PROVE  FALSE
  BY <1>3 DEF Find, InsertRow, AddDecryptJob, AddReceiptJob, dataVars
<1>4. ASSUME NEW c \in Consumers,
             \/ TakeJob(c) \/ RetrieveMessages(c) \/ RetrieveFails(c) \/ ReadContent(c)
             \/ SendReceipt(c) \/ ReceiptFails(c) \/ GetRow(c) \/ FinishJob(c)
             \/ Decrypt(c) \/ InsertMessageInbox(c) \/ DeleteRow(c)
      PROVE  FALSE
  BY <1>4 DEF TakeJob, RetrieveMessages, RetrieveFails, ReadContent, SendReceipt, ReceiptFails, GetRow,
     FinishJob, Decrypt, InsertMessageInbox, DeleteRow, dataVars
<1>5. ASSUME NEW t \in Threads, Acknowledge(t) \/ LoseAck(t)
      PROVE  thread[t].pc = "ack" /\ thread[t].e = e
  BY <1>5 DEF Acknowledge, LoseAck
<1>6. UNCHANGED dataVars => FALSE
  BY DEF dataVars
<1> QED
  BY <1>2, <1>3, <1>4, <1>5, <1>6, StepKinds

(* What a crash loses of the jobs given to add.                            *)
LEMMA CrashLoses ==
  ASSUME Typed, Crash, NEW n \in DOMAIN adding
  PROVE  /\ adding[n].kind = "content" => adding[n].e \in log'.lost
         /\ adding[n].kind = "decrypt" /\ Holds(adding[n].row, adding[n].e) => adding[n].e \in log'.orphans
<1>1. /\ log'.lost = log.lost \cup {j.e : j \in InAdding("content")}
      /\ log'.orphans = log.orphans \cup
           {push[i] : i \in {j.row : j \in InAdding("decrypt")} \cap DOMAIN push}
  BY DEF Crash, Typed, Logs
<1>2. \A kind : adding[n].kind = kind => adding[n] \in InAdding(kind)
  BY DEF InAdding, ToSet
<1>3. ASSUME adding[n].kind = "content" PROVE adding[n].e \in log'.lost
  BY <1>1, <1>2, <1>3
<1>4. ASSUME adding[n].kind = "decrypt", Holds(adding[n].row, adding[n].e)
      PROVE  adding[n].e \in log'.orphans
  <2>1. adding[n].row \in {j.row : j \in InAdding("decrypt")} \cap DOMAIN push
    BY <1>2, <1>4 DEF Holds
  <2> QED
    BY <1>1, <1>4, <2>1 DEF Holds
<1> QED
  BY <1>3, <1>4

LEMMA AllFoundNext ==
  ASSUME Typed, Jobs, RowsHeld, HandledSafely, AllFound, [Next]_vars
  PROVE  AllFound'
<1>1. ASSUME NEW e \in 1..arrived PROVE Found(e)'
  <2>0. /\ Secured(e)' => Found(e)'
        /\ ~Crash /\ (Secured(e) \/ OwnAdding(e)) => Found(e)'
        /\ Known(e) => Found(e)'
    <3>1. Secured(e)' \/ OwnAdding(e)' => Found(e)'
      BY DEF Found
    <3> QED
      BY <3>1, AddingSecured, SecuredStays DEF Known, Secured
  <2>1. CASE e \in server
    <3>1. CASE e \in server'
      BY <3>1 DEF Found
    <3>2. CASE e \notin server'
      <4>1. PICK t \in Threads : /\ thread[t].pc = "ack" /\ thread[t].e = e
                                 /\ Acknowledge(t) \/ LoseAck(t)
        BY <2>1, <3>2, ServerKeeps
      <4>2. Secured(e) \/ OwnAdding(e)
        BY <4>1 DEF HandledSafely
      <4>3. CASE Crash
        BY <2>1, <3>2, <4>3 DEF Crash, dataVars
      <4> QED
        BY <2>0, <4>2, <4>3
    <3> QED
      BY <3>1, <3>2
  <2>2. CASE e \in log.orphans \cup log.lost
    BY <2>2, LogGrows DEF Found
  <2>3. CASE Secured(e)
    BY <2>0, <2>3, SecuredStays
  <2>4. ASSUME NEW n \in DOMAIN adding, adding[n].kind = "decrypt", adding[n].e = e
        PROVE  Found(e)'
    <3>1. CASE Crash
      <4>1. Held(adding[n].row, e)
        BY <2>4 DEF RowsHeld
      <4>2. CASE Known(e)
        BY <2>0, <4>2
      <4>3. CASE Holds(adding[n].row, e)
        BY <2>4, <3>1, <4>3, CrashLoses DEF Found
      <4> QED
        BY <4>1, <4>2, <4>3 DEF Held
    <3>2. CASE ~Crash
      BY <2>0, <2>4, <3>2 DEF OwnAdding
    <3> QED
      BY <3>1, <3>2
  <2>5. ASSUME NEW n \in DOMAIN stored, stored[n].kind = "content", stored[n].e = e
        PROVE  Found(e)'
    <3>1. CASE \E m \in DOMAIN stored' : stored'[m] = stored[n]
      BY <2>5, <3>1 DEF Found
    <3>2. ASSUME NEW c \in Consumers, FinishJob(c), Same(stored[n], thread[c].job)
          PROVE  Found(e)'
      <4>1. thread[c].pc = "done" /\ c \in Threads /\ thread[c].job.kind = "content" /\ thread[c].job.e = e
        BY <2>5, <3>2, FinishedDone DEF Same
      <4>2. Secured(e) \/ OwnAdding(e)
        BY <4>1 DEF HandledSafely
      <4>3. adding' = adding
        BY <3>2 DEF FinishJob
      <4>4. CASE Secured(e)
        BY <2>0, <4>4, SecuredStays
      <4>5. CASE OwnAdding(e)
        BY <4>3, <4>5 DEF Found, OwnAdding
      <4> QED
        BY <4>2, <4>4, <4>5
    <3> QED
      BY <3>1, <3>2, StoredStays
  <2>6. ASSUME NEW n \in DOMAIN adding, adding[n].kind = "content", adding[n].e = e
        PROVE  Found(e)'
    <3>1. CASE Crash
      BY <2>6, <3>1, CrashLoses DEF Found
    <3>2. CASE ~Crash
      BY <2>6, <3>2, AddingStays DEF Found
    <3> QED
      BY <3>1, <3>2
  <2> QED
    BY <2>1, <2>2, <2>3, <2>4, <2>5, <2>6 DEF AllFound, Found, OwnAdding
<1>2. ASSUME NEW e \in 1..arrived', e \notin 1..arrived PROVE Found(e)'
  <2>1. arrived \in Nat
    BY DEF Typed, TypeOK
  <2>2. arrived' # arrived
    BY <1>2
  <2>3. Arrive \/ ReceivedMessage
    BY <2>2, ArrivedGrows
  <2>4. CASE Arrive
    <3>1. e = arrived + 1 /\ e \in server'
      BY <1>2, <2>1, <2>4 DEF Arrive
    <3> QED
      BY <3>1 DEF Found
  <2>5. CASE ReceivedMessage
    <3> DEFINE j == PushContentReceiveJob(arrived + 1)
    <3>1. e = arrived + 1 /\ adding' = Append(adding, j)
      BY <1>2, <2>1, <2>5 DEF ReceivedMessage
    <3>2. j.kind = "content" /\ j.e = arrived + 1
      BY DEF PushContentReceiveJob, NoJob
    <3> HIDE DEF j
    <3>3. Len(adding) + 1 \in DOMAIN adding' /\ adding'[Len(adding) + 1] = j
      <4>1. adding \in Seq(SoundJob \cup {j})
        BY DEF Typed
      <4> QED
        BY <3>1, <4>1
    <3> QED
      BY <3>1, <3>2, <3>3 DEF Found
  <2> QED
    BY <2>3, <2>4, <2>5
<1>3. ASSUME NEW e \in log'.orphans PROVE (\E row \in DOMAIN push' : Holds(row, e)') \/ Known(e)'
  <2>1. CASE e \in log.orphans
    <3>1. CASE Known(e)
      BY <3>1, KnownGrows
    <3>2. ASSUME NEW row \in DOMAIN push, Holds(row, e)
          PROVE  (\E r \in DOMAIN push' : Holds(r, e)') \/ Known(e)'
      <4>1. Held(row, e)'
        BY <3>2, HeldStays DEF Held
      <4> QED
        BY <4>1 DEF Held, Holds
    <3> QED
      BY <2>1, <3>1, <3>2 DEF AllFound
  <2>2. CASE e \notin log.orphans
    <3>1. Crash
      BY <2>2, OrphansGrow
    <3>2. /\ UNCHANGED push
          /\ log'.orphans = log.orphans \cup
               {push[i] : i \in {j.row : j \in InAdding("decrypt")} \cap DOMAIN push}
      BY <3>1 DEF Crash, Typed, Logs, dataVars
    <3>3. PICK i \in DOMAIN push : push[i] = e
      BY <2>2, <3>2
    <3> QED
      BY <3>2, <3>3 DEF Holds
  <2> QED
    BY <2>1, <2>2
<1> QED
  BY <1>1, <1>2, <1>3 DEF AllFound

-----------------------------------------------------------------------------
(* Receipts *)

(* Append, of whatever it appends.                                         *)
LEMMA AppendFacts ==
  ASSUME NEW S, NEW s \in Seq(S), NEW j
  PROVE  /\ DOMAIN Append(s, j) = 1..(Len(s) + 1) /\ DOMAIN s = 1..Len(s) /\ Len(s) \in Nat
         /\ \A n \in DOMAIN s : Append(s, j)[n] = s[n]
         /\ Append(s, j)[Len(s) + 1] = j
<1>1. s \in Seq(S \cup {j})
  OBVIOUS
<1> QED
  BY <1>1

(* What the executor of JobManager.add does to the two sequences.          *)
LEMMA StoreFacts ==
  ASSUME Typed, Jobs, StoreJob
  PROVE  /\ 1 \in DOMAIN adding
         /\ \A n \in DOMAIN adding' : n \in Nat /\ n + 1 \in DOMAIN adding /\ adding'[n] = adding[n + 1]
         /\ \A n \in DOMAIN adding : n # 1 => n - 1 \in DOMAIN adding' /\ adding'[n - 1] = adding[n]
         /\ \A n \in DOMAIN stored : n \in DOMAIN stored' /\ stored'[n] = stored[n]
         /\ \A n \in DOMAIN stored' :
              \/ n \in DOMAIN stored
              \/ /\ stored'[n].kind = adding[1].kind /\ stored'[n].row = adding[1].row
                 /\ stored'[n].e = adding[1].e /\ stored'[n].id = lastId + 1
         /\ adding[1].kind # "fetch" =>
              \E n \in DOMAIN stored' :
                /\ stored'[n].kind = adding[1].kind /\ stored'[n].row = adding[1].row
                /\ stored'[n].e = adding[1].e /\ stored'[n].id = lastId + 1
<1> DEFINE j == [Head(adding) EXCEPT !.id = lastId + 1]
<1>0. adding \in Seq(SoundJob) /\ stored \in Seq(SoundJob)
  BY DEF Typed
<1>1. /\ adding' = Tail(adding) /\ adding # <<>>
      /\ stored' = IF j.persistent THEN Append(stored, j) ELSE stored
  BY DEF StoreJob
<1>2. 1 \in DOMAIN adding /\ Head(adding) = adding[1] /\ adding[1] \in SoundJob
  BY <1>0, <1>1
<1>3. /\ j.kind = adding[1].kind /\ j.e = adding[1].e /\ j.row = adding[1].row
      /\ j.persistent = adding[1].persistent /\ j.id = lastId + 1
  BY <1>2 DEF SoundJob, Job
<1> HIDE DEF j
<1>4. j.kind # "fetch" => j.persistent
  BY <1>2, <1>3 DEF Jobs, JobsFormed, Formed
<1>5. /\ \A n \in DOMAIN adding' : n \in Nat /\ n + 1 \in DOMAIN adding /\ adding'[n] = adding[n + 1]
      /\ \A n \in DOMAIN adding : n # 1 => n - 1 \in DOMAIN adding' /\ adding'[n - 1] = adding[n]
  BY <1>0, <1>1
<1>6. /\ DOMAIN Append(stored, j) = 1..(Len(stored) + 1) /\ DOMAIN stored = 1..Len(stored) /\ Len(stored) \in Nat
      /\ \A n \in DOMAIN stored : Append(stored, j)[n] = stored[n]
      /\ Append(stored, j)[Len(stored) + 1] = j
  BY <1>0, AppendFacts
<1>7. CASE ~j.persistent
  BY <1>1, <1>2, <1>3, <1>4, <1>5, <1>7
<1>8. CASE j.persistent
  <2>0. stored' = Append(stored, j)
    BY <1>1, <1>8
  <2>1. \A n \in DOMAIN stored : n \in DOMAIN stored' /\ stored'[n] = stored[n]
    BY <1>6, <2>0
  <2>2. \A n \in DOMAIN stored' : n \in DOMAIN stored \/ stored'[n] = j
    BY <1>6, <2>0
  <2>3. Len(stored) + 1 \in DOMAIN stored' /\ stored'[Len(stored) + 1] = j
    BY <1>6, <2>0
  <2> QED
    BY <1>2, <1>3, <1>5, <2>1, <2>2, <2>3
<1> QED
  BY <1>7, <1>8

(* The steps that change what is given to add, or stored.                  *)
LEMMA AddingKinds ==
  ASSUME [Next]_vars
  PROVE  \/ UNCHANGED adding \/ StoreJob \/ Crash
         \/ \E j : adding' = Append(adding, j) /\ j.kind \in {"content", "fetch"}
         \/ \E t \in Threads : AddDecryptJob(t) \/ AddReceiptJob(t)
<1>1. PushNotificationReceiveJob.kind = "fetch" /\ \A e : PushContentReceiveJob(e).kind = "content"
  BY DEF PushNotificationReceiveJob, PushContentReceiveJob, NoJob
<1>2. CASE Arrive
  BY <1>2 DEF Arrive, jobVars
<1>3. CASE ReceivedMessage
  BY <1>1, <1>3 DEF ReceivedMessage
<1>4. CASE ReceivedNotification
  BY <1>1, <1>4 DEF ReceivedNotification
<1>5. ASSUME NEW t \in Threads, \/ \E blocked \in Blocking : Find(t, blocked)
                               \/ InsertRow(t) \/ Acknowledge(t) \/ LoseAck(t)
      PROVE  UNCHANGED adding
  BY <1>5 DEF Find, InsertRow, Acknowledge, LoseAck, jobVars
<1>6. ASSUME NEW c \in Consumers,
             \/ TakeJob(c) \/ RetrieveMessages(c) \/ RetrieveFails(c) \/ ReadContent(c)
             \/ SendReceipt(c) \/ ReceiptFails(c) \/ GetRow(c) \/ DeleteRow(c)
             \/ Decrypt(c) \/ InsertMessageInbox(c) \/ FinishJob(c)
      PROVE  UNCHANGED adding
  BY <1>6 DEF TakeJob, RetrieveMessages, RetrieveFails, ReadContent, SendReceipt, ReceiptFails, GetRow,
     DeleteRow, Decrypt, InsertMessageInbox, FinishJob, jobVars
<1>7. UNCHANGED jobVars => UNCHANGED adding
  BY DEF jobVars
<1> QED
  BY <1>2, <1>3, <1>4, <1>5, <1>6, <1>7, StepKinds

LEMMA StoredKinds ==
  ASSUME [Next]_vars
  PROVE  UNCHANGED stored \/ StoreJob \/ \E c \in Consumers : FinishJob(c)
<1>1. ASSUME Arrive \/ ReceivedMessage \/ ReceivedNotification \/ Crash PROVE UNCHANGED stored
  BY <1>1 DEF Arrive, ReceivedMessage, ReceivedNotification, Crash, jobVars
<1>2. ASSUME NEW t \in Threads, \/ \E blocked \in Blocking : Find(t, blocked)
                               \/ InsertRow(t) \/ AddDecryptJob(t) \/ AddReceiptJob(t)
                               \/ Acknowledge(t) \/ LoseAck(t)
      PROVE  UNCHANGED stored
  BY <1>2 DEF Find, InsertRow, AddDecryptJob, AddReceiptJob, Acknowledge, LoseAck, jobVars
<1>3. ASSUME NEW c \in Consumers,
             \/ TakeJob(c) \/ RetrieveMessages(c) \/ RetrieveFails(c) \/ ReadContent(c)
             \/ SendReceipt(c) \/ ReceiptFails(c) \/ GetRow(c) \/ DeleteRow(c)
             \/ Decrypt(c) \/ InsertMessageInbox(c)
      PROVE  UNCHANGED stored
  BY <1>3 DEF TakeJob, RetrieveMessages, RetrieveFails, ReadContent, SendReceipt, ReceiptFails, GetRow,
     DeleteRow, Decrypt, InsertMessageInbox, jobVars
<1>4. UNCHANGED jobVars => UNCHANGED stored
  BY DEF jobVars
<1> QED
  BY <1>1, <1>2, <1>3, <1>4, StepKinds

(* A receipt is counted when its job runs.                                 *)
LEMMA ReceiptsGrow ==
  ASSUME Typed, [Next]_vars, NEW e \in log'.receipts, e \notin log.receipts
  PROVE  \E c \in Consumers : Run(c, "receipt") /\ e = thread[c].job.e
<1>0. log \in Logs
  BY DEF Typed
<1>1. ASSUME NEW t \in Threads, NEW blocked \in Blocking, Find(t, blocked)
      PROVE  log'.receipts = log.receipts
  BY <1>0, <1>1 DEF Find, Logs
<1>2. ASSUME NEW t \in Threads, InsertRow(t) \/ AddDecryptJob(t) \/ AddReceiptJob(t) \/ Acknowledge(t) \/ LoseAck(t)
      PROVE  UNCHANGED log
  BY <1>2 DEF InsertRow, AddDecryptJob, AddReceiptJob, Acknowledge, LoseAck, restVars
<1>3. ASSUME NEW c \in Consumers, GetRow(c) PROVE log'.receipts = log.receipts
  BY <1>0, <1>3 DEF GetRow, Logs
<1>4. ASSUME NEW c \in Consumers,
             \/ TakeJob(c) \/ RetrieveMessages(c) \/ RetrieveFails(c) \/ ReadContent(c)
             \/ Decrypt(c) \/ InsertMessageInbox(c) \/ DeleteRow(c) \/ FinishJob(c)
      PROVE  UNCHANGED log
  BY <1>4 DEF TakeJob, RetrieveMessages, RetrieveFails, ReadContent, Decrypt, InsertMessageInbox,
     DeleteRow, FinishJob, restVars
<1>5. ASSUME Arrive \/ ReceivedMessage \/ ReceivedNotification \/ StoreJob PROVE UNCHANGED log
  BY <1>5 DEF Arrive, ReceivedMessage, ReceivedNotification, StoreJob, restVars
<1>6. CASE Crash
  BY <1>0, <1>6 DEF Crash, Logs
<1>7. ASSUME NEW c \in Consumers, SendReceipt(c) \/ ReceiptFails(c)
      PROVE  Run(c, "receipt") /\ e = thread[c].job.e
  BY <1>0, <1>7 DEF SendReceipt, ReceiptFails, Logs
<1> QED
  BY <1>1, <1>2, <1>3, <1>4, <1>5, <1>6, <1>7, StepKinds

LEMMA ReceiptsNext ==
  ASSUME Typed, Jobs, RowsHeld, Channels, HandledSafely, ReceiptsBehind, [Next]_vars
  PROVE  ReceiptsBehind'
<1>0. adding \in Seq(SoundJob) /\ stored \in Seq(SoundJob)
  BY DEF Typed
<1>1. ASSUME NEW e \in log'.receipts PROVE Secured(e)'
  <2>1. CASE e \in log.receipts
    BY <2>1, SecuredStays DEF ReceiptsBehind
  <2>2. CASE e \notin log.receipts
    <3>1. PICK c \in Consumers : Run(c, "receipt") /\ e = thread[c].job.e
      BY <2>2, ReceiptsGrow
    <3>2. PICK m \in DOMAIN stored : Same(stored[m], thread[c].job)
      BY <3>1, RunsStored DEF Run
    <3>3. Secured(e)
      BY <3>1, <3>2 DEF Run, Same, ReceiptsBehind
    <3> QED
      BY <3>3, SecuredStays
  <2> QED
    BY <2>1, <2>2
<1>2. ASSUME NEW n \in DOMAIN stored', stored'[n].kind = "receipt"
      PROVE  \E e : e = stored'[n].e /\ Secured(e)'
  <2>1. ASSUME NEW m \in DOMAIN stored, stored'[n] = stored[m] PROVE \E e : e = stored'[n].e /\ Secured(e)'
    BY <1>2, <2>1, SecuredStays DEF ReceiptsBehind
  <2>2. CASE UNCHANGED stored
    BY <2>1, <2>2
  <2>3. ASSUME NEW c \in Consumers, FinishJob(c) PROVE \E e : e = stored'[n].e /\ Secured(e)'
    BY <2>1, <2>3, FinishStored
  <2>4. CASE StoreJob
    <3>1. CASE n \in DOMAIN stored
      BY <2>1, <2>4, <3>1, StoreFacts
    <3>2. CASE n \notin DOMAIN stored
      <4>1. 1 \in DOMAIN adding /\ adding[1].kind = "receipt" /\ adding[1].e = stored'[n].e
        BY <1>2, <2>4, <3>2, StoreFacts
      <4>2. Secured(adding[1].e)
        BY <4>1 DEF ReceiptsBehind
      <4> QED
        BY <4>1, <4>2, SecuredStays
    <3> QED
      BY <3>1, <3>2
  <2> QED
    BY <2>2, <2>3, <2>4, StoredKinds
<1> DEFINE Behind(n, e) == Secured(e) \/ \E m \in 1..(n - 1) : adding[m].kind = "decrypt" /\ adding[m].e = e
<1>3. ASSUME NEW n \in DOMAIN adding', adding'[n].kind = "receipt"
      PROVE  \E e : e = adding'[n].e /\ Behind(n, e)'
  <2>1. ASSUME n \in DOMAIN adding, \A m \in 1..n : adding'[m] = adding[m]
        PROVE  \E e : e = adding'[n].e /\ Behind(n, e)'
    <3>1. n \in Nat /\ n \in 1..n /\ adding'[n] = adding[n]
      BY <1>0, <2>1
    <3>2. PICK e : e = adding'[n].e /\ Behind(n, e)
      <4>1. n \in DOMAIN adding /\ adding[n].kind = "receipt"
        BY <1>3, <2>1, <3>1
      <4>2. Behind(n, adding[n].e)
        BY <4>1 DEF ReceiptsBehind
      <4> QED
        BY <3>1, <4>2
    <3>3. CASE Secured(e)
      BY <3>2, <3>3, SecuredStays
    <3>4. ASSUME NEW m \in 1..(n - 1), adding[m].kind = "decrypt", adding[m].e = e
          PROVE  adding'[m].kind = "decrypt" /\ adding'[m].e = e
      <4>1. m \in 1..n
        BY <3>1
      <4> QED
        BY <2>1, <3>4, <4>1
    <3>5. Behind(n, e)'
      BY <3>2, <3>3, <3>4
    <3> QED
      BY <3>2, <3>5
  <2>2. CASE UNCHANGED adding
    BY <2>1, <2>2
  <2>3. ASSUME NEW j, adding' = Append(adding, j), n # Len(adding) + 1
        PROVE  n \in DOMAIN adding /\ \A m \in 1..n : adding'[m] = adding[m]
    BY <1>0, <2>3, AppendFacts
  <2>4. ASSUME NEW j, adding' = Append(adding, j), j.kind # "receipt"
        PROVE  \E e : e = adding'[n].e /\ Behind(n, e)'
    <3>1. n # Len(adding) + 1
      BY <1>0, <1>3, <2>4, AppendFacts
    <3> QED
      BY <2>1, <2>3, <2>4, <3>1
  <2>5. CASE Crash
    <3>1. adding' = <<>>
      BY <2>5 DEF Crash
    <3> QED
      BY <3>1
  <2>6. ASSUME NEW t \in Threads, AddDecryptJob(t) PROVE \E e : e = adding'[n].e /\ Behind(n, e)'
    <3>1. PushDecryptJob(thread[t].row, thread[t].e).kind = "decrypt"
      BY DEF PushDecryptJob, NoJob
    <3> QED
      BY <2>4, <2>6, <3>1 DEF AddDecryptJob
  <2>7. ASSUME NEW t \in Threads, AddReceiptJob(t) PROVE \E e : e = adding'[n].e /\ Behind(n, e)'
    <3> DEFINE j == DeliveryReceiptJob(thread[t].e)
    <3>1. adding' = Append(adding, j) /\ thread[t].pc = "receipt"
      BY <2>7 DEF AddReceiptJob
    <3>2. j.e = thread[t].e
      BY DEF DeliveryReceiptJob, NoJob
    <3> HIDE DEF j
    <3>3. CASE n # Len(adding) + 1
      BY <2>1, <2>3, <3>1, <3>3
    <3>4. CASE n = Len(adding) + 1
      <4>1. /\ adding'[n].e = thread[t].e /\ Len(adding) \in Nat /\ DOMAIN adding = 1..Len(adding)
            /\ \A m \in 1..Len(adding) : adding'[m] = adding[m]
        BY <1>0, <3>1, <3>2, <3>4, AppendFacts
      <4>2. PICK e : e = thread[t].e /\ (Secured(e) \/ OwnAdding(e))
        BY <3>1 DEF HandledSafely
      <4>3. CASE Secured(e)
        BY <4>1, <4>2, <4>3, SecuredStays
      <4>4. ASSUME NEW m \in DOMAIN adding, adding[m].kind = "decrypt", adding[m].e = e
            PROVE  Behind(n, e)'
        <5>1. m \in 1..(n - 1)
          BY <3>4, <4>1, <4>4
        <5>2. adding'[m].kind = "decrypt" /\ adding'[m].e = e
          BY <4>1, <4>4
        <5> QED
          BY <5>1, <5>2
      <4> QED
        BY <4>1, <4>2, <4>3, <4>4 DEF OwnAdding
    <3> QED
      BY <3>3, <3>4
  <2>8. CASE StoreJob
    <3>1. n \in Nat /\ n + 1 \in DOMAIN adding /\ adding'[n] = adding[n + 1]
      BY <2>8, StoreFacts
    <3>2. PICK e : e = adding'[n].e /\ Behind(n + 1, e)
      BY <1>3, <3>1 DEF ReceiptsBehind
    <3>3. CASE Secured(e)
      BY <3>2, <3>3, SecuredStays
    <3>4. ASSUME NEW m \in 1..n, adding[m].kind = "decrypt", adding[m].e = e
          PROVE  Behind(n, e)'
      <4>0. m \in DOMAIN adding
        BY <1>0, <3>1
      <4>1. CASE m = 1
        <5>1. \E k \in DOMAIN stored' : stored'[k].kind = "decrypt" /\ stored'[k].e = e
          BY <2>8, <3>4, <4>1, StoreFacts
        <5>2. Secured(e)'
          BY <5>1 DEF Secured, OwnStored
        <5> QED
          BY <5>2
      <4>2. CASE m # 1
        <5>1. adding'[m - 1] = adding[m]
          BY <2>8, <4>0, <4>2, StoreFacts
        <5>2. m - 1 \in 1..(n - 1)
          BY <3>1, <4>2
        <5> QED
          BY <3>4, <5>1, <5>2
      <4> QED
        BY <4>1, <4>2
    <3>5. (n + 1) - 1 = n
      BY <3>1
    <3> QED
      BY <3>2, <3>3, <3>4, <3>5
  <2> QED
    BY <2>2, <2>4, <2>5, <2>6, <2>7, <2>8, AddingKinds
<1> QED
  BY <1>1, <1>2, <1>3 DEF ReceiptsBehind, Secured, OwnStored

-----------------------------------------------------------------------------
(* The invariant and what follows from it *)

KeptInv == Typed /\ Jobs /\ Rows /\ Kept

LEMMA KeptInit == Init => KeptInv
<1> SUFFICES ASSUME Init PROVE KeptInv
  OBVIOUS
<1>1. Typed /\ Jobs
  BY TypedInit, JobsInit
<1>2. /\ \A t \in Threads : thread[t].pc \in {"check", "idle"} /\ thread[t].todo = <<>>
      /\ DOMAIN stored = {} /\ DOMAIN adding = {} /\ DOMAIN push = {} /\ server = {} /\ arrived = 0
      /\ log.lost = {} /\ log.orphans = {} /\ log.receipts = {}
  BY DEF Init, Start, Rest
<1>3. RowsHeld
  BY <1>2 DEF RowsHeld, ThreadHeld
<1>4. Channels
  BY <1>2 DEF Channels, ThreadChannel, Handling
<1>5. LostUnseen
  BY <1>2 DEF LostUnseen
<1>6. HandledSafely /\ AllFound /\ ReceiptsBehind
  BY <1>2 DEF HandledSafely, AllFound, ReceiptsBehind
<1> QED
  BY <1>1, <1>3, <1>4, <1>5, <1>6 DEF KeptInv, Rows, Kept

LEMMA KeptNext == KeptInv /\ [Next]_vars => KeptInv'
BY TypedNext, JobsNext, HeldNext, ChannelNext, LostNext, HandledNext, AllFoundNext, ReceiptsNext
   DEF KeptInv, Rows, Kept

(* What a stored decrypt job will still show, or has shown.                *)
LEMMA JobFound ==
  ASSUME Typed, Jobs, RowsHeld, NEW n \in DOMAIN stored, stored[n].kind = "decrypt"
  PROVE  Known(stored[n].e) \/ \E i \in RowsOf(stored[n].e) : HasJob(i)
<1>1. Held(stored[n].row, stored[n].e)
  BY DEF RowsHeld
<1>2. stored[n] \in ToSet(stored \o adding)
  <2>1. stored \in Seq(SoundJob) /\ adding \in Seq(SoundJob)
    BY DEF Typed
  <2>2. n \in DOMAIN (stored \o adding) /\ (stored \o adding)[n] = stored[n]
    BY <2>1, ConcatProperties
  <2> QED
    BY <2>2 DEF ToSet
<1>3. CASE stored[n].id \notin Finished
  BY <1>1, <1>2, <1>3 DEF Held, Holds, RowsOf, HasJob
<1>4. CASE stored[n].id \in Finished
  <2>1. PICK c \in Consumers : thread[c].pc = "done" /\ thread[c].job.id = stored[n].id
    BY <1>4 DEF Finished
  <2>2. c \in Busy
    BY <2>1 DEF Busy
  <2>3. \A k \in DOMAIN queue : ~Same(stored[n], queue[k])
    BY <2>1, <2>2 DEF Jobs, JobsApart, Same
  <2>4. PICK d \in Busy : Same(stored[n], thread[d].job)
    BY <2>3 DEF Jobs, JobsKept
  <2>5. d = c
    BY <2>1, <2>2, <2>4 DEF Jobs, JobsApart, Same
  <2>6. Known(thread[c].job.e)
    BY <2>1, <2>4, <2>5 DEF RowsHeld, ThreadHeld, Threads, Same
  <2> QED
    BY <2>4, <2>5, <2>6 DEF Same
<1> QED
  BY <1>3, <1>4

LEMMA AddingFound ==
  ASSUME Typed, Jobs, RowsHeld, NEW n \in DOMAIN adding, adding[n].kind = "decrypt"
  PROVE  Known(adding[n].e) \/ \E i \in RowsOf(adding[n].e) : HasJob(i)
<1>1. Held(adding[n].row, adding[n].e)
  BY DEF RowsHeld
<1>2. adding[n] \in ToSet(stored \o adding)
  <2>1. stored \in Seq(SoundJob) /\ adding \in Seq(SoundJob)
    BY DEF Typed
  <2>2. /\ Len(stored) + n \in DOMAIN (stored \o adding)
        /\ (stored \o adding)[Len(stored) + n] = adding[n]
    <3>1. n \in 1..Len(adding) /\ Len(stored) \in Nat /\ Len(adding) \in Nat
      BY <2>1
    <3>2. /\ DOMAIN (stored \o adding) = 1..(Len(stored) + Len(adding))
          /\ (stored \o adding)[Len(stored) + n] = adding[(Len(stored) + n) - Len(stored)]
      BY <2>1, <3>1, ConcatProperties
    <3> QED
      BY <3>1, <3>2
  <2> QED
    BY <2>2 DEF ToSet
<1>3. adding[n].id = 0
  BY DEF Jobs, JobsFormed
<1>4. 0 \notin Finished
  BY DEF Finished, Busy, Jobs, JobsFormed
<1> QED
  BY <1>1, <1>2, <1>3, <1>4 DEF Held, Holds, RowsOf, HasJob

LEMMA ContentFound ==
  ASSUME Typed, NEW e,
         \/ \E n \in DOMAIN stored : stored[n].kind = "content" /\ stored[n].e = e
         \/ \E n \in DOMAIN adding : adding[n].kind = "content" /\ adding[n].e = e
  PROVE  e \in ContentJobs
<1>1. stored \in Seq(SoundJob) /\ adding \in Seq(SoundJob)
  BY DEF Typed
<1>2. ASSUME NEW n \in DOMAIN stored PROVE stored[n] \in ToSet(stored \o adding)
  <2>2. n \in DOMAIN (stored \o adding) /\ (stored \o adding)[n] = stored[n]
    BY <1>1, ConcatProperties
  <2> QED
    BY <2>2 DEF ToSet
<1>3. ASSUME NEW n \in DOMAIN adding PROVE adding[n] \in ToSet(stored \o adding)
  <2>1. n \in 1..Len(adding) /\ Len(stored) \in Nat /\ Len(adding) \in Nat
    BY <1>1
  <2>2. /\ DOMAIN (stored \o adding) = 1..(Len(stored) + Len(adding))
        /\ (stored \o adding)[Len(stored) + n] = adding[(Len(stored) + n) - Len(stored)]
    BY <1>1, <2>1, ConcatProperties
  <2>3. Len(stored) + n \in DOMAIN (stored \o adding) /\ (stored \o adding)[Len(stored) + n] = adding[n]
    BY <2>1, <2>2
  <2> QED
    BY <2>3 DEF ToSet
<1> QED
  BY <1>2, <1>3 DEF ContentJobs

LEMMA KnownMeans ==
  ASSUME NEW e, Known(e)
  PROVE  e \in Shown \cup Showing \cup Swallowed
BY DEF Known, Swallowed

LEMMA StoredJobHeld == KeptInv => StoredHasJob
<1> SUFFICES ASSUME KeptInv, NEW e \in Range(push)
             PROVE  \/ e \in Shown \cup Showing \cup Swallowed
                    \/ e \in server \cup ContentJobs \cup log.orphans \cup log.dropped
                    \/ \E i \in RowsOf(e) : HasJob(i)
  BY DEF StoredHasJob
<1>0. Typed /\ Jobs /\ RowsHeld /\ Channels /\ LostUnseen /\ AllFound
  BY DEF KeptInv, Rows, Kept
<1>1. PICK row \in DOMAIN push : push[row] = e
  BY DEF Range
<1>2. e \in 1..arrived /\ e \notin log.lost
  BY <1>0, <1>1 DEF Channels, LostUnseen, Untouched
<1>3. Found(e)
  BY <1>0, <1>2 DEF AllFound
<1>4. CASE Known(e)
  BY <1>4, KnownMeans
<1>5. CASE OwnStored(e)
  BY <1>0, <1>4, <1>5, JobFound DEF OwnStored
<1>6. CASE OwnAdding(e)
  BY <1>0, <1>4, <1>6, AddingFound DEF OwnAdding
<1> QED
  BY <1>0, <1>2, <1>3, <1>4, <1>5, <1>6, ContentFound DEF Found, Secured, Known

(* An envelope stored in the push table keeps a job that will show it, or  *)
(* is accounted for otherwise; only a crash in JobManager.add strands it.  *)
THEOREM StoredEnvelopesHaveJobs == Spec => []StoredHasJob
<1> QED
  BY KeptInit, KeptNext, StoredJobHeld, PTL DEF Spec

LEMMA ReceiptHeld == KeptInv => ReceiptMeansStored
<1> SUFFICES ASSUME KeptInv, NEW e \in log.receipts
             PROVE  \/ e \in Shown \cup Showing \cup Swallowed \cup log.dropped
                    \/ \E i \in RowsOf(e) : HasJob(i)
  BY DEF ReceiptMeansStored
<1>0. Typed /\ Jobs /\ RowsHeld /\ ReceiptsBehind
  BY DEF KeptInv, Rows, Kept
<1>1. Secured(e)
  BY <1>0 DEF ReceiptsBehind
<1>2. CASE Known(e)
  BY <1>2, KnownMeans
<1>3. CASE OwnStored(e)
  BY <1>0, <1>2, <1>3, JobFound DEF OwnStored
<1> QED
  BY <1>1, <1>2, <1>3 DEF Secured, Known

(* An explicit delivery receipt is sent only for an envelope whose decrypt *)
(* job was stored before: PushContentReceiveJob queues the receipt last.   *)
THEOREM ReceiptsComeAfterStorage == Spec => []ReceiptMeansStored
<1> QED
  BY KeptInit, KeptNext, ReceiptHeld, PTL DEF Spec

-----------------------------------------------------------------------------
(* What a crash can swallow *)

(* A message about to be shown is shown, unless the process dies.          *)
LEMMA ShowStays ==
  ASSUME Typed, Jobs, [Next]_vars, ~Crash, NEW c \in Consumers, thread[c].pc = "show"
  PROVE  thread'[c] = thread[c] \/ InsertMessageInbox(c)
<1>0. /\ thread \in [Threads -> SoundThread] /\ c \in Threads /\ c # Service
      /\ \A t \in Consumers : t \in Threads
  BY ConsumersAssumption DEF Typed, Threads
<1>1. ASSUME NEW t \in Threads, Only(t), t # c PROVE thread'[c] = thread[c]
  BY <1>0, <1>1 DEF Only
<1>2. ASSUME NEW t \in Threads, \/ \E blocked \in Blocking : Find(t, blocked)
                               \/ InsertRow(t) \/ AddDecryptJob(t) \/ AddReceiptJob(t)
                               \/ Acknowledge(t) \/ LoseAck(t)
      PROVE  thread'[c] = thread[c]
  <2>1. thread[t].pc \in {"find", "insert", "add", "receipt", "ack"}
    BY <1>2 DEF Find, InsertRow, AddDecryptJob, AddReceiptJob, Acknowledge, LoseAck
  <2>2. t # c
    BY <2>1
  <2> QED
    BY <1>0, <1>2, <2>2 DEF Find, InsertRow, AddDecryptJob, AddReceiptJob, Acknowledge, LoseAck, Goto, RetryLater
<1>3. ASSUME NEW d \in Consumers, \/ TakeJob(d) \/ RetrieveMessages(d) \/ RetrieveFails(d) \/ ReadContent(d)
                                 \/ SendReceipt(d) \/ ReceiptFails(d) \/ GetRow(d) \/ Decrypt(d)
                                 \/ DeleteRow(d) \/ FinishJob(d)
      PROVE  thread'[c] = thread[c]
  <2>1. thread[d].pc # "show"
    BY <1>3 DEF TakeJob, RetrieveMessages, RetrieveFails, ReadContent, SendReceipt, ReceiptFails, GetRow,
       Decrypt, DeleteRow, FinishJob, Run
  <2>2. d # c
    BY <2>1
  <2> QED
    BY <1>0, <1>3, <2>2 DEF TakeJob, RetrieveMessages, RetrieveFails, ReadContent, SendReceipt, ReceiptFails,
       GetRow, Decrypt, DeleteRow, FinishJob, Goto, RetryLater
<1>4. ASSUME NEW d \in Consumers, InsertMessageInbox(d), d # c PROVE thread'[c] = thread[c]
  BY <1>0, <1>4 DEF InsertMessageInbox, Goto
<1>5. ASSUME \/ CheckConnection \/ Read \/ ReadEnds \/ NotifyAll PROVE thread'[c] = thread[c]
  BY <1>0, <1>5 DEF CheckConnection, Read, ReadEnds, NotifyAll, Goto
<1>6. ASSUME Arrive \/ ReceivedMessage \/ ReceivedNotification \/ StoreJob PROVE thread'[c] = thread[c]
  BY <1>6 DEF Arrive, ReceivedMessage, ReceivedNotification, StoreJob
<1> QED
  BY <1>2, <1>3, <1>4, <1>5, <1>6, StepKinds

(* Only cipher.decrypt uses up a key, and the message is shown next.       *)
LEMMA SessionGrows ==
  ASSUME Typed, [Next]_vars, NEW e \in session', e \notin session
  PROVE  e \in Showing'
<1>1. ASSUME NEW c \in Consumers, Decrypt(c) PROVE e \in Showing'
  <2>1. e = thread[c].e /\ Goto(c, "show")
    BY <1>1 DEF Decrypt
  <2>2. thread'[c].pc = "show" /\ thread'[c].e = e
    BY <2>1, GotoFacts DEF Threads
  <2> QED
    BY <2>2 DEF Showing
<1>2. ASSUME Arrive \/ ReceivedMessage \/ ReceivedNotification \/ StoreJob \/ Crash
      PROVE  UNCHANGED session
  BY <1>2 DEF Arrive, ReceivedMessage, ReceivedNotification, StoreJob, Crash, dataVars
<1>3. ASSUME NEW t \in Threads, \/ \E blocked \in Blocking : Find(t, blocked)
                               \/ InsertRow(t) \/ AddDecryptJob(t) \/ AddReceiptJob(t)
                               \/ Acknowledge(t) \/ LoseAck(t)
      PROVE  UNCHANGED session
  BY <1>3 DEF Find, InsertRow, AddDecryptJob, AddReceiptJob, Acknowledge, LoseAck, dataVars
<1>4. ASSUME NEW c \in Consumers,
             \/ TakeJob(c) \/ RetrieveMessages(c) \/ RetrieveFails(c) \/ ReadContent(c)
             \/ SendReceipt(c) \/ ReceiptFails(c) \/ GetRow(c) \/ DeleteRow(c) \/ FinishJob(c)
             \/ InsertMessageInbox(c)
      PROVE  UNCHANGED session
  BY <1>4 DEF TakeJob, RetrieveMessages, RetrieveFails, ReadContent, SendReceipt, ReceiptFails, GetRow,
     DeleteRow, FinishJob, InsertMessageInbox, dataVars
<1>5. UNCHANGED dataVars => UNCHANGED session
  BY DEF dataVars
<1> QED
  BY <1>1, <1>2, <1>3, <1>4, <1>5, StepKinds

LEMMA ShownStays ==
  ASSUME Typed, [Next]_vars
  PROVE  /\ Shown \subseteq Shown'
         /\ \A c \in Consumers : InsertMessageInbox(c) => thread[c].e \in Shown'
<1>0. inbox \in Seq(Envelopes)
  BY DEF Typed, TypeOK
<1>1. ASSUME NEW x, inbox' = Append(inbox, x) PROVE Shown \subseteq Shown' /\ x \in Shown'
  <2>1. \A n \in DOMAIN inbox : n \in DOMAIN inbox' /\ inbox'[n] = inbox[n]
    BY <1>0, <1>1, AppendFacts
  <2>2. Len(inbox) + 1 \in DOMAIN inbox' /\ inbox'[Len(inbox) + 1] = x
    BY <1>0, <1>1, AppendFacts
  <2> QED
    BY <2>1, <2>2 DEF Shown, ToSet
<1>2. ASSUME NEW c \in Consumers, InsertMessageInbox(c) PROVE inbox' = Append(inbox, thread[c].e)
  BY <1>2 DEF InsertMessageInbox
<1>3. ASSUME Arrive \/ ReceivedMessage \/ ReceivedNotification \/ StoreJob \/ Crash
      PROVE  UNCHANGED inbox
  BY <1>3 DEF Arrive, ReceivedMessage, ReceivedNotification, StoreJob, Crash, dataVars
<1>4. ASSUME NEW t \in Threads, \/ \E blocked \in Blocking : Find(t, blocked)
                               \/ InsertRow(t) \/ AddDecryptJob(t) \/ AddReceiptJob(t)
                               \/ Acknowledge(t) \/ LoseAck(t)
      PROVE  UNCHANGED inbox
  BY <1>4 DEF Find, InsertRow, AddDecryptJob, AddReceiptJob, Acknowledge, LoseAck, dataVars
<1>5. ASSUME NEW c \in Consumers,
             \/ TakeJob(c) \/ RetrieveMessages(c) \/ RetrieveFails(c) \/ ReadContent(c)
             \/ SendReceipt(c) \/ ReceiptFails(c) \/ GetRow(c) \/ DeleteRow(c) \/ FinishJob(c)
             \/ Decrypt(c)
      PROVE  UNCHANGED inbox
  BY <1>5 DEF TakeJob, RetrieveMessages, RetrieveFails, ReadContent, SendReceipt, ReceiptFails, GetRow,
     DeleteRow, FinishJob, Decrypt, dataVars
<1>6. UNCHANGED dataVars => UNCHANGED inbox
  BY DEF dataVars
<1>7. UNCHANGED inbox => Shown \subseteq Shown'
  BY DEF Shown
<1> QED
  BY <1>1, <1>2, <1>3, <1>4, <1>5, <1>6, <1>7, StepKinds

SwallowedFew == Cardinality(Swallowed) <= used.crashes

LEMMA SwallowedFinite == Typed => IsFiniteSet(Swallowed) /\ Cardinality(Swallowed) \in Nat
<1> SUFFICES ASSUME Typed PROVE IsFiniteSet(Swallowed) /\ Cardinality(Swallowed) \in Nat
  OBVIOUS
<1>1. IsFiniteSet(Envelopes)
  BY EnvelopesAssumption, FS_Interval DEF Envelopes
<1>2. Swallowed \in SUBSET Envelopes
  BY DEF Swallowed, Typed, TypeOK
<1> QED
  BY <1>1, <1>2, FS_Subset, FS_CardinalityType

LEMMA CrashCounted ==
  ASSUME Typed, [Next]_vars
  PROVE  /\ used'.crashes >= used.crashes
         /\ Crash => used'.crashes = used.crashes + 1
         /\ ~Crash => used'.crashes = used.crashes
<1>0. used \in Usage /\ used.crashes \in Nat
  BY DEF Typed, Usage
<1>1. CASE Crash
  BY <1>0, <1>1 DEF Crash, Usage
<1>2. ASSUME UNCHANGED used PROVE used'.crashes = used.crashes
  BY <1>2
<1>3. ASSUME \/ Arrive \/ ReceivedMessage \/ StoreJob \/ DecrementActive \/ RegainNetwork
             \/ ServiceStep \/ UNCHANGED vars
      PROVE  UNCHANGED used
  BY <1>3 DEF Arrive, ReceivedMessage, StoreJob, DecrementActive, RegainNetwork, ServiceStep,
     CheckConnection, Read, ReadEnds, vars, restVars
<1>4. ASSUME ReceivedNotification \/ IncrementActive \/ LoseNetwork \/ Failing
      PROVE  used'.crashes = used.crashes
  BY <1>0, <1>4 DEF ReceivedNotification, IncrementActive, LoseNetwork, Failing, Usage
<1>5. ASSUME NEW t \in Threads, HandleStep(t) PROVE UNCHANGED used \/ Failing
  BY <1>5 DEF HandleStep, Find, InsertRow, AddDecryptJob, AddReceiptJob, Acknowledge, LoseAck, restVars
<1>6. ASSUME NEW c \in Consumers, TakeJob(c) \/ JobStep(c) PROVE UNCHANGED used \/ Failing
  BY <1>6 DEF JobStep, TakeJob, RetrieveMessages, RetrieveFails, ReadContent, SendReceipt, ReceiptFails,
     GetRow, FinishJob, Decrypt, InsertMessageInbox, DeleteRow, restVars
<1>7. used'.crashes = used.crashes \/ Crash
  BY <1>2, <1>3, <1>4, <1>5, <1>6 DEF Next
<1> QED
  BY <1>0, <1>1, <1>7

LEMMA SwallowedNext ==
  ASSUME Typed, Jobs, SwallowedFew, [Next]_vars, Typed'
  PROVE  SwallowedFew'
<1>0. /\ used.crashes \in Nat /\ used'.crashes \in Nat
      /\ IsFiniteSet(Swallowed) /\ Cardinality(Swallowed) \in Nat
      /\ IsFiniteSet(Swallowed') /\ Cardinality(Swallowed') \in Nat
  <2>1. Typed' => (IsFiniteSet(Swallowed) /\ Cardinality(Swallowed) \in Nat)'
    BY SwallowedFinite, PTL
  <2> QED
    BY <2>1, SwallowedFinite DEF Typed, Usage
<1>1. CASE ~Crash
  <2>1. Swallowed' \subseteq Swallowed
    <3> SUFFICES ASSUME NEW e \in Swallowed', e \notin Swallowed PROVE FALSE
      OBVIOUS
    <3>1. e \in session' /\ e \notin Shown' /\ e \notin Showing'
      BY DEF Swallowed
    <3>2. e \in session /\ e \notin Shown
      BY <3>1, SessionGrows, ShownStays
    <3>3. PICK c \in Consumers : thread[c].pc = "show" /\ thread[c].e = e
      BY <3>2 DEF Swallowed, Showing
    <3>4. CASE InsertMessageInbox(c)
      BY <3>1, <3>3, <3>4, ShownStays
    <3>5. CASE thread'[c] = thread[c]
      BY <3>1, <3>3, <3>5 DEF Showing
    <3> QED
      BY <1>1, <3>3, <3>4, <3>5, ShowStays
  <2>2. Cardinality(Swallowed') <= Cardinality(Swallowed)
    BY <1>0, <2>1, FS_Subset
  <2> QED
    BY <1>0, <2>2, CrashCounted DEF SwallowedFew
<1>2. CASE Crash
  <2>1. PICK x : Swallowed' \subseteq Swallowed \cup {x}
    <3>1. \A c, d \in Consumers : thread[c].pc = "show" /\ thread[d].pc = "show" => c = d
      BY DecryptsAlone DEF Threads
    <3>2. PICK x : Showing \subseteq {x}
      <4>1. CASE \E c \in Consumers : thread[c].pc = "show"
        <5>1. PICK c \in Consumers : thread[c].pc = "show"
          BY <4>1
        <5>2. Showing \subseteq {thread[c].e}
          BY <3>1, <5>1 DEF Showing
        <5> QED
          BY <5>2
      <4>2. CASE ~ \E c \in Consumers : thread[c].pc = "show"
        BY <4>2 DEF Showing
      <4> QED
        BY <4>1, <4>2
    <3>3. session' = session /\ Shown' = Shown
      BY <1>2 DEF Crash, dataVars, Shown
    <3> QED
      BY <3>2, <3>3 DEF Swallowed
  <2>2. /\ IsFiniteSet(Swallowed \cup {x})
        /\ Cardinality(Swallowed \cup {x}) \in {Cardinality(Swallowed), Cardinality(Swallowed) + 1}
    BY <1>0, FS_AddElement
  <2>3. Cardinality(Swallowed') <= Cardinality(Swallowed \cup {x})
    BY <2>1, <2>2, FS_Subset
  <2> QED
    BY <1>0, <1>2, <2>2, <2>3, CrashCounted DEF SwallowedFew
<1> QED
  BY <1>1, <1>2

LEMMA NoneVanishesHeld == KeptInv /\ SwallowedFew => NoneVanishes
<1> SUFFICES ASSUME KeptInv, NEW e \in 1..arrived
             PROVE  \/ e \in server \cup Shown \cup Range(push) \cup ContentJobs
                    \/ e \in log.dropped \cup log.lost \cup Swallowed \cup Showing
  BY DEF NoneVanishes, SwallowedFew
<1>0. Typed /\ Jobs /\ RowsHeld /\ AllFound
  BY DEF KeptInv, Rows, Kept
<1>1. Found(e)
  BY <1>0 DEF AllFound
<1>2. CASE Known(e)
  BY <1>2, KnownMeans
<1>3. ASSUME NEW row, Holds(row, e) PROVE e \in Range(push)
  BY <1>3 DEF Holds, Range
<1>4. CASE e \in log.orphans
  BY <1>0, <1>2, <1>3, <1>4 DEF AllFound
<1>5. CASE OwnStored(e)
  BY <1>0, <1>2, <1>3, <1>5 DEF OwnStored, RowsHeld, Held
<1>6. CASE OwnAdding(e)
  BY <1>0, <1>2, <1>3, <1>6 DEF OwnAdding, RowsHeld, Held
<1> QED
  BY <1>0, <1>1, <1>2, <1>4, <1>5, <1>6, ContentFound DEF Found, Secured, Known

(* An envelope the server has let go is shown, stored or lost in one of    *)
(* three known ways, and a death of the process swallows at most one:      *)
(* the decrypt jobs of a group run one at a time.                          *)
THEOREM NothingVanishes == Spec => []NoneVanishes
<1>1. Init => SwallowedFew
  <2>1. Init => Swallowed = {} /\ used.crashes = 0
    BY DEF Init, Swallowed
  <2> QED
    BY <2>1, FS_EmptySet DEF SwallowedFew
<1>2. KeptInv /\ SwallowedFew /\ [Next]_vars => (KeptInv /\ SwallowedFew)'
  <2>1. KeptInv /\ [Next]_vars => Typed'
    BY KeptNext DEF KeptInv
  <2> QED
    BY <2>1, KeptNext, SwallowedNext DEF KeptInv
<1> QED
  BY <1>1, <1>2, KeptInit, NoneVanishesHeld, PTL DEF Spec

-----------------------------------------------------------------------------
(* How a thread comes to handle an envelope *)

Moves(t) ==
  \/ thread'[t] = thread[t]
  \/ thread'[t].pc \notin Handling /\ thread'[t].todo = <<>>
  \/ /\ thread[t].pc \in {"find", "insert", "add"} /\ thread'[t].pc \in Handling
     /\ thread'[t].e = thread[t].e /\ thread'[t].todo = thread[t].todo /\ thread'[t].job = thread[t].job
  \/ /\ thread[t].pc = "ack" /\ thread[t].job.kind # "content" /\ thread[t].todo # <<>>
     /\ thread'[t].pc = "find" /\ thread'[t].e = Head(thread[t].todo)
     /\ thread'[t].todo = Tail(thread[t].todo) /\ thread'[t].job = thread[t].job
  \/ \E list \in InOrder(server) :
       /\ list # <<>> /\ thread'[t].pc = "find" /\ thread'[t].e = Head(list)
       /\ thread'[t].todo = Tail(list) /\ thread'[t].job.kind # "content"
  \/ /\ server # {} /\ thread'[t].pc = "find" /\ thread'[t].e = Min(server)
     /\ thread'[t].todo = <<>> /\ thread'[t].job.kind # "content"
  \/ /\ thread'[t].pc = "find" /\ thread'[t].e \in Direct
     /\ thread'[t].todo = <<>> /\ thread'[t].job.kind = "content"

LEMMA ThreadMoves ==
  ASSUME Typed, Jobs, ListsEmpty, [Next]_vars, NEW u \in Threads
  PROVE  Moves(u)
<1>0. /\ Service \in Threads /\ Service \notin Consumers
      /\ \A c \in Consumers : c \in Threads
      /\ \A t \in Threads : DOMAIN thread[t] = {"pc", "job", "e", "row", "todo"}
      /\ thread[Service].pc # "idle"
  BY ConsumersAssumption DEF Typed, Threads, SoundThread, Thread, Jobs, InPlace
<1>1. ASSUME NEW t \in Threads, Only(t), Moves(t) PROVE Moves(u)
  BY <1>1 DEF Only, Moves
<1>2. ASSUME NEW t \in Threads, thread[t].pc \notin Handling \/ thread[t].job.kind = "content",
             NEW pc, pc \notin Handling, Goto(t, pc)
      PROVE  Moves(u)
  BY <1>1, <1>2, GotoFacts DEF Moves, ListsEmpty
<1>3. ASSUME NEW t \in Threads, thread[t].pc \in {"find", "insert", "add"}, NEW pc, pc \in Handling,
             Goto(t, pc) \/ \E row : ToRow(t, pc, row)
      PROVE  Moves(u)
  <2>1. Only(t) /\ Moves(t)
    BY <1>3, GotoFacts, RowFacts DEF Moves
  <2> QED
    BY <1>1, <2>1
<1>4. ASSUME NEW t \in Threads, RetryLater(t) PROVE Moves(u)
  <2>1. Only(t) /\ Moves(t)
    BY <1>4, RetryFacts DEF Moves, Handling
  <2> QED
    BY <1>1, <2>1
<1>5. ASSUME NEW t \in Threads, NEW r, To(t, r), r.pc \notin Handling, r.todo = <<>> PROVE Moves(u)
  <2>1. Only(t) /\ Moves(t)
    BY <1>5, SetFacts DEF Moves
  <2> QED
    BY <1>1, <2>1
<1>6. ASSUME NEW t \in Threads, NEW blocked \in Blocking, Find(t, blocked) PROVE Moves(u)
  <2>1. thread[t].pc = "find" /\ Handled(t) \in Handling
    BY <1>6 DEF Find, Handled, Handling
  <2>2. Goto(t, Handled(t)) \/ Goto(t, "insert") \/ ToRow(t, "add", Min(RowsOf(thread[t].e)))
    BY <1>6 DEF Find, ToRow
  <2> QED
    BY <1>3, <2>1, <2>2 DEF Handling
<1>7. ASSUME NEW t \in Threads, InsertRow(t) \/ AddDecryptJob(t) PROVE Moves(u)
  <2>1. thread[t].pc \in {"insert", "add"} /\ Handled(t) \in Handling
    BY <1>7 DEF InsertRow, AddDecryptJob, Handled, Handling
  <2>2. Goto(t, Handled(t)) \/ ToRow(t, "add", NewRow)
    BY <1>7 DEF InsertRow, AddDecryptJob, ToRow
  <2> QED
    BY <1>3, <2>1, <2>2 DEF Handling
<1>8. ASSUME NEW t \in Threads, AddReceiptJob(t) PROVE Moves(u)
  <2>1. thread[t].pc = "receipt" /\ Goto(t, "done")
    BY <1>8 DEF AddReceiptJob
  <2>2. thread[t].job.kind = "content"
    BY <2>1, HandlerPlaces
  <2> QED
    BY <1>2, <2>1, <2>2 DEF Handling
<1>9. ASSUME NEW t \in Threads, Acknowledge(t) \/ LoseAck(t) PROVE Moves(u)
  <2>1. thread[t].pc = "ack"
    BY <1>9 DEF Acknowledge, LoseAck
  <2>2. thread[t].job.kind # "content"
    BY <2>1, HandlerPlaces
  <2>3. \/ To(t, Start) \/ (thread[t].todo = <<>> /\ Goto(t, "done")) \/ RetryLater(t)
        \/ thread[t].todo # <<>> /\ ToList(t, "find", Head(thread[t].todo), Tail(thread[t].todo))
    BY <1>0, <1>9 DEF Acknowledge, LoseAck, To, ToList
  <2>4. Start.pc = "check" /\ Start.todo = <<>>
    BY DEF Start, Rest
  <2>5. CASE thread[t].todo = <<>> /\ Goto(t, "done")
    <3>1. Only(t) /\ Moves(t)
      BY <2>5, GotoFacts DEF Moves, Handling
    <3> QED
      BY <1>1, <3>1
  <2>6. CASE thread[t].todo # <<>> /\ ToList(t, "find", Head(thread[t].todo), Tail(thread[t].todo))
    <3>1. Only(t) /\ Moves(t)
      BY <2>1, <2>2, <2>6, ListFacts DEF Moves
    <3> QED
      BY <1>1, <3>1
  <2> QED
    BY <1>4, <1>5, <2>3, <2>4, <2>5, <2>6 DEF Handling
<1>10. ASSUME NEW c \in Consumers, RetrieveMessages(c) PROVE Moves(u)
  <2>1. thread[c].pc = "run" /\ thread[c].job.kind = "fetch"
    BY <1>10 DEF RetrieveMessages, Run
  <2>2. CASE Goto(c, "done")
    BY <1>0, <1>2, <2>1, <2>2 DEF Handling
  <2>3. ASSUME NEW list \in InOrder(server), list # <<>>, ToList(c, "find", Head(list), Tail(list))
        PROVE  Moves(u)
    <3> DEFINE h == Head(list)
               l == Tail(list)
    <3>0. ToList(c, "find", h, l)
      BY <2>3
    <3> HIDE DEF h, l
    <3>1. /\ Only(c) /\ thread'[c].pc = "find" /\ thread'[c].e = h /\ thread'[c].todo = l
          /\ thread'[c].job.kind # "content"
      BY <1>0, <2>1, <3>0, ListFacts
    <3>2. Moves(c)
      BY <2>3, <3>1 DEF Moves, h, l
    <3> QED
      BY <1>0, <1>1, <3>1, <3>2
  <2> QED
    BY <1>10, <2>2, <2>3 DEF RetrieveMessages, ToList
<1>11. ASSUME NEW c \in Consumers, RetrieveFails(c) \/ ReceiptFails(c) PROVE Moves(u)
  BY <1>0, <1>4, <1>11 DEF RetrieveFails, ReceiptFails
<1>12. ASSUME NEW c \in Consumers, ReadContent(c) PROVE Moves(u)
  <2>1. thread[c].pc = "run" /\ thread[c].job.kind = "content" /\ ToEnvelope(c, "find", thread[c].job.e)
    BY <1>12 DEF ReadContent, Run, ToEnvelope
  <2>2. c \in Busy
    BY <2>1 DEF Busy
  <2>3. thread[c].job.e \in Direct /\ thread[c].todo = <<>>
    BY <1>0, <2>1, <2>2 DEF Jobs, JobsFormed, Formed, ListsEmpty
  <2>4. Only(c) /\ Moves(c)
    BY <1>0, <2>1, <2>3, EnvelopeFacts DEF Moves
  <2> QED
    BY <1>0, <1>1, <2>4
<1>13. ASSUME NEW c \in Consumers, \/ SendReceipt(c) \/ Decrypt(c) \/ InsertMessageInbox(c) \/ DeleteRow(c)
       PROVE  Moves(u)
  <2>1. /\ thread[c].pc \in {"run", "decrypt", "show", "delete"}
        /\ Goto(c, "show") \/ Goto(c, "delete") \/ Goto(c, "done")
    BY <1>13 DEF SendReceipt, Run, Decrypt, InsertMessageInbox, DeleteRow
  <2> QED
    BY <1>0, <1>2, <2>1 DEF Handling
<1>14. ASSUME NEW c \in Consumers, GetRow(c) PROVE Moves(u)
  <2>1. thread[c].pc = "run"
    BY <1>14 DEF GetRow, Run
  <2>2. Goto(c, "done") \/ ToBoth(c, "decrypt", thread[c].job.row, push[thread[c].job.row])
    BY <1>14 DEF GetRow, ToBoth
  <2>3. CASE ToBoth(c, "decrypt", thread[c].job.row, push[thread[c].job.row])
    <3>1. Only(c) /\ Moves(c)
      BY <1>0, <2>1, <2>3, GetFacts DEF Moves, Handling, ListsEmpty
    <3> QED
      BY <1>0, <1>1, <3>1
  <2> QED
    BY <1>0, <1>2, <2>1, <2>2, <2>3 DEF Handling
<1>15. ASSUME NEW c \in Consumers, FinishJob(c) PROVE Moves(u)
  <2>1. To(c, Rest) /\ Rest.pc = "idle" /\ Rest.todo = <<>>
    BY <1>15 DEF FinishJob, To, Rest
  <2> QED
    BY <1>0, <1>5, <2>1 DEF Handling
<1>16. ASSUME NEW c \in Consumers, TakeJob(c) PROVE Moves(u)
  <2>1. PICK j : To(c, [Rest EXCEPT !.pc = "run", !.job = j])
    BY <1>16 DEF TakeJob, To
  <2>2. /\ [Rest EXCEPT !.pc = "run", !.job = j].pc = "run"
        /\ [Rest EXCEPT !.pc = "run", !.job = j].todo = <<>>
    BY DEF Rest
  <2> QED
    BY <1>0, <1>5, <2>1, <2>2 DEF Handling
<1>17. ASSUME CheckConnection \/ ReadEnds PROVE Moves(u)
  <2>1. thread[Service].pc \in {"check", "read"} /\ \E pc \in {"check", "wait", "read"} : Goto(Service, pc)
    BY <1>17 DEF CheckConnection, ReadEnds
  <2> QED
    BY <1>0, <1>2, <2>1 DEF Handling
<1>18. ASSUME Read PROVE Moves(u)
  <2>1. thread[Service].pc = "read" /\ server # {} /\ ToEnvelope(Service, "find", Min(server))
    BY <1>18 DEF Read, ToEnvelope
  <2>2. thread[Service].job.kind # "content" /\ thread[Service].todo = <<>>
    BY <1>0, <2>1 DEF Jobs, InPlace, NoJob, ListsEmpty, Handling
  <2>3. Only(Service) /\ Moves(Service)
    BY <1>0, <2>1, <2>2, EnvelopeFacts DEF Moves
  <2> QED
    BY <1>0, <1>1, <2>3
<1>19. ASSUME NotifyAll PROVE Moves(u)
  <2>1. CASE thread[Service].pc = "wait"
    <3>1. Goto(Service, "check")
      BY <1>0, <1>19, <2>1 DEF NotifyAll, Goto
    <3> QED
      BY <1>0, <1>2, <2>1, <3>1 DEF Handling
  <2>2. CASE thread[Service].pc # "wait"
    BY <1>19, <2>2, NotifyFacts DEF Moves, Only
  <2> QED
    BY <2>1, <2>2
<1>20. CASE Crash
  <2>1. thread'[u] \in {Start, Rest}
    BY <1>20 DEF Crash
  <2>2. Start.pc = "check" /\ Start.todo = <<>> /\ Rest.pc = "idle" /\ Rest.todo = <<>>
    BY DEF Start, Rest
  <2> QED
    BY <2>1, <2>2 DEF Moves, Handling
<1>21. ASSUME UNCHANGED thread PROVE Moves(u)
  BY <1>21 DEF Moves
<1>22. ASSUME Arrive \/ ReceivedMessage \/ ReceivedNotification \/ StoreJob PROVE UNCHANGED thread
  BY <1>22 DEF Arrive, ReceivedMessage, ReceivedNotification, StoreJob
<1> QED
  BY <1>6, <1>7, <1>8, <1>9, <1>10, <1>11, <1>12, <1>13, <1>14, <1>15, <1>16, <1>17, <1>18, <1>19,
     <1>20, <1>21, <1>22, StepKinds

LEMMA ListsNext ==
  ASSUME Typed, Jobs, ListsEmpty, [Next]_vars
  PROVE  ListsEmpty'
<1> SUFFICES ASSUME NEW t \in Threads,
                    thread'[t].pc \notin Handling \/ thread'[t].job.kind = "content"
             PROVE  thread'[t].todo = <<>>
  BY DEF ListsEmpty
<1>1. Moves(t)
  BY ThreadMoves
<1>2. "find" \in Handling
  BY DEF Handling
<1>3. thread[t].pc \notin Handling \/ thread[t].job.kind = "content" => thread[t].todo = <<>>
  BY DEF ListsEmpty
<1> QED
  BY <1>1, <1>2, <1>3 DEF Moves

-----------------------------------------------------------------------------
(* The order is kept *)

Ordered == KeptInv /\ Inv /\ ListsEmpty

LEMMA OrderedFacts ==
  ASSUME Ordered
  PROVE  /\ Typed /\ Jobs /\ RowsHeld /\ Channels /\ HandledSafely /\ KeysUsed /\ ListsEmpty
         /\ arrived \in Nat /\ adding \in Seq(SoundJob) /\ stored \in Seq(SoundJob)
         /\ \A c \in Consumers : c \in Threads
  BY DEF Ordered, KeptInv, Rows, Kept, Inv, Typed, TypeOK, Threads

LEMMA OrderedNext ==
  ASSUME Ordered, [Next]_vars
  PROVE  Ordered'
  BY KeptNext, NextInv, ListsNext DEF Ordered, KeptInv

LEMMA KnownOver ==
  ASSUME Ordered, NEW e, Known(e)
  PROVE  e \in session \cup Corrupt
<1>1. KeysUsed
  BY OrderedFacts
<1>2. CASE e \in Shown
  <2>1. PICK i \in DOMAIN inbox : inbox[i] = e
    BY <1>2 DEF Shown, ToSet
  <2> QED
    BY <1>1, <2>1 DEF KeysUsed
<1> QED
  BY <1>2 DEF Known

LEMMA SessionStays ==
  ASSUME [Next]_vars
  PROVE  /\ session \subseteq session'
         /\ \A e \in session' \ session : \E c \in Consumers : Decrypt(c) /\ e = thread[c].e
<1>1. ASSUME NEW c \in Consumers, Decrypt(c)
      PROVE  session \subseteq session' /\ \A e \in session' \ session : e = thread[c].e
  BY <1>1 DEF Decrypt
<1>2. ASSUME Arrive \/ ReceivedMessage \/ ReceivedNotification \/ StoreJob \/ Crash
      PROVE  UNCHANGED session
  BY <1>2 DEF Arrive, ReceivedMessage, ReceivedNotification, StoreJob, Crash, dataVars
<1>3. ASSUME NEW t \in Threads, \/ \E blocked \in Blocking : Find(t, blocked)
                               \/ InsertRow(t) \/ AddDecryptJob(t) \/ AddReceiptJob(t)
                               \/ Acknowledge(t) \/ LoseAck(t)
      PROVE  UNCHANGED session
  BY <1>3 DEF Find, InsertRow, AddDecryptJob, AddReceiptJob, Acknowledge, LoseAck, dataVars
<1>4. ASSUME NEW c \in Consumers,
             \/ TakeJob(c) \/ RetrieveMessages(c) \/ RetrieveFails(c) \/ ReadContent(c)
             \/ SendReceipt(c) \/ ReceiptFails(c) \/ GetRow(c) \/ DeleteRow(c) \/ FinishJob(c)
             \/ InsertMessageInbox(c)
      PROVE  UNCHANGED session
  BY <1>4 DEF TakeJob, RetrieveMessages, RetrieveFails, ReadContent, SendReceipt, ReceiptFails, GetRow,
     DeleteRow, FinishJob, InsertMessageInbox, dataVars
<1>5. UNCHANGED dataVars => UNCHANGED session
  BY DEF dataVars
<1> QED
  BY <1>1, <1>2, <1>3, <1>4, <1>5, StepKinds

(* The server gets the envelope that arrives, and no other.                *)
LEMMA ServerGrows ==
  ASSUME [Next]_vars, NEW e \in server', e \notin server
  PROVE  Arrive /\ e = arrived + 1
<1>1. CASE Arrive
  BY <1>1 DEF Arrive
<1>2. ASSUME ReceivedMessage \/ ReceivedNotification \/ StoreJob \/ Crash PROVE FALSE
  BY <1>2 DEF ReceivedMessage, ReceivedNotification, StoreJob, Crash, dataVars
<1>3. ASSUME NEW t \in Threads, \/ \E blocked \in Blocking : Find(t, blocked)
                               \/ InsertRow(t) \/ AddDecryptJob(t) \/ AddReceiptJob(t)
                               \/ Acknowledge(t) \/ LoseAck(t)
      PROVE  FALSE
  BY <1>3 DEF Find, InsertRow, AddDecryptJob, AddReceiptJob, Acknowledge, LoseAck, dataVars
<1>4. ASSUME NEW c \in Consumers,
             \/ TakeJob(c) \/ RetrieveMessages(c) \/ RetrieveFails(c) \/ ReadContent(c)
             \/ SendReceipt(c) \/ ReceiptFails(c) \/ GetRow(c) \/ FinishJob(c)
             \/ Decrypt(c) \/ InsertMessageInbox(c) \/ DeleteRow(c)
      PROVE  FALSE
  BY <1>4 DEF TakeJob, RetrieveMessages, RetrieveFails, ReadContent, SendReceipt, ReceiptFails, GetRow,
     FinishJob, Decrypt, InsertMessageInbox, DeleteRow, dataVars
<1>5. UNCHANGED dataVars => FALSE
  BY DEF dataVars
<1> QED
  BY <1>1, <1>2, <1>3, <1>4, <1>5, StepKinds

(* Where a decrypt job given to add, or stored, comes from.                *)
LEMMA AddingComes ==
  ASSUME Typed, [Next]_vars, NEW n \in DOMAIN adding', adding'[n].kind = "decrypt"
  PROVE  \/ /\ n \in DOMAIN adding /\ n \in Nat
            /\ \A m \in 1..n : m \in DOMAIN adding /\ adding'[m] = adding[m]
         \/ StoreJob
         \/ \E t \in Threads :
              /\ thread[t].pc = "add" /\ adding'[n].e = thread[t].e /\ n \in Nat
              /\ \A m \in DOMAIN adding : m \in 1..(n - 1) /\ adding'[m] = adding[m]
<1>0. adding \in Seq(SoundJob)
  BY DEF Typed
<1>1. CASE UNCHANGED adding
  BY <1>0, <1>1
<1>2. CASE Crash
  BY <1>2 DEF Crash
<1>3. ASSUME NEW j, adding' = Append(adding, j)
      PROVE  \/ /\ n \in DOMAIN adding /\ n \in Nat
                /\ \A m \in 1..n : m \in DOMAIN adding /\ adding'[m] = adding[m]
             \/ /\ adding'[n] = j /\ n \in Nat
                /\ \A m \in DOMAIN adding : m \in 1..(n - 1) /\ adding'[m] = adding[m]
  BY <1>0, <1>3, AppendFacts
<1>4. ASSUME NEW t \in Threads, AddDecryptJob(t)
      PROVE  \/ /\ n \in DOMAIN adding /\ n \in Nat
                /\ \A m \in 1..n : m \in DOMAIN adding /\ adding'[m] = adding[m]
             \/ /\ thread[t].pc = "add" /\ adding'[n].e = thread[t].e /\ n \in Nat
                /\ \A m \in DOMAIN adding : m \in 1..(n - 1) /\ adding'[m] = adding[m]
  <2> DEFINE j == PushDecryptJob(thread[t].row, thread[t].e)
  <2>1. adding' = Append(adding, j) /\ thread[t].pc = "add"
    BY <1>4 DEF AddDecryptJob
  <2>2. j.e = thread[t].e
    BY DEF PushDecryptJob, NoJob
  <2> HIDE DEF j
  <2> QED
    BY <1>3, <2>1, <2>2
<1>5. ASSUME NEW t \in Threads, AddReceiptJob(t)
      PROVE  \E j : adding' = Append(adding, j) /\ j.kind = "receipt"
  <2>1. DeliveryReceiptJob(thread[t].e).kind = "receipt"
    BY DEF DeliveryReceiptJob, NoJob
  <2> QED
    BY <1>5, <2>1 DEF AddReceiptJob
<1>6. ASSUME NEW j, adding' = Append(adding, j), j.kind # "decrypt"
      PROVE  /\ n \in DOMAIN adding /\ n \in Nat
             /\ \A m \in 1..n : m \in DOMAIN adding /\ adding'[m] = adding[m]
  BY <1>3, <1>6
<1> QED
  BY <1>1, <1>2, <1>4, <1>5, <1>6, AddingKinds

LEMMA StoredComes ==
  ASSUME Typed, Jobs, [Next]_vars, NEW n \in DOMAIN stored'
  PROVE  \/ \E m \in DOMAIN stored : stored'[n] = stored[m]
         \/ /\ StoreJob /\ 1 \in DOMAIN adding
            /\ stored'[n].kind = adding[1].kind /\ stored'[n].e = adding[1].e
            /\ stored'[n].id = lastId + 1
<1>1. CASE UNCHANGED stored
  BY <1>1
<1>2. CASE StoreJob
  BY <1>2, StoreFacts
<1>3. ASSUME NEW c \in Consumers, FinishJob(c) PROVE \E m \in DOMAIN stored : stored'[n] = stored[m]
  BY <1>3, FinishStored
<1> QED
  BY <1>1, <1>2, <1>3, StoredKinds

(* An envelope without a job gets none any more.                           *)
LEMMA GoneStays ==
  ASSUME Ordered, [Next]_vars, NEW e \in 1..arrived, e \notin Direct, Gone(e)
  PROVE  Gone(e)'
<1>0. Typed /\ Jobs /\ ListsEmpty /\ arrived \in Nat /\ adding \in Seq(SoundJob)
  BY OrderedFacts
<1>1. e \notin server'
  BY <1>0, ServerGrows DEF Gone
<1>2. ~OwnStored(e)'
  <2> SUFFICES ASSUME NEW n \in DOMAIN stored', stored'[n].kind = "decrypt", stored'[n].e = e
               PROVE  FALSE
    BY DEF OwnStored
  <2> QED
    BY <1>0, StoredComes DEF Gone, OwnStored, OwnAdding
<1>3. ~OwnAdding(e)'
  <2> SUFFICES ASSUME NEW n \in DOMAIN adding', adding'[n].kind = "decrypt", adding'[n].e = e
               PROVE  FALSE
    BY DEF OwnAdding
  <2>1. CASE StoreJob
    BY <1>0, <2>1, StoreFacts DEF Gone, OwnAdding
  <2>2. ASSUME n \in DOMAIN adding, n \in Nat, \A m \in 1..n : m \in DOMAIN adding /\ adding'[m] = adding[m]
        PROVE  FALSE
    <3>1. n \in 1..n
      BY <1>0, <2>2
    <3> QED
      BY <2>2, <3>1 DEF Gone, OwnAdding
  <2> QED
    BY <1>0, <2>1, <2>2, AddingComes DEF Gone
<1>4. ASSUME NEW t \in Threads
      PROVE  /\ thread'[t].pc \in {"find", "insert", "add"} => thread'[t].e # e
             /\ e \notin ToSet(thread'[t].todo)
  <2>0. thread[t].todo \in Seq(Envelopes)
    BY <1>0 DEF Typed, SoundThread, Thread
  <2>1. /\ thread[t].pc \in {"find", "insert", "add"} => thread[t].e # e
        /\ \A k \in DOMAIN thread[t].todo : thread[t].todo[k] # e
    BY DEF Gone, ToSet
  <2>2. \A s : DOMAIN s = {} => e \notin ToSet(s)
    BY DEF ToSet
  <2>3. DOMAIN <<>> = {}
    OBVIOUS
  <2>4. ASSUME NEW S, NEW s \in Seq(S), s # <<>>, \A k \in DOMAIN s : s[k] # e
        PROVE  Head(s) # e /\ e \notin ToSet(Tail(s))
    <3>1. 1 \in DOMAIN s /\ Head(s) = s[1]
      BY <2>4
    <3>2. \A k \in DOMAIN Tail(s) : k + 1 \in DOMAIN s /\ Tail(s)[k] = s[k + 1]
      BY <2>4
    <3> QED
      BY <2>4, <3>1, <3>2 DEF ToSet
  <2>5. ASSUME NEW list \in InOrder(server), list # <<>>
        PROVE  Head(list) # e /\ e \notin ToSet(Tail(list))
    <3>1. list \in Seq(Envelopes) /\ \A k \in DOMAIN list : list[k] \in server
      BY <1>0, ListType DEF ToSet
    <3>2. \A k \in DOMAIN list : list[k] # e
      BY <3>1 DEF Gone
    <3> QED
      BY <2>4, <2>5, <3>1, <3>2
  <2>6. server # {} => Min(server) # e
    BY <1>0, OldestFound DEF Gone
  <2>7. Moves(t)
    BY <1>0, ThreadMoves
  <2>8. CASE thread'[t] = thread[t]
    BY <2>8 DEF Gone
  <2>9. CASE thread'[t].pc \notin Handling /\ thread'[t].todo = <<>>
    BY <2>2, <2>3, <2>9 DEF Handling
  <2>10. CASE /\ thread[t].pc \in {"find", "insert", "add"} /\ thread'[t].pc \in Handling
              /\ thread'[t].e = thread[t].e /\ thread'[t].todo = thread[t].todo
    BY <2>10 DEF Gone
  <2>11. CASE /\ thread[t].todo # <<>> /\ thread'[t].e = Head(thread[t].todo)
              /\ thread'[t].todo = Tail(thread[t].todo)
    BY <2>0, <2>1, <2>4, <2>11
  <2>12. ASSUME NEW list \in InOrder(server), list # <<>>, thread'[t].e = Head(list),
                thread'[t].todo = Tail(list)
         PROVE  thread'[t].e # e /\ e \notin ToSet(thread'[t].todo)
    BY <2>5, <2>12
  <2>13. CASE server # {} /\ thread'[t].e = Min(server) /\ thread'[t].todo = <<>>
    BY <2>2, <2>3, <2>6, <2>13
  <2>14. CASE thread'[t].e \in Direct /\ thread'[t].todo = <<>>
    BY <2>2, <2>3, <2>14
  <2> QED
    BY <2>7, <2>8, <2>9, <2>10, <2>11, <2>12, <2>13, <2>14 DEF Moves
<1> QED
  BY <1>1, <1>2, <1>3, <1>4 DEF Gone

LEMMA OverStays ==
  ASSUME Ordered, [Next]_vars, NEW e \in 1..arrived, Over(e)
  PROVE  Over(e)'
<1>1. CASE e \in session \cup Corrupt \cup Direct \cup log.dropped
  <2>1. Typed
    BY OrderedFacts
  <2> QED
    BY <1>1, <2>1, SessionStays, LogGrows DEF Over
<1>2. CASE e \notin Direct /\ Gone(e)
  BY <1>2, GoneStays DEF Over
<1> QED
  BY <1>1, <1>2 DEF Over

LEMMA OwnStoredStays ==
  ASSUME Ordered, [Next]_vars, NEW n \in DOMAIN stored, stored[n].kind = "decrypt"
  PROVE  Over(stored[n].e) \/ \E m \in DOMAIN stored' : stored'[m] = stored[n]
<1>1. ASSUME NEW c \in Consumers, FinishJob(c), Same(stored[n], thread[c].job) PROVE Over(stored[n].e)
  <2>1. Known(stored[n].e)
    BY <1>1, OrderedFacts, FinishedDone DEF Same
  <2> QED
    BY <2>1, KnownOver DEF Over
<1> QED
  BY <1>1, OrderedFacts, StoredStays

LEMMA QueuedStays ==
  ASSUME Ordered, [Next]_vars, ~Crash, NEW e \in 1..arrived, Queued(e)
  PROVE  Queued(e)'
<1>1. CASE Over(e)
  BY <1>1, OverStays DEF Queued
<1>2. ASSUME NEW n \in DOMAIN stored, stored[n].kind = "decrypt", stored[n].e = e PROVE Queued(e)'
  BY <1>1, <1>2, OwnStoredStays DEF Queued, OwnStored
<1>3. ASSUME NEW n \in DOMAIN adding, adding[n].kind = "decrypt", adding[n].e = e PROVE Queued(e)'
  BY <1>3, OrderedFacts, AddingStays DEF Queued, OwnStored, OwnAdding
<1> QED
  BY <1>1, <1>2, <1>3 DEF Queued, OwnStored, OwnAdding

(* A crash that takes the job of an envelope given to add leaves it at the *)
(* server, or without a job for good.                                      *)
LEMMA QueuedAtCrash ==
  ASSUME Ordered, Crash, NEW e \in 1..arrived, Queued(e)
  PROVE  e \in server' \/ Queued(e)'
<1>0. [Next]_vars
  BY DEF Next
<1>1. CASE Over(e)
  BY <1>0, <1>1, OverStays DEF Queued
<1>2. CASE OwnStored(e)
  BY <1>2 DEF Crash, Queued, OwnStored
<1>3. CASE ~OwnStored(e) /\ e \notin server
  <2>1. /\ adding' = <<>> /\ UNCHANGED <<stored, server>>
        /\ thread' = [t \in Threads |-> IF t = Service THEN Start ELSE Rest]
    BY DEF Crash, dataVars
  <2>2. /\ Start.pc = "check" /\ Rest.pc = "idle" /\ Start.todo = <<>> /\ Rest.todo = <<>>
        /\ e \notin ToSet(<<>>)
    BY DEF Start, Rest, ToSet
  <2>3. \A t \in Threads : thread'[t].pc \notin {"find", "insert", "add"} /\ e \notin ToSet(thread'[t].todo)
    BY <2>1, <2>2
  <2>4. ~OwnAdding(e)' /\ ~OwnStored(e)'
    BY <1>3, <2>1 DEF OwnAdding, OwnStored
  <2>5. Gone(e)'
    BY <1>3, <2>1, <2>3, <2>4 DEF Gone
  <2> QED
    BY <2>5 DEF Queued, Over
<1>4. e \in server => e \in server'
  BY DEF Crash, dataVars
<1> QED
  BY <1>1, <1>2, <1>3, <1>4

(* Who has handled an envelope has queued it, or sees it settled.          *)
LEMMA SafelyQueued ==
  ASSUME Ordered, NEW e, Secured(e) \/ OwnAdding(e)
  PROVE  Queued(e)
<1>1. Known(e) => e \in session \cup Corrupt
  BY KnownOver
<1> QED
  BY <1>1 DEF Secured, Known, Queued, Over

LEMMA ArrivedNext ==
  ASSUME Ordered, [Next]_vars
  PROVE  arrived' \in {arrived, arrived + 1}
  BY ArrivedGrows DEF Arrive, ReceivedMessage

(* A list the server sends, read up to one of its envelopes.               *)
LEMMA ListInOrder ==
  ASSUME Ordered, NEW list \in InOrder(server), list # <<>>, \A e \in 1..arrived : e \in server \/ Queued(e)
  PROVE  /\ Head(list) = list[1] /\ list[1] \in 1..arrived
         /\ \A e \in 1..(list[1] - 1) : Queued(e)
         /\ \A k \in DOMAIN Tail(list) :
              /\ k \in Nat /\ Tail(list)[k] = list[k + 1] /\ list[k + 1] \in 1..arrived
              /\ \A e \in 1..(list[k + 1] - 1) :
                   Queued(e) \/ e = list[1] \/ \E i \in 1..(k - 1) : Tail(list)[i] = e
<1>1. /\ list \in Seq(Envelopes) /\ DOMAIN list = 1..Len(list) /\ ToSet(list) = server
      /\ \A i, k \in DOMAIN list : i < k => list[i] < list[k]
      /\ server \subseteq 1..arrived /\ arrived \in Nat
  BY OrderedFacts, ListType DEF Channels
<1>2. \A k \in DOMAIN list : list[k] \in server
  BY <1>1 DEF ToSet
<1>3. 1 \in DOMAIN list /\ Head(list) = list[1] /\ Len(list) \in Nat
  BY <1>1
<1>4. \A k \in DOMAIN Tail(list) : k \in Nat /\ k > 0 /\ k + 1 \in DOMAIN list /\ Tail(list)[k] = list[k + 1]
  BY <1>1
<1>5. \A k \in DOMAIN list : k > 1 => k - 1 \in DOMAIN Tail(list) /\ Tail(list)[k - 1] = list[k]
  BY <1>1
<1>6. ASSUME NEW k \in DOMAIN list, NEW e \in 1..(list[k] - 1)
      PROVE  Queued(e) \/ \E i \in 1..(k - 1) : list[i] = e
  <2>1. list[k] \in 1..arrived
    BY <1>1, <1>2
  <2>2. e \in 1..arrived /\ e < list[k]
    BY <1>1, <2>1
  <2>3. CASE e \in server
    <3>1. PICK i \in DOMAIN list : list[i] = e
      BY <1>1, <2>3 DEF ToSet
    <3>2. ~(k < i) /\ i # k
      BY <1>1, <2>1, <2>2, <3>1
    <3>3. i \in 1..(k - 1)
      BY <1>1, <3>2
    <3> QED
      BY <3>1, <3>3
  <2> QED
    BY <2>2, <2>3
<1>7. \A e \in 1..(list[1] - 1) : Queued(e)
  BY <1>3, <1>6
<1>8. ASSUME NEW k \in DOMAIN Tail(list), NEW e \in 1..(list[k + 1] - 1), ~Queued(e), e # list[1]
      PROVE  \E i \in 1..(k - 1) : Tail(list)[i] = e
  <2>1. PICK i \in 1..k : list[i] = e
    <3>1. k \in Nat /\ (k + 1) - 1 = k
      BY <1>4
    <3> QED
      BY <1>4, <1>6, <1>8, <3>1
  <2>2. i \in DOMAIN list /\ i > 1 /\ k \in Nat
    BY <1>1, <1>4, <1>8, <2>1
  <2>3. i - 1 \in 1..(k - 1) /\ Tail(list)[i - 1] = e
    BY <1>5, <2>1, <2>2
  <2> QED
    BY <2>3
<1>9. list[1] \in 1..arrived /\ \A k \in DOMAIN Tail(list) : list[k + 1] \in 1..arrived
  BY <1>1, <1>2, <1>3, <1>4
<1> QED
  BY <1>3, <1>4, <1>7, <1>8, <1>9

(* The list of a thread that acknowledges its envelope.                    *)
LEMMA RestInOrder ==
  ASSUME Ordered, NEW t \in Threads, ThreadInOrder(t), thread[t].pc = "ack",
         thread[t].job.kind # "content", thread[t].todo # <<>>
  PROVE  LET list == thread[t].todo IN
         /\ Head(list) = list[1] /\ list[1] \in 1..arrived
         /\ \A e \in 1..(list[1] - 1) : Queued(e)
         /\ \A k \in DOMAIN Tail(list) :
              /\ k \in Nat /\ Tail(list)[k] = list[k + 1] /\ list[k + 1] \in 1..arrived
              /\ \A e \in 1..(list[k + 1] - 1) :
                   Queued(e) \/ e = list[1] \/ \E i \in 1..(k - 1) : Tail(list)[i] = e
<1> DEFINE list == thread[t].todo
<1>1. list \in Seq(Envelopes)
  BY OrderedFacts DEF Typed, SoundThread, Thread
<1>2. Queued(thread[t].e)
  BY OrderedFacts, SafelyQueued DEF HandledSafely
<1>3. \A k \in DOMAIN list : list[k] \in 1..arrived
  BY OrderedFacts DEF Channels, ThreadChannel
<1>4. \A k \in DOMAIN list : \A e \in 1..(list[k] - 1) : Queued(e) \/ \E i \in 1..(k - 1) : list[i] = e
  <2>1. "ack" \in Handling \ {"receipt"}
    BY DEF Handling
  <2> QED
    BY <1>2, <2>1 DEF ThreadInOrder, Ahead
<1> HIDE DEF list
<1>5. list # <<>>
  BY DEF list
<1>6. 1 \in DOMAIN list /\ Head(list) = list[1] /\ Len(list) \in Nat /\ DOMAIN list = 1..Len(list)
  BY <1>1, <1>5
<1>7. \A k \in DOMAIN Tail(list) : k \in Nat /\ k > 0 /\ k + 1 \in DOMAIN list /\ Tail(list)[k] = list[k + 1]
  BY <1>1, <1>5
<1>8. \A k \in DOMAIN list : k > 1 => k - 1 \in DOMAIN Tail(list) /\ Tail(list)[k - 1] = list[k]
  BY <1>1, <1>5
<1>9. \A e \in 1..(list[1] - 1) : Queued(e)
  BY <1>4, <1>6
<1>10. ASSUME NEW k \in DOMAIN Tail(list), NEW e \in 1..(list[k + 1] - 1), ~Queued(e), e # list[1]
       PROVE  \E i \in 1..(k - 1) : Tail(list)[i] = e
  <2>1. PICK i \in 1..k : list[i] = e
    <3>1. k \in Nat /\ (k + 1) - 1 = k
      BY <1>7
    <3> QED
      BY <1>4, <1>7, <1>10, <3>1
  <2>2. i \in DOMAIN list /\ i > 1 /\ k \in Nat
    BY <1>6, <1>7, <1>10, <2>1
  <2>3. i - 1 \in 1..(k - 1) /\ Tail(list)[i - 1] = e
    BY <1>8, <2>1, <2>2
  <2> QED
    BY <2>3
<1>11. list[1] \in 1..arrived /\ \A k \in DOMAIN Tail(list) : list[k + 1] \in 1..arrived
  BY <1>3, <1>6, <1>7
<1> QED
  BY <1>6, <1>7, <1>9, <1>10, <1>11 DEF list

LEMMA TakenNext ==
  ASSUME Ordered, TakenInOrder, [Next]_vars
  PROVE  TakenInOrder'
<1>0. /\ Typed /\ Jobs /\ RowsHeld /\ Channels /\ HandledSafely /\ ListsEmpty /\ arrived \in Nat
      /\ arrived' \in {arrived, arrived + 1}
      /\ \A e \in 1..arrived : e \in server \/ Queued(e)
  BY OrderedFacts, ArrivedNext DEF TakenInOrder
<1>1. ASSUME NEW e \in 1..arrived' PROVE e \in server' \/ Queued(e)'
  <2>1. CASE e \notin 1..arrived
    <3>1. arrived' # arrived /\ e = arrived + 1
      BY <1>0, <2>1
    <3>2. CASE Arrive
      BY <3>1, <3>2 DEF Arrive
    <3>3. CASE ReceivedMessage
      BY <3>1, <3>3 DEF ReceivedMessage, Queued, Over
    <3> QED
      BY <3>1, <3>2, <3>3, ArrivedGrows
  <2>2. CASE e \in 1..arrived /\ Queued(e)
    BY <2>2, QueuedStays, QueuedAtCrash
  <2>3. CASE e \in 1..arrived /\ e \in server /\ e \notin server'
    <3>1. PICK t \in Threads : thread[t].pc = "ack" /\ thread[t].e = e
      BY <1>0, <2>3, ServerKeeps
    <3>2. Queued(e)
      BY <1>0, <3>1, SafelyQueued DEF HandledSafely
    <3> QED
      BY <2>2, <2>3, <3>2
  <2> QED
    BY <1>0, <2>1, <2>2, <2>3
<1>2. ASSUME NEW t \in Threads PROVE ThreadInOrder(t)'
  <2>0. ThreadInOrder(t) /\ ThreadChannel(t)
    BY <1>0 DEF TakenInOrder, Channels
  <2>1. CASE Crash
    <3>1. thread'[t].pc \in {"check", "idle"}
      BY <2>1 DEF Crash, Start, Rest
    <3> QED
      BY <3>1 DEF ThreadInOrder, Handling
  <2>2. CASE ~Crash /\ thread'[t].pc \in Handling \ {"receipt"} /\ thread'[t].job.kind # "content"
    <3>1. \A e \in 1..arrived : Queued(e) => Queued(e)'
      BY <2>2, QueuedStays
    <3>2. ASSUME NEW e, NEW list,
                 thread'[t].e = e, thread'[t].todo = list, e \in 1..arrived,
                 \A d \in 1..(e - 1) : Queued(d),
                 \A k \in DOMAIN list :
                   /\ list[k] \in 1..arrived
                   /\ \A d \in 1..(list[k] - 1) : Queued(d) \/ d = e \/ \E i \in 1..(k - 1) : list[i] = d
          PROVE  ThreadInOrder(t)'
      <4>1. \A d \in 1..(e - 1) : Queued(d)'
        BY <1>0, <3>1, <3>2
      <4>2. \A k \in DOMAIN list : \A d \in 1..(list[k] - 1) :
              Queued(d)' \/ d = e \/ \E i \in 1..(k - 1) : list[i] = d
        <5> SUFFICES ASSUME NEW k \in DOMAIN list, NEW d \in 1..(list[k] - 1)
                     PROVE  Queued(d)' \/ d = e \/ \E i \in 1..(k - 1) : list[i] = d
          OBVIOUS
        <5>1. d \in 1..arrived
          <6>1. list[k] \in 1..arrived
            BY <3>2
          <6> QED
            BY <1>0, <6>1
        <5> QED
          BY <3>1, <3>2, <5>1
      <4> QED
        BY <3>2, <4>1, <4>2 DEF ThreadInOrder, Ahead
    <3>3. CASE /\ thread[t].pc \in Handling \ {"receipt"} /\ thread[t].job.kind # "content"
               /\ thread'[t].e = thread[t].e /\ thread'[t].todo = thread[t].todo
      <4> DEFINE e == thread[t].e
                 list == thread[t].todo
      <4>1. /\ e \in 1..arrived
            /\ \A d \in 1..(e - 1) : Queued(d)
            /\ \A k \in DOMAIN list :
                 /\ list[k] \in 1..arrived
                 /\ \A d \in 1..(list[k] - 1) : Queued(d) \/ d = e \/ \E i \in 1..(k - 1) : list[i] = d
        BY <2>0, <3>3 DEF ThreadInOrder, ThreadChannel, Ahead
      <4>2. thread'[t].e = e /\ thread'[t].todo = list
        BY <3>3
      <4> HIDE DEF e, list
      <4> QED
        BY <3>2, <4>1, <4>2
    <3>4. CASE /\ thread[t].pc = "ack" /\ thread[t].job.kind # "content" /\ thread[t].todo # <<>>
               /\ thread'[t].e = Head(thread[t].todo) /\ thread'[t].todo = Tail(thread[t].todo)
      <4> DEFINE e == thread[t].todo[1]
                 list == Tail(thread[t].todo)
      <4>1. /\ e \in 1..arrived /\ Head(thread[t].todo) = e
            /\ \A d \in 1..(e - 1) : Queued(d)
            /\ \A k \in DOMAIN list :
                 /\ list[k] \in 1..arrived
                 /\ \A d \in 1..(list[k] - 1) : Queued(d) \/ d = e \/ \E i \in 1..(k - 1) : list[i] = d
        <5> DEFINE l == thread[t].todo
        <5>1. /\ Head(l) = l[1] /\ l[1] \in 1..arrived
              /\ \A d \in 1..(l[1] - 1) : Queued(d)
              /\ \A k \in DOMAIN Tail(l) :
                   /\ Tail(l)[k] = l[k + 1] /\ l[k + 1] \in 1..arrived
                   /\ \A d \in 1..(l[k + 1] - 1) :
                        Queued(d) \/ d = l[1] \/ \E i \in 1..(k - 1) : Tail(l)[i] = d
          BY <2>0, <3>4, RestInOrder
        <5> QED
          BY <5>1
      <4>2. thread'[t].e = e /\ thread'[t].todo = list
        BY <3>4, <4>1
      <4> HIDE DEF e, list
      <4> QED
        BY <3>2, <4>1, <4>2
    <3>5. ASSUME NEW l \in InOrder(server), l # <<>>, thread'[t].e = Head(l), thread'[t].todo = Tail(l)
          PROVE  ThreadInOrder(t)'
      <4> DEFINE e == l[1]
                 list == Tail(l)
      <4>1. /\ e \in 1..arrived /\ Head(l) = e
            /\ \A d \in 1..(e - 1) : Queued(d)
            /\ \A k \in DOMAIN list :
                 /\ list[k] \in 1..arrived
                 /\ \A d \in 1..(list[k] - 1) : Queued(d) \/ d = e \/ \E i \in 1..(k - 1) : list[i] = d
        <5>1. /\ Head(l) = l[1] /\ l[1] \in 1..arrived
              /\ \A d \in 1..(l[1] - 1) : Queued(d)
              /\ \A k \in DOMAIN Tail(l) :
                   /\ Tail(l)[k] = l[k + 1] /\ l[k + 1] \in 1..arrived
                   /\ \A d \in 1..(l[k + 1] - 1) :
                        Queued(d) \/ d = l[1] \/ \E i \in 1..(k - 1) : Tail(l)[i] = d
          BY <1>0, <3>5, ListInOrder
        <5> QED
          BY <5>1
      <4>2. thread'[t].e = e /\ thread'[t].todo = list
        BY <3>5, <4>1
      <4> HIDE DEF e, list
      <4> QED
        BY <3>2, <4>1, <4>2
    <3>6. CASE server # {} /\ thread'[t].e = Min(server) /\ thread'[t].todo = <<>>
      <4>1. /\ Min(server) \in server /\ \A e \in server : Min(server) <= e
            /\ server \subseteq 1..arrived
        BY <1>0, <3>6, OldestFound DEF Channels
      <4>2. ASSUME NEW d \in 1..(Min(server) - 1) PROVE d \in 1..arrived /\ d \notin server
        <5>1. Min(server) \in 1..arrived
          BY <4>1
        <5> QED
          BY <1>0, <4>1, <5>1
      <4>3. \A d \in 1..(Min(server) - 1) : Queued(d)
        BY <1>0, <4>2
      <4>4. DOMAIN <<>> = {}
        OBVIOUS
      <4> QED
        BY <3>2, <3>6, <4>1, <4>3, <4>4
    <3>7. Moves(t)
      BY <1>0, ThreadMoves
    <3>8. "find" \in Handling /\ "ack" \in Handling /\ {"find", "insert", "add"} \subseteq Handling \ {"receipt"}
      BY DEF Handling
    <3> QED
      BY <2>2, <3>3, <3>4, <3>5, <3>6, <3>7, <3>8 DEF Moves
  <2> QED
    BY <2>1, <2>2 DEF ThreadInOrder
<1> QED
  BY <1>1, <1>2 DEF TakenInOrder

LEMMA StoredOrderNext ==
  ASSUME Ordered, JobsInOrder, [Next]_vars,
         NEW n \in DOMAIN stored', stored'[n].kind = "decrypt", stored'[n].e \notin Direct,
         NEW e \in 1..(stored'[n].e - 1)
  PROVE  \/ Over(e)'
         \/ \E m \in DOMAIN stored' :
              stored'[m].id < stored'[n].id /\ stored'[m].kind = "decrypt" /\ stored'[m].e = e
<1>0. Typed /\ Jobs /\ arrived \in Nat
  BY OrderedFacts
<1>1. e \in 1..arrived
  <2>1. stored'[n].e \in 1..arrived
    <3>1. ASSUME NEW m \in DOMAIN stored, stored'[n] = stored[m] PROVE stored'[n].e \in 1..arrived
      BY <1>0, <3>1 DEF Jobs, JobsFormed, Formed
    <3>2. ASSUME 1 \in DOMAIN adding, stored'[n].kind = adding[1].kind, stored'[n].e = adding[1].e
          PROVE  stored'[n].e \in 1..arrived
      BY <1>0, <3>2 DEF Jobs, JobsFormed, Formed
    <3> QED
      BY <1>0, <3>1, <3>2, StoredComes
  <2> QED
    BY <1>0, <2>1
<1>2. Over(e) => Over(e)'
  BY <1>1, OverStays
<1>3. ASSUME NEW m \in DOMAIN stored, stored[m].kind = "decrypt", stored[m].e = e,
             stored[m].id < stored'[n].id
      PROVE  \/ Over(e)'
             \/ \E k \in DOMAIN stored' :
                  stored'[k].id < stored'[n].id /\ stored'[k].kind = "decrypt" /\ stored'[k].e = e
  BY <1>2, <1>3, OwnStoredStays
<1>4. ASSUME NEW m \in DOMAIN stored, stored'[n] = stored[m]
      PROVE  \/ Over(e)'
             \/ \E k \in DOMAIN stored' :
                  stored'[k].id < stored'[n].id /\ stored'[k].kind = "decrypt" /\ stored'[k].e = e
  <2>1. \/ Over(e)
        \/ \E k \in DOMAIN stored :
             stored[k].id < stored[m].id /\ stored[k].kind = "decrypt" /\ stored[k].e = e
    BY <1>4 DEF JobsInOrder
  <2> QED
    BY <1>2, <1>3, <1>4, <2>1
<1>5. ASSUME 1 \in DOMAIN adding, stored'[n].kind = adding[1].kind, stored'[n].e = adding[1].e,
             stored'[n].id = lastId + 1
      PROVE  \/ Over(e)'
             \/ \E k \in DOMAIN stored' :
                  stored'[k].id < stored'[n].id /\ stored'[k].kind = "decrypt" /\ stored'[k].e = e
  <2>1. \/ Over(e) \/ OwnStored(e)
        \/ \E m \in 1..(1 - 1) : adding[m].kind = "decrypt" /\ adding[m].e = e
    BY <1>5 DEF JobsInOrder
  <2>2. Over(e) \/ OwnStored(e)
    BY <2>1
  <2>3. \A m \in DOMAIN stored : stored[m].id < lastId + 1
    <3>1. lastId \in Nat /\ \A m \in DOMAIN stored : stored[m].id \in 1..lastId
      BY <1>0 DEF Typed, TypeOK, Jobs, JobsFormed
    <3> QED
      BY <3>1
  <2> QED
    BY <1>2, <1>3, <1>5, <2>2, <2>3 DEF OwnStored
<1> QED
  BY <1>0, <1>4, <1>5, StoredComes

LEMMA AddingOrderNext ==
  ASSUME Ordered, TakenInOrder, JobsInOrder, [Next]_vars,
         NEW n \in DOMAIN adding', adding'[n].kind = "decrypt", adding'[n].e \notin Direct,
         NEW e \in 1..(adding'[n].e - 1)
  PROVE  \/ Over(e)' \/ OwnStored(e)'
         \/ \E m \in 1..(n - 1) : adding'[m].kind = "decrypt" /\ adding'[m].e = e
<1>0. Typed /\ Jobs /\ Channels /\ arrived \in Nat /\ adding \in Seq(SoundJob)
  BY OrderedFacts
<1>1. ASSUME e \in 1..arrived, Over(e) \/ OwnStored(e) PROVE Over(e)' \/ OwnStored(e)'
  <2>1. CASE Over(e)
    BY <1>1, <2>1, OverStays
  <2>2. CASE OwnStored(e)
    BY <1>1, <2>1, <2>2, OwnStoredStays DEF OwnStored
  <2> QED
    BY <1>1, <2>1, <2>2
<1>2. ASSUME NEW m \in DOMAIN adding, adding[m].kind = "decrypt", e \in 1..(adding[m].e - 1)
      PROVE  e \in 1..arrived
  <2>1. adding[m].e \in 1..arrived
    BY <1>0, <1>2 DEF Jobs, JobsFormed, Formed
  <2> QED
    BY <1>0, <1>2, <2>1
<1>3. ASSUME n \in DOMAIN adding, n \in Nat, \A m \in 1..n : m \in DOMAIN adding /\ adding'[m] = adding[m]
      PROVE  \/ Over(e)' \/ OwnStored(e)'
             \/ \E m \in 1..(n - 1) : adding'[m].kind = "decrypt" /\ adding'[m].e = e
  <2>1. n \in 1..n /\ \A m \in 1..(n - 1) : m \in 1..n
    BY <1>0, <1>3
  <2>2. adding'[n] = adding[n]
    BY <1>3, <2>1
  <2>3. \/ Over(e) \/ OwnStored(e)
        \/ \E m \in 1..(n - 1) : adding[m].kind = "decrypt" /\ adding[m].e = e
    BY <1>3, <2>2 DEF JobsInOrder
  <2>4. e \in 1..arrived
    BY <1>2, <1>3, <2>2
  <2> QED
    BY <1>1, <1>3, <2>1, <2>3, <2>4
<1>4. CASE StoreJob
  <2>1. n \in Nat /\ n + 1 \in DOMAIN adding /\ adding'[n] = adding[n + 1]
    BY <1>0, <1>4, StoreFacts
  <2>2. e \in 1..arrived
    BY <1>2, <2>1
  <2>3. \/ Over(e) \/ OwnStored(e)
        \/ \E m \in 1..n : adding[m].kind = "decrypt" /\ adding[m].e = e
    <3>1. (n + 1) - 1 = n
      BY <2>1
    <3>2. \/ Over(e) \/ OwnStored(e)
          \/ \E m \in 1..((n + 1) - 1) : adding[m].kind = "decrypt" /\ adding[m].e = e
      BY <2>1 DEF JobsInOrder
    <3> QED
      BY <3>1, <3>2
  <2>4. ASSUME NEW m \in 1..n, adding[m].kind = "decrypt", adding[m].e = e
        PROVE  \/ OwnStored(e)'
               \/ \E k \in 1..(n - 1) : adding'[k].kind = "decrypt" /\ adding'[k].e = e
    <3>0. m \in DOMAIN adding
      BY <1>0, <2>1
    <3>1. CASE m = 1
      <4>1. \E k \in DOMAIN stored' : stored'[k].kind = "decrypt" /\ stored'[k].e = e
        BY <1>0, <1>4, <2>4, <3>1, StoreFacts
      <4> QED
        BY <4>1 DEF OwnStored
    <3>2. CASE m # 1
      <4>1. adding'[m - 1] = adding[m] /\ m - 1 \in 1..(n - 1)
        BY <1>0, <1>4, <2>1, <3>0, <3>2, StoreFacts
      <4> QED
        BY <2>4, <4>1
    <3> QED
      BY <3>1, <3>2
  <2> QED
    BY <1>1, <2>2, <2>3, <2>4
<1>5. ASSUME NEW t \in Threads, thread[t].pc = "add", adding'[n].e = thread[t].e, n \in Nat,
             \A m \in DOMAIN adding : m \in 1..(n - 1) /\ adding'[m] = adding[m]
      PROVE  \/ Over(e)' \/ OwnStored(e)'
             \/ \E m \in 1..(n - 1) : adding'[m].kind = "decrypt" /\ adding'[m].e = e
  <2>1. thread[t].pc \in Handling \ {"receipt"}
    BY <1>5 DEF Handling
  <2>2. thread[t].e \in 1..arrived
    BY <1>0, <2>1 DEF Channels, ThreadChannel
  <2>3. thread[t].job.kind # "content"
    <3> SUFFICES ASSUME thread[t].job.kind = "content" PROVE FALSE
      OBVIOUS
    <3>1. thread[t].e = thread[t].job.e
      BY <1>0, <2>1 DEF Channels, ThreadChannel
    <3>2. t \in Busy
      BY <1>0, <1>5, HandlerPlaces DEF NoJob
    <3>3. thread[t].job.e \in Direct
      BY <1>0, <3>2 DEF Jobs, JobsFormed, Formed
    <3> QED
      BY <1>5, <3>1, <3>3
  <2>4. Queued(e)
    BY <1>5, <2>1, <2>3 DEF TakenInOrder, ThreadInOrder
  <2>5. e \in 1..arrived
    BY <1>0, <1>5, <2>2
  <2> QED
    BY <1>1, <1>5, <2>4, <2>5 DEF Queued, OwnAdding
<1> QED
  BY <1>0, <1>3, <1>4, <1>5, AddingComes

LEMMA JobsInOrderNext ==
  ASSUME Ordered, TakenInOrder, JobsInOrder, [Next]_vars
  PROVE  JobsInOrder'
BY StoredOrderNext, AddingOrderNext DEF JobsInOrder

(* When an envelope's own job decrypts it, those before it are over.       *)
LEMMA DecryptTurn ==
  ASSUME Ordered, JobsInOrder, NEW c \in Consumers, thread[c].pc = "decrypt",
         thread[c].e \notin Direct \cup log.astray
  PROVE  OwnStored(thread[c].e) /\ \A e \in 1..(thread[c].e - 1) : Over(e)
<1>0. Typed /\ Jobs /\ RowsHeld /\ c \in Threads
  BY OrderedFacts
<1>1. c \in Decrypting /\ c \in Busy /\ thread[c].job.kind = "decrypt" /\ thread[c].e = thread[c].job.e
  BY <1>0, DecryptsAlone DEF RowsHeld, ThreadHeld
<1>2. PICK n \in DOMAIN stored : Same(stored[n], thread[c].job)
  BY <1>0, <1>1, RunsStored
<1>3. stored[n].kind = "decrypt" /\ stored[n].e = thread[c].e
  BY <1>1, <1>2 DEF Same
<1>4. ASSUME NEW e \in 1..(thread[c].e - 1), ~Over(e) PROVE FALSE
  <2>1. PICK m \in DOMAIN stored :
          stored[m].id < stored[n].id /\ stored[m].kind = "decrypt" /\ stored[m].e = e
    BY <1>3, <1>4 DEF JobsInOrder
  <2>2. stored[m].id < thread[c].job.id /\ stored[m].id \in Nat /\ thread[c].job.id \in Nat
    BY <1>0, <1>1, <1>2, <2>1 DEF Same, Jobs, JobsFormed
  <2>3. ASSUME NEW k \in DOMAIN queue, Same(stored[m], queue[k]) PROVE FALSE
    <3>1. queue[k].kind = "decrypt" /\ queue[k].id = stored[m].id
      BY <2>1, <2>3 DEF Same
    <3>2. thread[c].job.id < queue[k].id
      BY <1>0, <1>1, <3>1 DEF Jobs, DecryptsInTurn
    <3> QED
      BY <2>2, <3>1, <3>2
  <2>4. ASSUME NEW d \in Busy, Same(stored[m], thread[d].job) PROVE FALSE
    <3>1. d \in Decrypting /\ thread[d].job.id = stored[m].id
      BY <2>1, <2>4 DEF Same, Decrypting
    <3>2. d = c
      BY <1>0, <1>1, <3>1 DEF Jobs, DecryptsInTurn
    <3> QED
      BY <2>2, <3>1, <3>2
  <2> QED
    BY <1>0, <2>3, <2>4 DEF Jobs, JobsKept
<1> QED
  BY <1>3, <1>4 DEF OwnStored

(* A message decrypted by its own job is the last of those so far.         *)
LEMMA DecryptLast ==
  ASSUME Ordered, JobsInOrder, DecryptedInOrder, NEW c \in Consumers, thread[c].pc = "decrypt",
         thread[c].e \notin Aside \cup session, thread[c].e \in 1..arrived, NEW e \in session \ Aside
  PROVE  e < thread[c].e
<1>0. arrived \in Nat /\ e \in 1..arrived /\ e # thread[c].e
  BY OrderedFacts DEF DecryptedInOrder
<1>1. CASE e > thread[c].e
  <2>1. Over(thread[c].e)
    <3>1. thread[c].e \in 1..(e - 1)
      BY <1>0, <1>1
    <3> QED
      BY <3>1 DEF DecryptedInOrder
  <2>2. OwnStored(thread[c].e)
    BY DecryptTurn DEF Aside
  <2> QED
    BY <2>1, <2>2 DEF Over, Gone, Aside
<1> QED
  BY <1>0, <1>1

(* A thread comes to show a message by decrypting it.                      *)
LEMMA ShowComes ==
  ASSUME Typed, Jobs, [Next]_vars, NEW c \in Consumers, thread'[c].pc = "show", thread[c].pc # "show"
  PROVE  Decrypt(c) /\ Goto(c, "show")
<1>0. /\ thread \in [Threads -> SoundThread] /\ c \in Threads /\ c # Service
      /\ \A t \in Consumers : t \in Threads
  BY ConsumersAssumption DEF Typed, Threads
<1>1. ASSUME NEW t \in Threads, Only(t), thread'[t].pc # "show" PROVE FALSE
  BY <1>0, <1>1 DEF Only
<1>2. ASSUME NEW t \in Threads, NEW pc, pc # "show", Goto(t, pc) PROVE FALSE
  BY <1>1, <1>2, GotoFacts
<1>3. ASSUME NEW t \in Threads, RetryLater(t) PROVE FALSE
  BY <1>1, <1>3, RetryFacts
<1>4. ASSUME NEW t \in Threads, NEW r, r.pc # "show", To(t, r) PROVE FALSE
  BY <1>1, <1>4, SetFacts
<1>5. ASSUME NEW t \in Threads, NEW blocked \in Blocking, Find(t, blocked) PROVE FALSE
  <2>1. Goto(t, Handled(t)) \/ Goto(t, "insert") \/ ToRow(t, "add", Min(RowsOf(thread[t].e)))
    BY <1>5 DEF Find, ToRow
  <2>2. Handled(t) # "show"
    BY DEF Handled
  <2> QED
    BY <1>1, <1>2, <2>1, <2>2, RowFacts
<1>6. ASSUME NEW t \in Threads, InsertRow(t) \/ AddDecryptJob(t) \/ AddReceiptJob(t) PROVE FALSE
  <2>1. Goto(t, Handled(t)) \/ Goto(t, "done") \/ ToRow(t, "add", NewRow)
    BY <1>6 DEF InsertRow, AddDecryptJob, AddReceiptJob, ToRow
  <2>2. Handled(t) # "show"
    BY DEF Handled
  <2> QED
    BY <1>1, <1>2, <2>1, <2>2, RowFacts
<1>7. ASSUME NEW t \in Threads, Acknowledge(t) \/ LoseAck(t) PROVE FALSE
  <2>1. DOMAIN thread[t] = {"pc", "job", "e", "row", "todo"}
    BY <1>0 DEF SoundThread, Thread
  <2>2. \/ To(t, Start) \/ Goto(t, "done") \/ RetryLater(t)
        \/ ToList(t, "find", Head(thread[t].todo), Tail(thread[t].todo))
    BY <1>7, <2>1 DEF Acknowledge, LoseAck, To, ToList
  <2>3. Start.pc # "show"
    BY DEF Start, Rest
  <2>4. ASSUME NEW e, NEW list, ToList(t, "find", e, list) PROVE FALSE
    BY <1>1, <2>4, ListFacts
  <2> QED
    BY <1>2, <1>3, <1>4, <2>2, <2>3, <2>4
<1>8. ASSUME NEW d \in Consumers, RetrieveMessages(d) PROVE FALSE
  <2>1. ASSUME NEW e, NEW list, ToList(d, "find", e, list) PROVE FALSE
    BY <1>0, <1>1, <2>1, ListFacts
  <2> QED
    BY <1>0, <1>2, <1>8, <2>1 DEF RetrieveMessages, ToList
<1>9. ASSUME NEW d \in Consumers, RetrieveFails(d) \/ ReceiptFails(d) PROVE FALSE
  BY <1>0, <1>3, <1>9 DEF RetrieveFails, ReceiptFails
<1>10. ASSUME NEW d \in Consumers, ReadContent(d) PROVE FALSE
  <2>1. ToEnvelope(d, "find", thread[d].job.e)
    BY <1>10 DEF ReadContent, ToEnvelope
  <2> QED
    BY <1>0, <1>1, <2>1, EnvelopeFacts
<1>11. ASSUME NEW d \in Consumers, SendReceipt(d) \/ InsertMessageInbox(d) \/ DeleteRow(d) PROVE FALSE
  BY <1>0, <1>2, <1>11 DEF SendReceipt, InsertMessageInbox, DeleteRow
<1>12. ASSUME NEW d \in Consumers, GetRow(d) PROVE FALSE
  <2>1. Goto(d, "done") \/ ToBoth(d, "decrypt", thread[d].job.row, push[thread[d].job.row])
    BY <1>12 DEF GetRow, ToBoth
  <2> QED
    BY <1>0, <1>1, <1>2, <2>1, GetFacts
<1>13. ASSUME NEW d \in Consumers, FinishJob(d) PROVE FALSE
  <2>1. To(d, Rest) /\ Rest.pc # "show"
    BY <1>13 DEF FinishJob, To, Rest
  <2> QED
    BY <1>0, <1>4, <2>1
<1>14. ASSUME NEW d \in Consumers, TakeJob(d) PROVE FALSE
  <2>1. PICK j : To(d, [Rest EXCEPT !.pc = "run", !.job = j])
    BY <1>14 DEF TakeJob, To
  <2>2. [Rest EXCEPT !.pc = "run", !.job = j].pc # "show"
    BY DEF Rest
  <2> QED
    BY <1>0, <1>4, <2>1, <2>2
<1>15. ASSUME \/ CheckConnection \/ Read \/ ReadEnds \/ NotifyAll \/ UNCHANGED thread PROVE FALSE
  BY <1>0, <1>15 DEF CheckConnection, Read, ReadEnds, NotifyAll, Goto
<1>16. CASE Crash
  <2>1. thread'[c] \in {Start, Rest}
    BY <1>0, <1>16 DEF Crash
  <2>2. Start.pc = "check" /\ Rest.pc = "idle"
    BY DEF Start, Rest
  <2> QED
    BY <2>1, <2>2
<1>17. ASSUME Arrive \/ ReceivedMessage \/ ReceivedNotification \/ StoreJob PROVE FALSE
  BY <1>17 DEF Arrive, ReceivedMessage, ReceivedNotification, StoreJob
<1>18. ASSUME NEW d \in Consumers, Decrypt(d) PROVE d = c /\ Goto(c, "show")
  <2>1. Goto(d, "show") \/ Goto(d, "delete")
    BY <1>18 DEF Decrypt
  <2>2. Goto(d, "show")
    BY <1>0, <1>2, <2>1
  <2>3. Only(d)
    BY <1>0, <2>2, GotoFacts
  <2>4. d = c
    BY <1>0, <2>3 DEF Only
  <2> QED
    BY <2>2, <2>4
<1> QED
  BY <1>5, <1>6, <1>7, <1>8, <1>9, <1>10, <1>11, <1>12, <1>13, <1>14, <1>15, <1>16, <1>17, <1>18, StepKinds

(* The inbox grows by the message a thread was about to show.              *)
LEMMA InboxGrows ==
  ASSUME [Next]_vars
  PROVE  UNCHANGED inbox \/ \E c \in Consumers : InsertMessageInbox(c)
<1>1. ASSUME Arrive \/ ReceivedMessage \/ ReceivedNotification \/ StoreJob \/ Crash
      PROVE  UNCHANGED inbox
  BY <1>1 DEF Arrive, ReceivedMessage, ReceivedNotification, StoreJob, Crash, dataVars
<1>2. ASSUME NEW t \in Threads, \/ \E blocked \in Blocking : Find(t, blocked)
                               \/ InsertRow(t) \/ AddDecryptJob(t) \/ AddReceiptJob(t)
                               \/ Acknowledge(t) \/ LoseAck(t)
      PROVE  UNCHANGED inbox
  BY <1>2 DEF Find, InsertRow, AddDecryptJob, AddReceiptJob, Acknowledge, LoseAck, dataVars
<1>3. ASSUME NEW c \in Consumers,
             \/ TakeJob(c) \/ RetrieveMessages(c) \/ RetrieveFails(c) \/ ReadContent(c)
             \/ SendReceipt(c) \/ ReceiptFails(c) \/ GetRow(c) \/ DeleteRow(c) \/ FinishJob(c)
             \/ Decrypt(c)
      PROVE  UNCHANGED inbox
  BY <1>3 DEF TakeJob, RetrieveMessages, RetrieveFails, ReadContent, SendReceipt, ReceiptFails, GetRow,
     DeleteRow, FinishJob, Decrypt, dataVars
<1>4. UNCHANGED dataVars => UNCHANGED inbox
  BY DEF dataVars
<1> QED
  BY <1>1, <1>2, <1>3, <1>4, StepKinds

LEMMA DecryptedNext ==
  ASSUME Ordered, TakenInOrder, JobsInOrder, DecryptedInOrder, [Next]_vars
  PROVE  DecryptedInOrder'
<1>0. /\ Typed /\ Jobs /\ RowsHeld /\ Channels /\ KeysUsed /\ arrived \in Nat
      /\ arrived' \in {arrived, arrived + 1} /\ \A c \in Consumers : c \in Threads
  BY OrderedFacts, ArrivedNext
<1>1. Aside \subseteq Aside'
  BY <1>0, LogGrows DEF Aside
<1>2. ASSUME NEW c \in Consumers, Decrypt(c)
      PROVE  /\ thread[c].pc = "decrypt" /\ thread[c].e \in 1..arrived
             /\ log' = log /\ inbox' = inbox
             /\ Goto(c, "show") => thread[c].e \in Corrupt \/ thread[c].e \notin session
  <2>1. thread[c].pc = "decrypt" /\ log' = log /\ inbox' = inbox
    BY <1>2 DEF Decrypt, restVars
  <2>2. thread[c].e \in 1..arrived
    BY <1>0, <2>1 DEF RowsHeld, ThreadHeld, Holds, Channels
  <2>3. ASSUME Goto(c, "show"), Goto(c, "delete") PROVE FALSE
    <3>1. thread'[c].pc = "show"
      BY <1>0, <2>3, GotoFacts
    <3>2. thread'[c].pc = "delete"
      BY <1>0, <2>3, GotoFacts
    <3> QED
      BY <3>1, <3>2
  <2>4. Goto(c, "show") => thread[c].e \in Corrupt \/ thread[c].e \notin session
    BY <1>2, <2>3 DEF Decrypt
  <2> QED
    BY <2>1, <2>2, <2>4
<1>3. session' \subseteq 1..arrived'
  <2>1. \A e \in 1..arrived : e \in 1..arrived'
    BY <1>0
  <2>2. session \subseteq 1..arrived
    BY DEF DecryptedInOrder
  <2>3. \A e \in session' \ session : e \in 1..arrived
    BY <1>2, SessionStays
  <2> QED
    BY <2>1, <2>2, <2>3
<1>4. ASSUME NEW e \in session' \ Aside', NEW d \in 1..(e - 1) PROVE Over(d)'
  <2>1. e \in 1..arrived
    <3>1. CASE e \in session
      BY <3>1 DEF DecryptedInOrder
    <3>2. CASE e \notin session
      <4>1. PICK c \in Consumers : Decrypt(c) /\ e = thread[c].e
        BY <3>2, SessionStays
      <4> QED
        BY <1>2, <4>1
    <3> QED
      BY <3>1, <3>2
  <2>2. d \in 1..arrived
    BY <1>0, <2>1
  <2>3. CASE e \in session
    <3>1. Over(d)
      BY <1>1, <2>3 DEF DecryptedInOrder
    <3> QED
      BY <2>2, <3>1, OverStays
  <2>4. CASE e \notin session
    <3>1. PICK c \in Consumers : Decrypt(c) /\ e = thread[c].e
      BY <2>4, SessionStays
    <3>2. e \notin Direct \cup log.astray
      BY <1>1 DEF Aside
    <3>3. Over(d)
      BY <1>2, <3>1, <3>2, DecryptTurn
    <3> QED
      BY <2>2, <3>3, OverStays
  <2> QED
    BY <2>3, <2>4
<1>5. ASSUME NEW c \in Consumers, thread'[c].pc = "show", thread'[c].e \notin Aside',
             NEW e \in Shown' \ Aside'
      PROVE  e <= thread'[c].e
  <2>1. CASE thread[c].pc = "show"
    <3>1. ~InsertMessageInbox(c)
      <4>1. InsertMessageInbox(c) => thread'[c].pc = "delete"
        BY <1>0, GotoFacts DEF InsertMessageInbox
      <4> QED
        BY <1>5, <4>1
    <3>2. ~Crash
      BY <1>0, <1>5 DEF Crash, Start, Rest
    <3>3. thread'[c] = thread[c]
      BY <1>0, <2>1, <3>1, <3>2, ShowStays
    <3>4. UNCHANGED inbox
      <4>1. ASSUME NEW d \in Consumers, InsertMessageInbox(d) PROVE FALSE
        <5>1. thread[d].pc = "show"
          BY <4>1 DEF InsertMessageInbox
        <5>2. d = c
          BY <1>0, <2>1, <5>1, DecryptsAlone
        <5> QED
          BY <3>1, <4>1, <5>2
      <4> QED
        BY <4>1, InboxGrows
    <3>5. e \in Shown
      BY <3>4 DEF Shown
    <3>6. c \in Busy
      BY <2>1 DEF Busy
    <3>7. thread[c].e \notin Aside /\ e \notin Aside
      BY <1>1, <1>5, <3>3
    <3> QED
      BY <2>1, <3>3, <3>5, <3>6, <3>7 DEF DecryptedInOrder
  <2>2. CASE thread[c].pc # "show"
    <3>1. Decrypt(c) /\ Goto(c, "show")
      BY <1>0, <1>5, <2>2, ShowComes
    <3>2. thread'[c].e = thread[c].e
      BY <1>0, <3>1, GotoFacts
    <3>3. thread[c].e \notin Aside /\ e \notin Aside /\ thread[c].e \in 1..arrived /\ thread[c].e \notin session
      BY <1>1, <1>2, <1>5, <3>1, <3>2 DEF Aside
    <3>4. e \in Shown
      BY <1>2, <3>1 DEF Shown
    <3>5. e \in session
      BY <3>3, <3>4, KnownOver DEF Known, Aside
    <3>6. e \in 1..arrived
      BY <3>5 DEF DecryptedInOrder
    <3>7. e < thread[c].e
      BY <1>2, <3>1, <3>3, <3>5, DecryptLast
    <3> QED
      BY <1>0, <3>2, <3>3, <3>6, <3>7
  <2> QED
    BY <2>1, <2>2
<1> QED
  BY <1>3, <1>4, <1>5 DEF DecryptedInOrder, Busy

LEMMA OrderInit == Init => Order
<1> SUFFICES ASSUME Init PROVE Order
  OBVIOUS
<1>1. /\ \A t \in Threads : thread[t].pc \in {"check", "idle"} /\ thread[t].todo = <<>>
      /\ DOMAIN stored = {} /\ DOMAIN adding = {} /\ session = {} /\ arrived = 0
  BY DEF Init, Start, Rest
<1>2. \A t \in Threads : thread[t].pc \notin Handling /\ thread[t].pc # "show"
  BY <1>1 DEF Handling
<1>3. ListsEmpty
  BY <1>1 DEF ListsEmpty
<1>4. TakenInOrder
  BY <1>1, <1>2 DEF TakenInOrder, ThreadInOrder
<1>5. JobsInOrder
  BY <1>1 DEF JobsInOrder
<1>6. DecryptedInOrder
  BY <1>1, <1>2 DEF DecryptedInOrder, Busy, Threads
<1> QED
  BY <1>3, <1>4, <1>5, <1>6 DEF Order

LEMMA ShownNext ==
  ASSUME Ordered, DecryptedInOrder, ShownInOrder, [Next]_vars
  PROVE  ShownInOrder'
<1>0. /\ Typed /\ inbox \in Seq(Envelopes) /\ Corrupt \cup Direct \cup log.dropped \cup log.astray = Aside
  BY OrderedFacts DEF Typed, TypeOK, Aside
<1>1. Aside \subseteq Aside' /\ Aside' = Corrupt \cup Direct \cup log'.dropped \cup log'.astray
  BY <1>0, LogGrows DEF Aside
<1>2. CASE UNCHANGED inbox
  BY <1>0, <1>1, <1>2 DEF ShownInOrder
<1>3. ASSUME NEW c \in Consumers, InsertMessageInbox(c) PROVE ShownInOrder'
  <2>1. thread[c].pc = "show" /\ inbox' = Append(inbox, thread[c].e) /\ c \in Busy
    BY <1>3 DEF InsertMessageInbox, Busy
  <2>2. /\ DOMAIN inbox' = 1..(Len(inbox) + 1) /\ DOMAIN inbox = 1..Len(inbox) /\ Len(inbox) \in Nat
        /\ \A n \in DOMAIN inbox : inbox'[n] = inbox[n]
        /\ inbox'[Len(inbox) + 1] = thread[c].e
    BY <1>0, <2>1, AppendFacts
  <2> SUFFICES ASSUME NEW i \in DOMAIN inbox', NEW k \in DOMAIN inbox', i < k,
                      inbox'[i] \notin Aside', inbox'[k] \notin Aside'
               PROVE  inbox'[i] <= inbox'[k]
    BY <1>1 DEF ShownInOrder
  <2>3. i \in DOMAIN inbox /\ inbox'[i] = inbox[i] /\ inbox[i] \notin Aside /\ inbox'[k] \notin Aside
    BY <1>1, <2>2
  <2>4. CASE k \in DOMAIN inbox
    BY <1>0, <2>2, <2>3, <2>4 DEF ShownInOrder
  <2>5. CASE k \notin DOMAIN inbox
    <3>1. k = Len(inbox) + 1 /\ inbox'[k] = thread[c].e
      BY <2>2, <2>5
    <3>2. inbox[i] \in Shown
      BY <2>3 DEF Shown, ToSet
    <3> QED
      BY <2>1, <2>3, <3>1, <3>2 DEF DecryptedInOrder
  <2> QED
    BY <2>4, <2>5
<1> QED
  BY <1>2, <1>3, InboxGrows

LEMMA OrderNext ==
  ASSUME Ordered, Order, [Next]_vars
  PROVE  Ordered' /\ Order'
<1>1. Ordered'
  BY OrderedNext
<1> QED
  BY <1>1, TakenNext, JobsInOrderNext, DecryptedNext DEF Order, Ordered

LEMMA AlwaysOrdered == Spec => [](Ordered /\ Order)
<1>1. Init => Ordered /\ Order
  BY KeptInit, InitInv, OrderInit DEF Ordered, Order
<1>2. Ordered /\ Order /\ [Next]_vars => (Ordered /\ Order)'
  BY OrderNext
<1> QED
  BY <1>1, <1>2, PTL DEF Spec

(* Messages the server queued are shown in the order it took them, through *)
(* crashes, lost acknowledgements and two channels that store them, but    *)
(* for those blocked, rejected by the cipher or gone astray.               *)
THEOREM MessagesShownInOrder == Spec => []ShownInOrder
<1>1. Init => ShownInOrder
  BY DEF Init, ShownInOrder
<1>2. Ordered /\ Order /\ ShownInOrder /\ [Next]_vars => ShownInOrder'
  BY ShownNext DEF Order
<1> QED
  BY <1>1, <1>2, AlwaysOrdered, PTL DEF Spec

(* However often an envelope is delivered, by whatever channels, and       *)
(* wherever the process dies, its message is inserted in the inbox once.   *)
THEOREM NeverShownTwice == Spec => []ShownOnce
<1>1. Inv => ShownOnce
  BY DEF Inv
<1> QED
  BY <1>1, InitInv, NextInv, PTL DEF Spec

-----------------------------------------------------------------------------
(* The queue of jobs the JobManager stands for                             *)

Carries(c) == c \in Busy /\ thread[c].job.persistent

Tickets   == {Ticket(j) : j \in ToSet(stored)}
InThreads == {Ticket(j) : j \in {k \in Running : k.persistent}}

LEMMA TicketSets ==
  /\ \A t : t \in Tickets <=> \E i \in DOMAIN stored : t = Ticket(stored[i])
  /\ \A t : t \in InThreads <=> \E c \in Consumers : Carries(c) /\ t = Ticket(thread[c].job)
  /\ \A t : t \in Tickets' <=> \E i \in DOMAIN stored' : t = Ticket(stored'[i])
  /\ \A t : t \in InThreads' <=>
       \E c \in Consumers : Carries(c)' /\ t = Ticket(thread'[c].job)
BY DEF Tickets, InThreads, Running, Busy, Carries, ToSet

LEMMA TicketFields ==
  /\ \A j : Ticket(j).id = j.id /\ Ticket(j).kind = j.kind /\ Ticket(j).group = j.group
  /\ \A j, k : SameWork(j, k) => Ticket(j) = Ticket(k)
  /\ \A j, k : /\ Same(j, k) /\ Formed(j) /\ Formed(k) /\ j.kind # "fetch"
               => Ticket(j) = Ticket(k)
BY DEF Ticket, SameWork, Same, Formed

(* No two stored jobs have one id.                                         *)
LEMMA StoredApart ==
  ASSUME Typed, Jobs, NEW i \in DOMAIN stored, NEW k \in DOMAIN stored,
         stored[i].id = stored[k].id
  PROVE  i = k
<1>1. i \in Nat /\ k \in Nat /\ stored[i].id \in Nat /\ stored[k].id \in Nat
  BY DEF Jobs, JobsFormed, Typed
<1>2. i = k \/ i < k \/ k < i
  BY <1>1
<1> QED
  BY <1>1, <1>2 DEF Jobs, JobsApart

(* The job of a thread, when it is stored, has the ticket of the stored    *)
(* one; and a thread with the id of a stored job has a persistent one.     *)
LEMMA TicketStored ==
  ASSUME Typed, Jobs, NEW c \in Busy, NEW m \in DOMAIN stored,
         \/ thread[c].job.persistent /\ Same(stored[m], thread[c].job)
         \/ stored[m].id = thread[c].job.id
  PROVE  /\ thread[c].job.persistent
         /\ Ticket(stored[m]) = Ticket(thread[c].job)
<1>1. Formed(stored[m]) /\ stored[m].persistent /\ Formed(thread[c].job)
  BY DEF Jobs, JobsFormed
<1>2. Same(stored[m], thread[c].job)
  <2>1. CASE stored[m].id = thread[c].job.id
    <3>1. \A n \in DOMAIN queue : ~ Same(stored[m], queue[n])
      BY <2>1 DEF Jobs, JobsApart, Same
    <3>2. PICK d \in Busy : Same(stored[m], thread[d].job)
      BY <3>1 DEF Jobs, JobsKept
    <3>3. d = c
      BY <2>1, <3>2 DEF Jobs, JobsApart, Same
    <3> QED
      BY <3>2, <3>3
  <2> QED
    BY <2>1
<1>3. thread[c].job.persistent /\ stored[m].kind # "fetch"
  BY <1>1, <1>2 DEF Formed, Same
<1> QED
  BY <1>1, <1>2, <1>3, TicketFields

(* The ticket of such a thread is stored, and no other thread has it.      *)
LEMMA TicketOf ==
  ASSUME Typed, Jobs, NEW c \in Consumers, Carries(c)
  PROVE  /\ Ticket(thread[c].job) \in InThreads
         /\ Ticket(thread[c].job) \in Tickets
         /\ \A d \in Consumers : Carries(d) /\ d # c =>
              Ticket(thread[d].job) # Ticket(thread[c].job)
<1>1. PICK m \in DOMAIN stored : Same(stored[m], thread[c].job)
  BY DEF Jobs, JobsKept, Carries
<1>2. Ticket(thread[c].job) = Ticket(stored[m])
  BY <1>1, TicketStored DEF Carries
<1>3. \A d \in Consumers : Carries(d) /\ d # c => thread[d].job.id # thread[c].job.id
  BY DEF Jobs, JobsApart, Carries
<1>4. \A d \in Consumers : Carries(d) /\ d # c =>
        Ticket(thread[d].job).id # Ticket(thread[c].job).id
  BY <1>3, TicketFields
<1> QED
  BY <1>2, <1>4, TicketSets

(* A thread lets its job go.                                               *)
Releases(c) == /\ c \in Busy /\ c \notin Busy'
               /\ \A d \in Consumers : d # c => thread'[d] = thread[d]

LEMMA ReleaseCarries ==
  ASSUME NEW c \in Consumers, Releases(c), NEW d \in Consumers
  PROVE  Carries(d)' <=> Carries(d) /\ d # c
BY DEF Releases, Carries, Busy

LEMMA TicketGivenBack ==
  ASSUME Typed, Jobs, NEW c \in Consumers, Releases(c)
  PROVE  /\ Carries(c) => InThreads' = InThreads \ {Ticket(thread[c].job)}
         /\ ~Carries(c) => InThreads' = InThreads
<1>1. ASSUME NEW t PROVE t \in InThreads' <=> \E d \in Consumers :
        Carries(d) /\ d # c /\ t = Ticket(thread[d].job)
  <2>1. \A d \in Consumers : Carries(d) /\ d # c => thread'[d] = thread[d]
    BY DEF Releases
  <2> QED
    BY <2>1, ReleaseCarries, TicketSets
<1>2. CASE Carries(c)
  <2>1. ASSUME NEW t PROVE t \in InThreads' <=> t \in InThreads /\ t # Ticket(thread[c].job)
    BY <1>1, <1>2, TicketOf, TicketSets
  <2> QED
    BY <1>2, <2>1
<1>3. CASE ~Carries(c)
  <2>1. ASSUME NEW t PROVE t \in InThreads' <=> t \in InThreads
    BY <1>1, <1>3, TicketSets
  <2> QED
    BY <1>3, <2>1
<1> QED
  BY <1>2, <1>3

(* A thread stays at its job, or without one.                              *)
Keeps(c) == /\ c \in Busy' <=> c \in Busy
            /\ c \in Busy => SameWork(thread'[c].job, thread[c].job)

Steady == /\ UNCHANGED <<stored, lastId>>
          /\ \A c \in Consumers : Keeps(c)

LEMMA KeepsOnly ==
  ASSUME NEW t \in Threads, Only(t), NEW c \in Consumers, c # t
  PROVE  Keeps(c)
BY DEF Only, Keeps, Busy, SameWork, Threads

LEMMA KeepsMove ==
  ASSUME NEW t \in Threads, Only(t), thread'[t].job = thread[t].job,
         thread[t].pc # "idle", thread'[t].pc # "idle", UNCHANGED <<stored, lastId>>
  PROVE  Steady
<1>1. ASSUME NEW c \in Consumers, c = t PROVE Keeps(c)
  BY <1>1 DEF Keeps, Busy, SameWork
<1> QED
  BY <1>1, KeepsOnly DEF Steady

(* A retry keeps the job at the thread, or puts it back.                   *)
LEMMA KeepsRetry ==
  ASSUME Typed, NEW c \in Consumers, thread[c].pc # "idle", RetryLater(c),
         UNCHANGED <<stored, lastId>>
  PROVE  Steady \/ Releases(c)
<1>0. c \in Threads /\ \A d \in Consumers : d \in Threads
  BY DEF Threads
<1>1. Only(c) /\ (thread'[c].pc = "idle" \/ SameWork(thread'[c].job, thread[c].job))
  BY <1>0, RetryFacts
<1>2. CASE thread'[c].pc = "idle"
  BY <1>0, <1>1, <1>2 DEF Only, Releases, Busy
<1>3. CASE thread'[c].pc # "idle"
  <2>1. Keeps(c)
    BY <1>1, <1>3 DEF Keeps, Busy
  <2> QED
    BY <1>0, <1>1, <2>1, KeepsOnly DEF Steady
<1> QED
  BY <1>2, <1>3

LEMMA KeepsHandle ==
  ASSUME Typed, NEW t \in Threads,
         \/ \E blocked \in Blocking : Find(t, blocked)
         \/ InsertRow(t) \/ AddDecryptJob(t) \/ AddReceiptJob(t) \/ Acknowledge(t)
  PROVE  Steady
<1>1. thread[t].pc \in {"find", "insert", "add", "receipt", "ack"} /\ UNCHANGED <<stored, lastId>>
  BY DEF Find, InsertRow, AddDecryptJob, AddReceiptJob, Acknowledge, jobVars
<1>2. ASSUME \E pc \in {"insert", "receipt", "ack", "done"} : Goto(t, pc) PROVE Steady
  BY <1>1, <1>2, GotoFacts, KeepsMove
<1>3. ASSUME NEW row, ToRow(t, "add", row) PROVE Steady
  BY <1>1, <1>3, RowFacts, KeepsMove
<1>4. ASSUME NEW e, NEW todo, ToList(t, "find", e, todo) PROVE Steady
  BY <1>1, <1>4, ListFacts, KeepsMove
<1>5. Handled(t) \in {"receipt", "ack"}
  BY DEF Handled
<1>6. ASSUME NEW blocked \in Blocking, Find(t, blocked) PROVE Steady
  <2>1. \/ \E pc \in {"insert", "receipt", "ack", "done"} : Goto(t, pc)
        \/ ToRow(t, "add", Min(RowsOf(thread[t].e)))
    BY <1>5, <1>6 DEF Find, ToRow
  <2> QED
    BY <1>2, <1>3, <2>1
<1>7. CASE InsertRow(t)
  BY <1>3, <1>7 DEF InsertRow, ToRow
<1>8. CASE AddDecryptJob(t) \/ AddReceiptJob(t)
  BY <1>2, <1>5, <1>8 DEF AddDecryptJob, AddReceiptJob
<1>9. CASE Acknowledge(t)
  <2>1. CASE t = Service /\ To(t, Start)
    <3>1. Only(t) /\ t \notin Consumers
      BY <2>1, SetFacts, ConsumersAssumption
    <3> QED
      BY <1>1, <3>1, KeepsOnly DEF Steady
  <2>2. CASE \E pc \in {"insert", "receipt", "ack", "done"} : Goto(t, pc)
    BY <1>2, <2>2
  <2>3. CASE ToList(t, "find", Head(thread[t].todo), Tail(thread[t].todo))
    BY <1>4, <2>3
  <2>4. \/ t = Service /\ To(t, Start)
        \/ Goto(t, "done")
        \/ ToList(t, "find", Head(thread[t].todo), Tail(thread[t].todo))
    <3>1. DOMAIN thread[t] = {"pc", "job", "e", "row", "todo"}
      BY DEF Typed, SoundThread, Thread
    <3> QED
      BY <1>9, <3>1 DEF Acknowledge, To, ToList
  <2> QED
    BY <2>1, <2>2, <2>3, <2>4
<1> QED
  BY <1>6, <1>7, <1>8, <1>9

LEMMA KeepsJob ==
  ASSUME Typed, NEW c \in Consumers,
         \/ RetrieveMessages(c) \/ ReadContent(c) \/ SendReceipt(c) \/ GetRow(c)
         \/ Decrypt(c) \/ InsertMessageInbox(c) \/ DeleteRow(c)
  PROVE  Steady
<1>1. /\ thread[c].pc \in {"run", "decrypt", "show", "delete"} /\ c \in Threads
      /\ UNCHANGED <<stored, lastId>>
  BY DEF RetrieveMessages, ReadContent, SendReceipt, GetRow, Decrypt, InsertMessageInbox,
     DeleteRow, Run, jobVars, Threads
<1>2. ASSUME \E pc \in {"show", "delete", "done"} : Goto(c, pc) PROVE Steady
  BY <1>1, <1>2, GotoFacts, KeepsMove
<1>3. CASE RetrieveMessages(c)
  <2>1. \/ Goto(c, "done")
        \/ \E list \in InOrder(server) : ToList(c, "find", Head(list), Tail(list))
    BY <1>3 DEF RetrieveMessages, ToList
  <2>2. ASSUME NEW e, NEW todo, ToList(c, "find", e, todo) PROVE Steady
    BY <1>1, <2>2, ListFacts, KeepsMove
  <2> QED
    BY <1>2, <2>1, <2>2
<1>4. CASE ReadContent(c)
  <2>1. ToEnvelope(c, "find", thread[c].job.e)
    BY <1>4 DEF ReadContent, ToEnvelope
  <2> QED
    BY <1>1, <2>1, EnvelopeFacts, KeepsMove
<1>5. CASE GetRow(c)
  <2>1. \/ Goto(c, "done")
        \/ ToBoth(c, "decrypt", thread[c].job.row, push[thread[c].job.row])
    BY <1>5 DEF GetRow, ToBoth
  <2>2. ASSUME NEW row, NEW e, ToBoth(c, "decrypt", row, e) PROVE Steady
    BY <1>1, <2>2, GetFacts, KeepsMove
  <2> QED
    BY <1>2, <2>1, <2>2
<1>6. CASE SendReceipt(c) \/ Decrypt(c) \/ InsertMessageInbox(c) \/ DeleteRow(c)
  BY <1>2, <1>6 DEF SendReceipt, Decrypt, InsertMessageInbox, DeleteRow
<1> QED
  BY <1>3, <1>4, <1>5, <1>6

(* What a step is to the JobManager.                                       *)
JobKind == \/ Steady \/ StoreJob \/ Crash
           \/ \E c \in Consumers : \/ TakeJob(c) \/ FinishJob(c)
                                   \/ Releases(c) /\ UNCHANGED <<stored, lastId>>

LEMMA JobKinds ==
  ASSUME Typed, [Next]_vars
  PROVE  JobKind
<1>0. Service \in Threads /\ Service \notin Consumers /\ \A c \in Consumers : c \in Threads
  BY ConsumersAssumption DEF Threads
<1>1. ASSUME Only(Service) \/ UNCHANGED thread, UNCHANGED <<stored, lastId>> PROVE JobKind
  <2>1. Only(Service)
    BY <1>1 DEF Only
  <2> QED
    BY <1>0, <1>1, <2>1, KeepsOnly DEF Steady, JobKind
<1>2. CASE Arrive \/ ReceivedMessage \/ ReceivedNotification
  BY <1>1, <1>2 DEF Arrive, ReceivedMessage, ReceivedNotification, jobVars
<1>3. CASE (NotifyAll \/ UNCHANGED thread) /\ UNCHANGED <<dataVars, jobVars, log>>
  BY <1>1, <1>3, NotifyFacts DEF jobVars
<1>4. CASE (CheckConnection \/ ReadEnds \/ Read) /\ UNCHANGED <<dataVars, jobVars, log>>
  <2>1. \/ \E pc : Goto(Service, pc)
        \/ ToEnvelope(Service, "find", Min(server))
    BY <1>4 DEF CheckConnection, ReadEnds, Read, ToEnvelope
  <2>2. Only(Service)
    BY <1>0, <2>1, GotoFacts, EnvelopeFacts
  <2> QED
    BY <1>1, <1>4, <2>2 DEF jobVars
<1>5. ASSUME NEW t \in Threads,
             \/ \E blocked \in Blocking : Find(t, blocked)
             \/ InsertRow(t) \/ AddDecryptJob(t) \/ AddReceiptJob(t) \/ Acknowledge(t)
      PROVE  JobKind
  BY <1>5, KeepsHandle DEF JobKind
<1>6. ASSUME NEW t \in Threads, LoseAck(t)
      PROVE  JobKind
  <2>1. thread[t].pc = "ack" /\ UNCHANGED <<stored, lastId>>
    BY <1>6 DEF LoseAck
  <2>2. CASE t = Service /\ To(t, Start)
    BY <1>1, <2>1, <2>2, SetFacts
  <2>3. CASE t # Service /\ RetryLater(t)
    BY <2>1, <2>3, KeepsRetry DEF Threads, JobKind
  <2> QED
    BY <1>6, <2>2, <2>3 DEF LoseAck, To
<1>7. ASSUME NEW c \in Consumers, RetrieveFails(c) \/ ReceiptFails(c)
      PROVE  JobKind
  <2>1. thread[c].pc = "run" /\ RetryLater(c) /\ UNCHANGED <<stored, lastId>>
    BY <1>7 DEF RetrieveFails, ReceiptFails, Run
  <2> QED
    BY <2>1, KeepsRetry DEF JobKind
<1>8. ASSUME NEW c \in Consumers,
             \/ RetrieveMessages(c) \/ ReadContent(c) \/ SendReceipt(c) \/ GetRow(c)
             \/ Decrypt(c) \/ InsertMessageInbox(c) \/ DeleteRow(c)
      PROVE  JobKind
  BY <1>8, KeepsJob DEF JobKind
<1>9. CASE StoreJob \/ Crash \/ \E c \in Consumers : TakeJob(c) \/ FinishJob(c)
  BY <1>9 DEF JobKind
<1>10. CASE \E c \in Consumers : \/ TakeJob(c) \/ RetrieveMessages(c) \/ RetrieveFails(c) \/ ReadContent(c)
                                \/ SendReceipt(c) \/ ReceiptFails(c) \/ GetRow(c) \/ Decrypt(c)
                                \/ InsertMessageInbox(c) \/ DeleteRow(c) \/ FinishJob(c)
  BY <1>7, <1>8, <1>9, <1>10
<1>11. CASE \E t \in Threads : \/ \E blocked \in Blocking : Find(t, blocked)
                              \/ InsertRow(t) \/ AddDecryptJob(t) \/ AddReceiptJob(t)
                              \/ Acknowledge(t) \/ LoseAck(t)
  BY <1>5, <1>6, <1>11
<1> QED
  BY <1>2, <1>3, <1>4, <1>9, <1>10, <1>11, StepKinds

(* What storing a job makes of the storage.                                *)
LEMMA StoreTickets ==
  ASSUME Typed, Jobs, StoreJob
  PROVE  /\ lastId' = lastId + 1 /\ lastId \in Nat /\ InThreads' = InThreads
         /\ \/ Tickets' = Tickets
            \/ \E t \in Tickets' : t.id = lastId + 1 /\ Tickets' = Tickets \cup {t}
<1> DEFINE j == [Head(adding) EXCEPT !.id = lastId + 1]
<1>0. adding \in Seq(SoundJob) /\ stored \in Seq(SoundJob) /\ lastId \in Nat
  BY DEF Typed, TypeOK
<1>1. /\ stored' = (IF j.persistent THEN Append(stored, j) ELSE stored) /\ adding # <<>>
      /\ lastId' = lastId + 1 /\ thread' = thread
  BY DEF StoreJob
<1>2. j.id = lastId + 1
  <2>1. Head(adding) \in SoundJob
    BY <1>0, <1>1
  <2> QED
    BY <2>1 DEF SoundJob, Job
<1> HIDE DEF j
<1>3. InThreads' = InThreads
  BY <1>1 DEF InThreads, Running
<1>4. CASE ~j.persistent
  BY <1>0, <1>1, <1>3, <1>4 DEF Tickets
<1>5. CASE j.persistent
  <2>1. /\ DOMAIN stored' = 1..(Len(stored) + 1) /\ DOMAIN stored = 1..Len(stored)
        /\ Len(stored) \in Nat
        /\ \A n \in DOMAIN stored : stored'[n] = stored[n]
        /\ stored'[Len(stored) + 1] = j
    BY <1>0, <1>1, <1>5, AppendFacts
  <2>2. \A n : n \in DOMAIN stored' <=> n \in DOMAIN stored \/ n = Len(stored) + 1
    BY <2>1
  <2>3. Tickets' = Tickets \cup {Ticket(j)}
    BY <2>1, <2>2, TicketSets
  <2>4. Ticket(j).id = lastId + 1
    BY <1>2, TicketFields
  <2> QED
    BY <1>0, <1>1, <1>3, <2>3, <2>4
<1> QED
  BY <1>4, <1>5

(* The job a thread takes is the oldest of its line.                       *)
LEMMA OldestTicket ==
  ASSUME Typed, Jobs, NEW i \in DOMAIN queue, queue[i].persistent,
         Eligible(i), \A k \in 1..(i - 1) : ~Eligible(k)
  PROVE  /\ Ticket(queue[i]) \in Tickets \ InThreads
         /\ \A t \in InThreads : queue[i].group = "none" \/ queue[i].group # t.group
         /\ \A t \in Tickets : Queue!SameLine(Ticket(queue[i]), t) => queue[i].id <= t.id
<1>1. PICK m \in DOMAIN stored : Same(stored[m], queue[i])
  BY DEF Jobs, JobsKept
<1>2. Formed(queue[i]) /\ Formed(stored[m]) /\ stored[m].persistent
  BY DEF Jobs, JobsFormed
<1>3. stored[m].kind # "fetch"
  BY <1>2 DEF Formed
<1>4. Ticket(stored[m]) = Ticket(queue[i])
  BY <1>1, <1>2, <1>3, TicketFields
<1>5. \A c \in Consumers : Carries(c) => Ticket(thread[c].job).id # Ticket(queue[i]).id
  BY TicketFields DEF Jobs, JobsApart, Carries
<1>6. Ticket(queue[i]) \in Tickets \ InThreads
  BY <1>4, <1>5, TicketSets
<1>7. \A c \in Busy : queue[i].group = "none" \/ queue[i].group # thread[c].job.group
  BY DEF Eligible, GroupFree, Running, Busy
<1>8. \A t \in InThreads : queue[i].group = "none" \/ queue[i].group # t.group
  BY <1>7, TicketFields, TicketSets DEF Carries
<1>9. ASSUME NEW t \in Tickets, Queue!SameLine(Ticket(queue[i]), t) PROVE queue[i].id <= t.id
  <2>1. PICK n \in DOMAIN stored : t = Ticket(stored[n])
    BY TicketSets
  <2>2. queue[i].group # "none" /\ stored[n].kind = queue[i].kind /\ t.id = stored[n].id
    BY <1>9, <2>1, TicketFields DEF Queue!SameLine
  <2>3. queue[i].kind = "decrypt" /\ queue[i].group = "decrypt"
    BY <1>1, <1>2, <1>3, <2>2 DEF Formed, Same
  <2>4. ASSUME NEW c \in Busy, Same(stored[n], thread[c].job) PROVE FALSE
    <3>1. thread[c].job.group = "decrypt"
      BY <2>2, <2>3, <2>4 DEF Same, Jobs, JobsFormed, Formed
    <3> QED
      BY <1>7, <2>3, <3>1
  <2>5. PICK k \in DOMAIN queue : Same(stored[n], queue[k])
    BY <2>4 DEF Jobs, JobsKept
  <2>6. queue[k].kind = "decrypt" /\ queue[k].group = "decrypt" /\ t.id = queue[k].id
    BY <2>2, <2>3, <2>5 DEF Same, Jobs, JobsFormed, Formed
  <2>7. Eligible(k)
    BY <2>3, <2>6 DEF Eligible, NeedsNetwork
  <2>8. k \in Nat /\ i \in Nat /\ k >= 1 /\ queue[i].id \in Nat /\ queue[k].id \in Nat
    BY DEF Typed, Jobs, JobsFormed
  <2>9. k = i \/ i < k
    BY <2>7, <2>8
  <2> QED
    BY <2>3, <2>6, <2>8, <2>9 DEF Jobs, DecryptsInTurn
<1> QED
  BY <1>6, <1>8, <1>9

(* Each kind of step is one of the queue's, or changes nothing of it.      *)
LEMMA QueueStep ==
  ASSUME Typed, Jobs, [Next]_vars
  PROVE  Queue!Next \/ UNCHANGED <<Tickets, InThreads, lastId>>
<1>1. CASE Steady
  <2>1. \A c \in Consumers : Carries(c)' <=> Carries(c)
    BY <1>1 DEF Steady, Keeps, Carries, SameWork
  <2>2. \A c \in Consumers : Carries(c) => Ticket(thread'[c].job) = Ticket(thread[c].job)
    BY <1>1, TicketFields DEF Steady, Keeps, Carries
  <2>3. InThreads' = InThreads
    BY <2>1, <2>2, TicketSets
  <2> QED
    BY <1>1, <2>3 DEF Tickets, Steady
<1>2. CASE StoreJob
  <2>1. lastId' > lastId
    BY <1>2, StoreTickets
  <2>2. CASE Tickets' = Tickets
    <3>1. Queue!PassOver
      BY <1>2, <2>1, <2>2, StoreTickets DEF Queue!PassOver, Tickets, InThreads
    <3> QED
      BY <3>1 DEF Queue!Next
  <2>3. ASSUME NEW t \in Tickets', t.id = lastId + 1, Tickets' = Tickets \cup {t} PROVE Queue!Next
    <3>1. Queue!Store
      BY <1>2, <2>1, <2>3, StoreTickets DEF Queue!Store, Tickets, InThreads
    <3> QED
      BY <3>1 DEF Queue!Next
  <2> QED
    BY <1>2, <2>2, <2>3, StoreTickets
<1>3. CASE Crash
  <2>1. \A c \in Consumers : c \notin Busy'
    BY <1>3, ConsumersAssumption DEF Crash, Busy, Threads, Rest
  <2>2. InThreads' = {}
    BY <2>1, TicketSets DEF Carries
  <2>3. Queue!Die
    BY <1>3, <2>2 DEF Queue!Die, InThreads, Crash
  <2> QED
    BY <2>3 DEF Queue!Next
<1>4. ASSUME NEW c \in Consumers, TakeJob(c)
      PROVE  Queue!Next \/ UNCHANGED <<Tickets, InThreads, lastId>>
  <2>0. /\ c \in Threads /\ thread \in [Threads -> SoundThread]
        /\ UNCHANGED <<stored, lastId>> /\ thread[c].pc = "idle"
    BY <1>4 DEF TakeJob, Threads, Typed
  <2>1. PICK i \in DOMAIN queue :
          /\ Eligible(i) /\ \A k \in 1..(i - 1) : ~Eligible(k)
          /\ thread' = [thread EXCEPT ![c] = [Rest EXCEPT !.pc = "run", !.job = queue[i]]]
    BY <1>4 DEF TakeJob
  <2>2. /\ thread'[c].pc = "run" /\ thread'[c].job = queue[i]
        /\ \A d \in Consumers : d # c => thread'[d] = thread[d]
    BY <2>0, <2>1 DEF Rest, Threads
  <2>3. \A d \in Consumers : d # c => (Carries(d)' <=> Carries(d))
    BY <2>2 DEF Carries, Busy
  <2>4. ~Carries(c) /\ (Carries(c)' <=> queue[i].persistent)
    BY <2>0, <2>2 DEF Carries, Busy
  <2>5. Tickets' = Tickets
    BY <2>0 DEF Tickets
  <2>6. CASE queue[i].persistent
    <3> DEFINE t == Ticket(queue[i])
    <3>1. InThreads' = InThreads \cup {t}
      BY <2>2, <2>3, <2>4, <2>6, TicketSets
    <3>2. /\ t \in Tickets \ InThreads
          /\ \A k \in InThreads : t.group = "none" \/ t.group # k.group
          /\ \A k \in Tickets : Queue!SameLine(t, k) => t.id <= k.id
      BY <2>1, <2>6, OldestTicket, TicketFields
    <3> HIDE DEF t
    <3>3. Queue!Begin
      BY <2>0, <2>5, <3>1, <3>2 DEF Queue!Begin, Tickets, InThreads
    <3> QED
      BY <3>3 DEF Queue!Next
  <2>7. CASE ~queue[i].persistent
    <3>1. ASSUME NEW d \in Consumers
          PROVE  /\ Carries(d)' <=> Carries(d)
                 /\ Carries(d) => thread'[d].job = thread[d].job
      BY <2>2, <2>3, <2>4, <2>7
    <3>2. ASSUME NEW t PROVE t \in InThreads' <=> t \in InThreads
      BY <3>1, TicketSets
    <3>3. InThreads' = InThreads
      BY <3>2
    <3> QED
      BY <2>0, <2>5, <3>3
  <2> QED
    BY <2>6, <2>7
<1>5. ASSUME NEW c \in Consumers, Releases(c), UNCHANGED <<stored, lastId>>
      PROVE  Queue!Next \/ UNCHANGED <<Tickets, InThreads, lastId>>
  <2>1. Tickets' = Tickets
    BY <1>5 DEF Tickets
  <2>2. CASE ~Carries(c)
    BY <1>5, <2>1, <2>2, TicketGivenBack
  <2>3. CASE Carries(c)
    <3>1. /\ Ticket(thread[c].job) \in InThreads
          /\ InThreads' = InThreads \ {Ticket(thread[c].job)}
      BY <1>5, <2>3, TicketGivenBack, TicketOf
    <3>2. Queue!PutBack
      BY <1>5, <2>1, <3>1 DEF Queue!PutBack, Tickets, InThreads
    <3> QED
      BY <3>2 DEF Queue!Next
  <2> QED
    BY <2>2, <2>3
<1>6. ASSUME NEW c \in Consumers, FinishJob(c)
      PROVE  Queue!Next \/ UNCHANGED <<Tickets, InThreads, lastId>>
  <2>0. c \in Threads /\ thread \in [Threads -> SoundThread] /\ lastId' = lastId
        /\ c \in Busy /\ thread' = [thread EXCEPT ![c] = Rest]
    BY <1>6 DEF FinishJob, Threads, Typed, Busy
  <2>1. Releases(c)
    BY <2>0 DEF Releases, Busy, Threads, Rest
  <2>2. /\ \A n \in DOMAIN stored' : \E m \in DOMAIN stored :
             stored'[n] = stored[m] /\ stored[m].id # thread[c].job.id
        /\ \A m \in DOMAIN stored : stored[m].id # thread[c].job.id =>
             \E n \in DOMAIN stored' : stored'[n] = stored[m]
    BY <1>6, FinishStored
  <2>3. \A t : t \in Tickets' <=> t \in Tickets /\ t.id # thread[c].job.id
    <3>1. ASSUME NEW t \in Tickets' PROVE t \in Tickets /\ t.id # thread[c].job.id
      BY <2>2, <3>1, TicketFields, TicketSets
    <3>2. ASSUME NEW t \in Tickets, t.id # thread[c].job.id PROVE t \in Tickets'
      <4>1. PICK m \in DOMAIN stored : t = Ticket(stored[m])
        BY TicketSets
      <4>2. stored[m].id # thread[c].job.id
        BY <3>2, <4>1, TicketFields
      <4> QED
        BY <2>2, <4>1, <4>2, TicketSets
    <3> QED
      BY <3>1, <3>2
  <2>4. ASSUME NEW t \in Tickets, t.id = thread[c].job.id
        PROVE  Carries(c) /\ t = Ticket(thread[c].job)
    <3>1. PICK m \in DOMAIN stored : t = Ticket(stored[m])
      BY TicketSets
    <3>2. stored[m].id = thread[c].job.id
      BY <2>4, <3>1, TicketFields
    <3> QED
      BY <2>0, <3>1, <3>2, TicketStored DEF Carries
  <2>5. CASE ~Carries(c)
    <3>1. Tickets' = Tickets
      BY <2>3, <2>4, <2>5
    <3> QED
      BY <2>0, <2>1, <2>5, <3>1, TicketGivenBack
  <2>6. CASE Carries(c)
    <3> DEFINE t == Ticket(thread[c].job)
    <3>1. t \in InThreads /\ InThreads' = InThreads \ {t} /\ t.id = thread[c].job.id
      BY <2>1, <2>6, TicketGivenBack, TicketOf, TicketFields
    <3> HIDE DEF t
    <3>2. Tickets' = Tickets \ {t}
      BY <2>3, <2>4, <3>1 DEF t
    <3>3. Queue!Finish
      BY <2>0, <3>1, <3>2 DEF Queue!Finish, Tickets, InThreads
    <3> QED
      BY <3>3 DEF Queue!Next
  <2> QED
    BY <2>5, <2>6
<1> QED
  BY <1>1, <1>2, <1>3, <1>4, <1>5, <1>6, JobKinds DEF JobKind

(* The persistent jobs are such a queue too: a decrypt job, a stored GCM   *)
(* message and a receipt run until they are over and never after, and the  *)
(* decrypt jobs one at a time, oldest first, over retries and crashes.     *)
THEOREM ReceiveIsJobQueue == Spec => ImplementsJobQueue
<1>1. Init => Queue!Init
  <2> SUFFICES ASSUME Init PROVE Tickets = {} /\ InThreads = {} /\ lastId = 0
    BY DEF Queue!Init, Tickets, InThreads
  <2>1. stored = <<>> /\ lastId = 0 /\ \A c \in Consumers : ~Carries(c)
    BY ConsumersAssumption DEF Init, Carries, Busy, Rest, Threads
  <2> QED
    BY <2>1, TicketSets
<1>2. Ordered => Typed /\ Jobs
  BY OrderedFacts
<1>3. Typed /\ Jobs /\ [Next]_vars
        => [Queue!Next]_<<{Ticket(j) : j \in ToSet(stored)},
                          {Ticket(j) : j \in {k \in Running : k.persistent}}, lastId>>
  BY QueueStep DEF Tickets, InThreads
<1> QED
  BY <1>1, <1>2, <1>3, AlwaysOrdered, PTL DEF Spec, ImplementsJobQueue, Queue!Spec

-----------------------------------------------------------------------------
(* The mailbox the envelopes stand for *)

Excused == Direct \cup log.dropped \cup log.astray

(* What the cipher rejects uses up no key.                                 *)
RejectedStay == session \cap Corrupt = {}

LEMMA RejectedNext ==
  ASSUME RejectedStay, [Next]_vars
  PROVE  RejectedStay'
<1>1. ASSUME NEW c \in Consumers, Decrypt(c), thread[c].e \in session', thread[c].e \notin session
      PROVE  thread[c].e \notin Corrupt
  BY <1>1 DEF Decrypt
<1> QED
  BY <1>1, SessionStays DEF RejectedStay

(* The set has one message when a thread is about to show it ...           *)
LEMMA ShowingOne ==
  ASSUME Typed, Jobs, NEW c \in Consumers, thread[c].pc = "show"
  PROVE  Showing = {thread[c].e}
<1>1. \A d \in Consumers : thread[d].pc = "show" => d = c
  BY DecryptsAlone DEF Threads
<1> QED
  BY <1>1 DEF Showing

(* ... and none while one is about to decrypt.                             *)
LEMMA ShowingNone ==
  ASSUME Typed, Jobs, NEW c \in Consumers, thread[c].pc = "decrypt"
  PROVE  Showing = {}
<1>1. \A d \in Consumers : thread[d].pc # "show"
  BY DecryptsAlone DEF Threads
<1> QED
  BY <1>1 DEF Showing

(* Only three steps change what is about to be shown.                      *)
LEMMA ShowingStays ==
  ASSUME Typed, Jobs, [Next]_vars, ~Crash,
         \A c \in Consumers : ~Decrypt(c) /\ ~InsertMessageInbox(c)
  PROVE  Showing' = Showing
<1>1. ASSUME NEW c \in Consumers, thread[c].pc = "show"
      PROVE  thread'[c].pc = "show" /\ thread'[c].e = thread[c].e
  BY <1>1, ShowStays
<1>2. ASSUME NEW c \in Consumers, thread'[c].pc = "show"
      PROVE  thread[c].pc = "show" /\ thread'[c].e = thread[c].e
  BY <1>1, <1>2, ShowComes
<1> QED
  BY <1>1, <1>2 DEF Showing

(* Decrypting is the mailbox's step, or finds the key used.                *)
LEMMA MailDecrypt ==
  ASSUME Ordered, Order, RejectedStay, NEW c \in Consumers, Decrypt(c)
  PROVE  \/ Mail!Open \/ Mail!TakeUnreadable
         \/ UNCHANGED <<arrived, Excused, session, Showing, inbox, used.crashes>>
<1> DEFINE e == thread[c].e
<1>0. /\ Typed /\ Jobs /\ RowsHeld /\ Channels /\ c \in Threads /\ arrived \in Nat
      /\ thread[c].pc = "decrypt"
  BY OrderedFacts DEF Decrypt
<1>1. e \in 1..arrived
  BY <1>0 DEF RowsHeld, ThreadHeld, Holds, Channels
<1>2. UNCHANGED <<arrived, inbox, log, used>> /\ Excused' = Excused
  BY DEF Decrypt, restVars, Excused
<1>3. Showing = {}
  BY <1>0, ShowingNone
<1>4. \A d \in Consumers : d # c => thread'[d].pc # "show"
  <2>1. Only(c)
    BY <1>0, GotoFacts DEF Decrypt
  <2> QED
    BY <1>0, <2>1, DecryptsAlone DEF Only, Threads
<1>5. ASSUME Goto(c, "show") PROVE Showing' = {e}
  <2>1. thread'[c].pc = "show" /\ thread'[c].e = e
    BY <1>0, <1>5, GotoFacts
  <2> QED
    BY <1>4, <2>1 DEF Showing
<1>6. ASSUME Goto(c, "delete") PROVE Showing' = {}
  <2>1. thread'[c].pc = "delete"
    BY <1>0, <1>6, GotoFacts
  <2> QED
    BY <1>4, <2>1 DEF Showing
<1>7. CASE e \in Corrupt
  <2>1. Goto(c, "show") /\ session' = session
    BY <1>7 DEF Decrypt
  <2>2. Mail!TakeUnreadable
    BY <1>1, <1>2, <1>3, <1>5, <1>7, <2>1 DEF Mail!TakeUnreadable, Excused
  <2> QED
    BY <2>2
<1>8. CASE e \notin Corrupt /\ e \in session
  <2>1. Goto(c, "delete") /\ session' = session
    BY <1>8 DEF Decrypt
  <2> QED
    BY <1>2, <1>3, <1>6, <2>1
<1>9. CASE e \notin Corrupt /\ e \notin session
  <2>1. Goto(c, "show") /\ session' = session \cup {e}
    BY <1>9 DEF Decrypt
  <2>2. ASSUME e \notin Excused, NEW d \in session \ Excused PROVE d < e
    <3>1. e \notin Aside \cup session /\ d \in session \ Aside
      BY <1>9, <2>2 DEF Aside, Excused, RejectedStay
    <3> QED
      BY <1>0, <1>1, <3>1, DecryptLast DEF Order
  <2> HIDE DEF e
  <2>3. Mail!Open
    BY <1>1, <1>2, <1>3, <1>5, <1>9, <2>1, <2>2 DEF Mail!Open, Excused
  <2> QED
    BY <2>3
<1> QED
  BY <1>7, <1>8, <1>9

(* Every step is one of the mailbox, or changes nothing of it.             *)
LEMMA MailStep ==
  ASSUME Ordered, Order, RejectedStay, [Next]_vars
  PROVE  \/ Mail!Next
         \/ UNCHANGED <<arrived, Excused, session, Showing, inbox, used.crashes>>
<1>0. /\ Typed /\ Jobs /\ \A c \in Consumers : c \in Threads
      /\ used'.crashes = used.crashes + 1 \/ ~Crash
      /\ Crash \/ used'.crashes = used.crashes
  BY OrderedFacts, CrashCounted
<1>1. CASE Crash
  <2>1. \A c \in Consumers : thread'[c].pc # "show"
    BY <1>1 DEF Crash, Threads, Start, Rest
  <2>2. Showing' = {}
    BY <2>1 DEF Showing
  <2>3. UNCHANGED <<arrived, session, inbox>>
    BY <1>1 DEF Crash, dataVars
  <2>4. Excused' = Excused
    BY <1>0, <1>1 DEF Crash, Excused, Typed, Logs
  <2>5. Mail!Die
    BY <1>0, <1>1, <2>2, <2>3, <2>4 DEF Mail!Die, Excused
  <2> QED
    BY <2>5 DEF Mail!Next
<1>2. ASSUME NEW c \in Consumers, Decrypt(c)
      PROVE  \/ Mail!Next
             \/ UNCHANGED <<arrived, Excused, session, Showing, inbox, used.crashes>>
  BY <1>2, MailDecrypt DEF Mail!Next
<1>3. ASSUME NEW c \in Consumers, InsertMessageInbox(c) PROVE Mail!Next
  <2>1. /\ thread[c].pc = "show" /\ Goto(c, "delete") /\ inbox' = Append(inbox, thread[c].e)
        /\ UNCHANGED <<arrived, session, log, used>>
    BY <1>3 DEF InsertMessageInbox, restVars
  <2>2. Showing = {thread[c].e}
    BY <1>0, <2>1, ShowingOne
  <2>3. Showing' = {}
    <3>1. thread'[c].pc = "delete" /\ Only(c)
      BY <1>0, <2>1, GotoFacts
    <3>2. \A d \in Consumers : d # c => thread[d].pc # "show"
      BY <1>0, <2>1, DecryptsAlone
    <3>3. \A d \in Consumers : thread'[d].pc # "show"
      BY <1>0, <3>1, <3>2 DEF Only
    <3> QED
      BY <3>3 DEF Showing
  <2>4. Mail!Show
    BY <2>1, <2>2, <2>3 DEF Mail!Show
  <2> QED
    BY <2>4 DEF Mail!Next
<1>4. CASE ~Crash /\ \A c \in Consumers : ~Decrypt(c) /\ ~InsertMessageInbox(c)
  <2>1. Showing' = Showing /\ used'.crashes = used.crashes
    BY <1>0, <1>4, ShowingStays
  <2>2. session' = session /\ inbox' = inbox
    BY <1>4, SessionStays, InboxGrows
  <2>3. Excused \subseteq Excused'
    BY <1>0, LogGrows DEF Excused
  <2>4. CASE Arrive \/ ReceivedMessage
    <3>1. arrived' = arrived + 1 /\ log' = log
      BY <2>4 DEF Arrive, ReceivedMessage, restVars
    <3>2. Mail!Arrive
      BY <2>1, <2>2, <3>1 DEF Mail!Arrive
    <3> QED
      BY <3>2 DEF Mail!Next
  <2>5. CASE ~(Arrive \/ ReceivedMessage)
    <3>1. arrived' = arrived
      BY <2>5, ArrivedGrows
    <3>2. Mail!Excuse
      BY <2>1, <2>2, <2>3, <3>1 DEF Mail!Excuse, Excused
    <3> QED
      BY <3>2 DEF Mail!Next
  <2> QED
    BY <2>4, <2>5
<1> QED
  BY <1>1, <1>2, <1>3, <1>4

(* The channels, the push table and the jobs are together a mailbox: each  *)
(* message is opened once and in its turn, and shown next, whatever the    *)
(* order, the repetitions and the crashes below.                           *)
THEOREM ReceiveIsMailbox == Spec => ImplementsMailbox
<1>1. Init => Mail!Init /\ RejectedStay
  <2> SUFFICES ASSUME Init PROVE Mail!Init /\ RejectedStay
    OBVIOUS
  <2>1. arrived = 0 /\ used.crashes = 0 /\ inbox = <<>> /\ session = {}
    BY DEF Init
  <2>2. \A c \in Consumers : thread[c].pc # "show"
    BY DEF Init, Start, Rest, Threads
  <2>3. Showing = {}
    BY <2>2 DEF Showing
  <2> QED
    BY <2>1, <2>3 DEF Mail!Init, RejectedStay
<1>2. RejectedStay /\ [Next]_vars => RejectedStay'
  BY RejectedNext
<1>3. Ordered /\ Order /\ RejectedStay /\ [Next]_vars => [Mail!Next]_(Mail!vars)
  BY MailStep DEF Mail!vars, Excused
<1> QED
  BY <1>1, <1>2, <1>3, AlwaysOrdered, PTL DEF Spec, ImplementsMailbox, Mail!Spec

=============================================================================
