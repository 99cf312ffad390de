------------------------ MODULE ZrtpHandshakeProofs ------------------------
(***************************************************************************)
(* For every retransmission limit and any number of closed calls, the two  *)
(* ends of the ZRTP handshake advance in turns.  The invariant says what a *)
(* packet on the network tells of the side that sent it, and what a state, *)
(* or a handler that runs, tells of the side it belongs to.                *)
(***************************************************************************)
EXTENDS ZrtpHandshake, TLAPS

I == "initiator"
R == "responder"

Uses(s, packet) == packet \in sent[s] \/ lastPacket[s] = packet

(* How far a side is when it has sent a packet.                            *)
SentMeans ==
  /\ Uses(I, "Hello")    => progress[I] >= 1
  /\ Uses(I, "Commit")   => progress[I] >= 2
  /\ Uses(I, "DHPart2")  => progress[I] >= 3
  /\ Uses(I, "Confirm2") => progress[I] >= 4
  /\ Uses(R, "HelloAck") => progress[R] >= 1
  /\ Uses(R, "DHPart1")  => progress[R] >= 2
  /\ Uses(R, "Confirm1") => progress[R] >= 3
  /\ Uses(R, "ConfAck")  => progress[R] >= 4
  /\ Uses(R, "Audio")    => progress[R] >= 4

(* How far a side is in a state, and when it takes a packet in it.         *)
InitiatorAt(st, n) ==
  \/ st = "EXPECTING_HELLO"       /\ n = 0
  \/ st = "EXPECTING_HELLO_ACK"   /\ n = 1
  \/ st = "EXPECTING_DH_1"        /\ n = 2
  \/ st = "EXPECTING_CONFIRM_ONE" /\ n = 3
  \/ st = "EXPECTING_CONFIRM_ACK" /\ n = 4
  \/ st = "HANDSHAKE_COMPLETE"    /\ n = 5

ResponderAt(st, n) ==
  \/ st = "EXPECTING_HELLO"       /\ n = 0
  \/ st = "EXPECTING_COMMIT"      /\ n = 1
  \/ st = "EXPECTING_DH_2"        /\ n = 2
  \/ st = "EXPECTING_CONFIRM_TWO" /\ n = 3
  \/ st = "HANDSHAKE_COMPLETE"    /\ n = 4

StateMeans ==
  /\ state[I] = "TERMINATED" \/ InitiatorAt(state[I], progress[I])
  /\ state[R] = "TERMINATED" \/ ResponderAt(state[R], progress[R])

HandlingMeans ==
  /\ handling[I] = NoAnswer \/ /\ handling[I] \in InitiatorAnswers
                               /\ InitiatorAt(handling[I].await, progress[I])
                               /\ handling[I].packet \in sent[R]
  /\ handling[R] = NoAnswer \/ /\ handling[R] \in ResponderAnswers
                               /\ ResponderAt(handling[R].await, progress[R])
                               /\ handling[R].packet \in sent[I]

(* All steps of its side of the protocol are made.                         *)
Done(s) == progress[s] = IF s = I THEN 5 ELSE 4

AgreedMeans == \A s \in Sides : phase[s] \in Connected => Done(s)

(* TERMINATED is the state of an ended call only.                          *)
TerminatedMeans == \A s \in Sides : state[s] = "TERMINATED" => terminated[s]

Shape ==
  /\ state \in [Sides -> States]
  /\ phase \in [Sides -> Phases]
  /\ DOMAIN handling = Sides
  /\ DOMAIN lastPacket = Sides
  /\ DOMAIN sent = Sides
  /\ terminated \in [Sides -> BOOLEAN]
  /\ progress \in [Sides -> Nat]

Turns ==
  /\ progress[R] <= progress[I]
  /\ progress[I] <= progress[R] + 1
  /\ progress[R] <= 4

HandshakeInv ==
  /\ Shape
  /\ Turns
  /\ SentMeans
  /\ StateMeans
  /\ HandlingMeans
  /\ AgreedMeans
  /\ TerminatedMeans

LEMMA TwoSides == Sides = {I, R} /\ I # R /\ Peer(I) = R /\ Peer(R) = I
BY DEF Sides, I, R, Peer

LEMMA InitHandshakeInv == HandshakeInit => HandshakeInv
BY TwoSides
   DEF HandshakeInit, HandshakeInv, Shape, Turns, SentMeans, Uses, StateMeans,
       InitiatorAt, ResponderAt, HandlingMeans, AgreedMeans, Done, TerminatedMeans,
       States, Phases, Connected, NoPacket

-----------------------------------------------------------------------------
(* What the tables of answers say: a packet is taken by a side that is as  *)
(* far as its sender or less, and the reply is one step further.           *)

LEMMA InitiatorTable ==
  ASSUME Shape, SentMeans, NEW h \in InitiatorAnswers,
         InitiatorAt(h.await, progress[I]), Uses(R, h.packet)
  PROVE  /\ progress[I] <= progress[R]
         /\ InitiatorAt(h.next, progress[I] + 1)
         /\ h.next \in States \ {"TERMINATED"}
         /\ h.reply = "Commit"   => progress[I] + 1 >= 2
         /\ h.reply = "DHPart2"  => progress[I] + 1 >= 3
         /\ h.reply = "Confirm2" => progress[I] + 1 >= 4
<1>1. progress[I] \in Nat /\ progress[R] \in Nat
  BY TwoSides DEF Shape
<1>2. CASE h = Answer("EXPECTING_HELLO", "Hello", "EXPECTING_HELLO_ACK", "Hello")
  BY <1>1, <1>2 DEF Answer, InitiatorAt, States
<1>3. CASE h = Answer("EXPECTING_HELLO_ACK", "HelloAck", "EXPECTING_DH_1", "Commit")
  BY <1>1, <1>3 DEF Answer, InitiatorAt, States, SentMeans
<1>4. CASE h = Answer("EXPECTING_DH_1", "DHPart1", "EXPECTING_CONFIRM_ONE", "DHPart2")
  BY <1>1, <1>4 DEF Answer, InitiatorAt, States, SentMeans
<1>5. CASE h = Answer("EXPECTING_CONFIRM_ONE", "Confirm1", "EXPECTING_CONFIRM_ACK", "Confirm2")
  BY <1>1, <1>5 DEF Answer, InitiatorAt, States, SentMeans
<1>6. CASE h = Answer("EXPECTING_CONFIRM_ACK", "ConfAck", "HANDSHAKE_COMPLETE", NoPacket)
  BY <1>1, <1>6 DEF Answer, InitiatorAt, States, SentMeans, NoPacket
<1>7. CASE h = Answer("EXPECTING_CONFIRM_ACK", "Audio", "HANDSHAKE_COMPLETE", NoPacket)
  BY <1>1, <1>7 DEF Answer, InitiatorAt, States, SentMeans, NoPacket
<1> QED BY <1>2, <1>3, <1>4, <1>5, <1>6, <1>7 DEF InitiatorAnswers

LEMMA ResponderTable ==
  ASSUME Shape, SentMeans, NEW h \in ResponderAnswers,
         ResponderAt(h.await, progress[R]), Uses(I, h.packet)
  PROVE  /\ progress[R] + 1 <= progress[I] /\ progress[R] + 1 <= 4
         /\ ResponderAt(h.next, progress[R] + 1)
         /\ h.next \in States \ {"TERMINATED"}
         /\ h.reply = "HelloAck" => progress[R] + 1 >= 1
         /\ h.reply = "DHPart1"  => progress[R] + 1 >= 2
         /\ h.reply = "Confirm1" => progress[R] + 1 >= 3
         /\ h.reply = "ConfAck"  => progress[R] + 1 >= 4
         /\ h.reply # "Audio"
<1>1. progress[I] \in Nat /\ progress[R] \in Nat
  BY TwoSides DEF Shape
<1>2. CASE h = Answer("EXPECTING_HELLO", "Hello", "EXPECTING_COMMIT", "HelloAck")
  BY <1>1, <1>2 DEF Answer, ResponderAt, States, SentMeans
<1>3. CASE h = Answer("EXPECTING_COMMIT", "Commit", "EXPECTING_DH_2", "DHPart1")
  BY <1>1, <1>3 DEF Answer, ResponderAt, States, SentMeans
<1>4. CASE h = Answer("EXPECTING_DH_2", "DHPart2", "EXPECTING_CONFIRM_TWO", "Confirm1")
  BY <1>1, <1>4 DEF Answer, ResponderAt, States, SentMeans
<1>5. CASE h = Answer("EXPECTING_CONFIRM_TWO", "Confirm2", "HANDSHAKE_COMPLETE", "ConfAck")
  BY <1>1, <1>5 DEF Answer, ResponderAt, States, SentMeans
<1> QED BY <1>2, <1>3, <1>4, <1>5 DEF ResponderAnswers

-----------------------------------------------------------------------------
(* Sending adds one packet to what a side has used.                        *)
LEMMA SendUses ==
  ASSUME Shape, NEW s \in Sides, NEW packet, SendPacket(s, packet)
  PROVE  /\ DOMAIN lastPacket' = Sides /\ DOMAIN sent' = Sides
         /\ \A t \in Sides : \A q : Uses(t, q)' => Uses(t, q) \/ (t = s /\ q = packet)
         /\ \A t \in Sides : \A q : q \in sent[t] => q \in sent'[t]
BY DEF Shape, SendPacket, Uses

(* A step that moves neither side: what was said before still holds when   *)
(* the packets it adds are covered.                                        *)
LEMMA Unmoved ==
  ASSUME HandshakeInv, Shape', SentMeans', AgreedMeans',
         UNCHANGED <<progress, handling, state>>,
         \A s \in Sides : terminated[s] => terminated'[s],
         \A t \in Sides : \A q : q \in sent[t] => q \in sent'[t]
  PROVE  HandshakeInv'
<1>1. StateMeans' /\ Turns'
  BY DEF HandshakeInv, StateMeans, Turns
<1>2. HandlingMeans'
  BY TwoSides DEF HandshakeInv, HandlingMeans
<1>3. TerminatedMeans'
  BY DEF HandshakeInv, TerminatedMeans
<1> QED BY <1>1, <1>2, <1>3 DEF HandshakeInv

LEMMA NothingAdded ==
  ASSUME HandshakeInv, UNCHANGED progress,
         \A t \in Sides : \A q : Uses(t, q)' => Uses(t, q)
  PROVE  SentMeans'
BY TwoSides DEF HandshakeInv, SentMeans

LEMMA LeaveInv ==
  ASSUME HandshakeInv, NEW s \in Sides, NEW next \in Phases, Leave(s, next),
         next \in Connected => Done(s),
         UNCHANGED <<progress, handling, state, terminated, sent, lastPacket>>
  PROVE  HandshakeInv'
<1>1. Shape'
  BY DEF HandshakeInv, Shape, Leave, Phases, Ended
<1>2. AgreedMeans'
  BY TwoSides DEF HandshakeInv, AgreedMeans, Done, Leave, Shape, Connected
<1>3. SentMeans'
  BY DEF HandshakeInv, SentMeans, Uses
<1> QED BY <1>1, <1>2, <1>3, Unmoved

LEMMA NegotiateStartInv ==
  ASSUME HandshakeInv, NEW s \in Sides, NegotiateStart(s)
  PROVE  HandshakeInv'
<1>1. phase' \in [Sides -> Phases] /\ AgreedMeans'
  BY TwoSides
     DEF HandshakeInv, Shape, NegotiateStart, AgreedMeans, Done, Phases, Ended,
         Negotiating, Connected
<1>2. UNCHANGED <<progress, handling, state, terminated>>
  BY DEF NegotiateStart
<1>3. CASE s = "responder" /\ ~terminated[s]
  <2>1. SendPacket(s, "Hello") /\ s = R
    BY <1>3 DEF NegotiateStart, SendFreshPacket, R
  <2>2. /\ DOMAIN lastPacket' = Sides /\ DOMAIN sent' = Sides
        /\ \A t \in Sides : \A q : Uses(t, q)' => Uses(t, q) \/ (t = s /\ q = "Hello")
        /\ \A t \in Sides : \A q : q \in sent[t] => q \in sent'[t]
    BY <2>1, SendUses DEF HandshakeInv
  <2>3. SentMeans'
    BY <1>2, <2>1, <2>2, TwoSides DEF HandshakeInv, SentMeans
  <2>4. Shape'
    BY <1>1, <1>2, <2>2 DEF HandshakeInv, Shape
  <2> QED BY <1>1, <1>2, <2>2, <2>3, <2>4, Unmoved
<1>4. CASE ~(s = "responder" /\ ~terminated[s])
  <2>1. UNCHANGED <<sent, lastPacket>>
    BY <1>4 DEF NegotiateStart
  <2>2. SentMeans' /\ Shape'
    BY <1>1, <1>2, <2>1 DEF HandshakeInv, SentMeans, Uses, Shape
  <2> QED BY <1>1, <1>2, <2>1, <2>2, Unmoved
<1> QED BY <1>3, <1>4

LEMMA ReceivePacketInv ==
  ASSUME HandshakeInv, NEW s \in Sides, NEW a \in Answers(s), ReceivePacket(s, a)
  PROVE  HandshakeInv'
<1>1. /\ UNCHANGED <<progress, state, phase, terminated, sent, lastPacket>>
      /\ handling' = [handling EXCEPT ![s] = a]
      /\ a.await = state[s] /\ a.packet \in sent[Peer(s)] /\ InLoop(s)
  BY DEF ReceivePacket
<1>2. Shape' /\ Turns' /\ SentMeans' /\ StateMeans' /\ AgreedMeans' /\ TerminatedMeans'
  BY <1>1 DEF HandshakeInv, Shape, Turns, SentMeans, Uses, StateMeans,
              AgreedMeans, Done, TerminatedMeans
<1>3. a.await # "TERMINATED"
  BY DEF Answers, InitiatorAnswers, ResponderAnswers, Answer
<1>4. HandlingMeans'
  <2>1. CASE s = I
    BY <1>1, <1>3, <2>1, TwoSides
       DEF HandshakeInv, Shape, HandlingMeans, StateMeans, Answers, I
  <2>2. CASE s = R
    BY <1>1, <1>3, <2>2, TwoSides
       DEF HandshakeInv, Shape, HandlingMeans, StateMeans, Answers, R
  <2> QED BY <2>1, <2>2, TwoSides
<1> QED BY <1>2, <1>4 DEF HandshakeInv

LEMMA ResendIfDueInv ==
  ASSUME HandshakeInv, NEW s \in Sides, ResendIfDue(s)
  PROVE  HandshakeInv'
<1>1. UNCHANGED <<progress, handling, state, terminated>> /\ ResendPacket(s)
  BY DEF ResendIfDue
<1>2. CASE retransmitCount[s] > MaxRetransmitCount
  <2> DEFINE report == IF lastPacket[s] = NoPacket THEN "unavailable" ELSE "failed"
  <2>1. Leave(s, report) /\ UNCHANGED <<sent, lastPacket>>
    BY <1>1, <1>2 DEF ResendPacket
  <2>2. report \in Phases /\ report \notin Connected
    BY DEF Phases, Ended, Connected
  <2> HIDE DEF report
  <2> QED BY <1>1, <2>1, <2>2, LeaveInv
<1>3. CASE ~(retransmitCount[s] > MaxRetransmitCount)
  <2>1. SendPacket(s, lastPacket[s]) /\ UNCHANGED phase
    BY <1>1, <1>3 DEF ResendPacket
  <2>2. /\ DOMAIN lastPacket' = Sides /\ DOMAIN sent' = Sides
        /\ \A t \in Sides : \A q : Uses(t, q)' => Uses(t, q) \/ (t = s /\ q = lastPacket[s])
        /\ \A t \in Sides : \A q : q \in sent[t] => q \in sent'[t]
    BY <2>1, SendUses DEF HandshakeInv
  <2>3. SentMeans'
    BY <1>1, <2>2, NothingAdded DEF Uses
  <2>4. Shape' /\ AgreedMeans'
    BY <1>1, <2>1, <2>2 DEF HandshakeInv, Shape, AgreedMeans, Done
  <2> QED BY <1>1, <2>2, <2>3, <2>4, Unmoved
<1> QED BY <1>2, <1>3

LEMMA LeaveLoopInv ==
  ASSUME HandshakeInv, NEW s \in Sides, LeaveLoop(s)
  PROVE  HandshakeInv'
<1>1. UNCHANGED <<progress, handling, state, terminated, sent, lastPacket>>
  BY DEF LeaveLoop
<1>2. CASE Leave(s, "finish")
  <2>1. "finish" \in Phases /\ "finish" \notin Connected
    BY DEF Phases, Negotiating, Connected
  <2> QED BY <1>1, <1>2, <2>1, LeaveInv
<1>3. CASE /\ state[s] \in {"HANDSHAKE_COMPLETE", "TERMINATED"}
           /\ Leave(s, "report")
  <2>1. CASE state[s] = "TERMINATED"
    <3>1. terminated[s]
      BY <2>1 DEF HandshakeInv, TerminatedMeans
    <3>2. Leave(s, "failed") /\ "failed" \in Phases /\ "failed" \notin Connected
      BY <1>3, <3>1 DEF Leave, Phases, Ended, Connected
    <3> QED BY <1>1, <3>2, LeaveInv
  <2>2. CASE state[s] = "HANDSHAKE_COMPLETE"
    <3>1. Done(s)
      BY <2>2, TwoSides DEF HandshakeInv, StateMeans, InitiatorAt, ResponderAt, Done
    <3>2. "report" \in Phases
      BY DEF Phases, Connected
    <3> QED BY <1>1, <1>3, <3>1, <3>2, LeaveInv
  <2> QED BY <1>3, <2>1, <2>2
<1> QED BY <1>2, <1>3 DEF LeaveLoop

(* Past the loops nothing but the flag decides how far the thread goes.    *)
LEMMA ConnectedInv ==
  ASSUME HandshakeInv, NEW s \in Sides,
         NotifyCallConnected(s) \/ CheckTerminated(s)
  PROVE  HandshakeInv'
<1>1. UNCHANGED <<progress, handling, state, terminated, sent, lastPacket>>
  BY DEF NotifyCallConnected, CheckTerminated
<1>2. phase[s] \in Connected
  BY DEF NotifyCallConnected, CheckTerminated, Connected
<1>3. Done(s)
  BY <1>2 DEF HandshakeInv, AgreedMeans
<1>4. CASE NotifyCallConnected(s)
  <2>1. Shape'
    BY <1>4 DEF HandshakeInv, Shape, NotifyCallConnected, Phases, Connected
  <2>2. AgreedMeans'
    BY <1>3, <1>4, TwoSides
       DEF HandshakeInv, AgreedMeans, Done, NotifyCallConnected, Shape, Connected
  <2>3. SentMeans'
    BY <1>1 DEF HandshakeInv, SentMeans, Uses
  <2> QED BY <1>1, <2>1, <2>2, <2>3, Unmoved
<1>5. CASE CheckTerminated(s)
  <2>1. Leave(s, "agreed") /\ "agreed" \in Phases
    BY <1>5 DEF CheckTerminated, Phases, Connected
  <2> QED BY <1>1, <1>3, <2>1, LeaveInv
<1> QED BY <1>4, <1>5

LEMMA SocketFaultInv ==
  ASSUME HandshakeInv, NEW s \in Sides, SocketFault(s)
  PROVE  HandshakeInv'
<1>1. "failed" \in Phases /\ "failed" \notin Connected
  BY DEF Phases, Ended, Connected
<1> QED BY <1>1, LeaveInv DEF SocketFault

LEMMA TimerElapsesInv ==
  ASSUME HandshakeInv, NEW s \in Sides, TimerElapses(s)
  PROVE  HandshakeInv'
BY DEF HandshakeInv, TimerElapses, Shape, Turns, SentMeans, Uses, StateMeans,
       HandlingMeans, AgreedMeans, Done, TerminatedMeans

LEMMA TerminateInv ==
  ASSUME HandshakeInv, NEW s \in Sides, Terminate(s)
  PROVE  HandshakeInv'
<1>1. Shape' /\ TerminatedMeans'
  BY DEF HandshakeInv, Shape, TerminatedMeans, Terminate
<1>2. Turns' /\ SentMeans' /\ StateMeans' /\ HandlingMeans' /\ AgreedMeans'
  BY DEF HandshakeInv, Turns, SentMeans, Uses, StateMeans, HandlingMeans,
         AgreedMeans, Done, Terminate
<1> QED BY <1>1, <1>2 DEF HandshakeInv

LEMMA CloseInv ==
  ASSUME HandshakeInv, NEW s \in Sides, Close(s)
  PROVE  HandshakeInv'
<1>1. Shape' /\ TerminatedMeans'
  BY DEF HandshakeInv, Shape, TerminatedMeans, Close, States
<1>2. Turns' /\ SentMeans' /\ HandlingMeans' /\ AgreedMeans'
  BY DEF HandshakeInv, Turns, SentMeans, Uses, HandlingMeans, AgreedMeans, Done, Close
<1>3. StateMeans'
  BY TwoSides DEF HandshakeInv, Shape, StateMeans, Close
<1> QED BY <1>1, <1>2, <1>3 DEF HandshakeInv

LEMMA SendAudioInv ==
  ASSUME HandshakeInv, SendAudio
  PROVE  HandshakeInv'
<1>1. /\ UNCHANGED <<progress, handling, state, phase, terminated, lastPacket>>
      /\ sent' = [sent EXCEPT ![R] = @ \cup {"Audio"}]
      /\ progress[R] = 4
  BY TwoSides DEF SendAudio, HandshakeInv, AgreedMeans, Done, Connected, I, R
<1>2. \A t \in Sides : \A q : Uses(t, q)' => Uses(t, q) \/ (t = R /\ q = "Audio")
  BY <1>1 DEF HandshakeInv, Shape, Uses
<1>3. \A t \in Sides : \A q : q \in sent[t] => q \in sent'[t]
  BY <1>1 DEF HandshakeInv, Shape
<1>4. SentMeans'
  BY <1>1, <1>2, TwoSides DEF HandshakeInv, SentMeans
<1>5. Shape' /\ AgreedMeans'
  BY <1>1 DEF HandshakeInv, Shape, AgreedMeans, Done
<1> QED BY <1>1, <1>3, <1>4, <1>5, Unmoved

(* A handler moves its side by one step.                                   *)
LEMMA HandleMoves ==
  ASSUME HandshakeInv, NEW s \in Sides, Handle(s)
  PROVE  /\ progress' = [progress EXCEPT ![s] = progress[s] + 1]
         /\ s = I => progress[I] = progress[R]
         /\ s = R => progress[I] = progress[R] + 1 /\ progress[R] < 4
<1>1. progress' = [progress EXCEPT ![s] = progress[s] + 1]
  BY DEF Handle
<1>2. progress[I] \in Nat /\ progress[R] \in Nat
  BY TwoSides DEF HandshakeInv, Shape
<1>3. CASE s = I
  <2>1. /\ handling[I] \in InitiatorAnswers
        /\ InitiatorAt(handling[I].await, progress[I])
        /\ Uses(R, handling[I].packet)
    BY <1>3 DEF Handle, HandshakeInv, HandlingMeans, Uses
  <2>2. progress[I] <= progress[R]
    BY <2>1, InitiatorTable DEF HandshakeInv
  <2> QED BY <1>1, <1>2, <1>3, <2>2, TwoSides DEF HandshakeInv, Turns
<1>4. CASE s = R
  <2>1. /\ handling[R] \in ResponderAnswers
        /\ ResponderAt(handling[R].await, progress[R])
        /\ Uses(I, handling[R].packet)
    BY <1>4 DEF Handle, HandshakeInv, HandlingMeans, Uses
  <2>2. progress[R] + 1 <= progress[I] /\ progress[R] + 1 <= 4
    BY <2>1, ResponderTable DEF HandshakeInv
  <2> QED BY <1>1, <1>2, <1>4, <2>2, TwoSides DEF HandshakeInv, Turns
<1> QED BY <1>3, <1>4, TwoSides

LEMMA HandleInv ==
  ASSUME HandshakeInv, NEW s \in Sides, Handle(s)
  PROVE  HandshakeInv'
<1> DEFINE h == handling[s]
<1>1. /\ progress' = [progress EXCEPT ![s] = progress[s] + 1]
      /\ s = I => progress[I] = progress[R]
      /\ s = R => progress[I] = progress[R] + 1 /\ progress[R] < 4
  BY HandleMoves
<1>2. /\ state' = [state EXCEPT ![s] = h.next]
      /\ handling' = [handling EXCEPT ![s] = NoAnswer]
      /\ UNCHANGED <<phase, terminated>>
      /\ h # NoAnswer
  BY DEF Handle
<1>3. /\ DOMAIN lastPacket' = Sides /\ DOMAIN sent' = Sides
      /\ \A t \in Sides : \A q : Uses(t, q)' =>
           Uses(t, q) \/ (t = s /\ q = h.reply /\ h.reply # NoPacket)
      /\ \A t \in Sides : \A q : q \in sent[t] => q \in sent'[t]
  <2>1. CASE h.reply # NoPacket
    <3>1. SendPacket(s, h.reply)
      BY <2>1 DEF Handle, SendFreshPacket
    <3> HIDE DEF h
    <3> QED BY <2>1, <3>1, SendUses DEF HandshakeInv
  <2>2. CASE h.reply = NoPacket
    BY <2>2 DEF Handle, HandshakeInv, Shape, Uses
  <2> QED BY <2>1, <2>2
<1>4. progress[I] \in Nat /\ progress[R] \in Nat /\ I \in Sides /\ R \in Sides /\ I # R
  BY TwoSides DEF HandshakeInv, Shape
<1>5. CASE s = I
  <2>1. /\ h \in InitiatorAnswers
        /\ InitiatorAt(h.await, progress[I])
        /\ Uses(R, h.packet)
    BY <1>2, <1>5 DEF HandshakeInv, HandlingMeans, Uses
  <2>2. /\ InitiatorAt(h.next, progress[I] + 1)
        /\ h.next \in States \ {"TERMINATED"}
        /\ h.reply = "Commit"   => progress[I] + 1 >= 2
        /\ h.reply = "DHPart2"  => progress[I] + 1 >= 3
        /\ h.reply = "Confirm2" => progress[I] + 1 >= 4
    <3> HIDE DEF h
    <3> QED BY <2>1, InitiatorTable DEF HandshakeInv
  <2> HIDE DEF h
  <2>3. progress'[I] = progress[I] + 1 /\ progress'[R] = progress[R]
    BY <1>1, <1>4, <1>5 DEF HandshakeInv, Shape
  <2>4. Shape'
    BY <1>1, <1>2, <1>3, <1>4, <1>5, <2>2 DEF HandshakeInv, Shape
  <2>5. Turns'
    BY <1>1, <1>4, <1>5, <2>3 DEF HandshakeInv, Turns
  <2>6. SentMeans'
    BY <1>3, <1>4, <1>5, <2>2, <2>3 DEF HandshakeInv, SentMeans
  <2>7. StateMeans' /\ TerminatedMeans'
    BY <1>2, <1>4, <1>5, <2>2, <2>3
       DEF HandshakeInv, Shape, StateMeans, TerminatedMeans
  <2>8. HandlingMeans'
    BY <1>2, <1>3, <1>4, <1>5, <2>3 DEF HandshakeInv, Shape, HandlingMeans
  <2>9. AgreedMeans'
    BY <1>1, <1>2, <1>4, <1>5, <2>3, TwoSides DEF HandshakeInv, Turns, AgreedMeans, Done
  <2> QED BY <2>4, <2>5, <2>6, <2>7, <2>8, <2>9 DEF HandshakeInv
<1>6. CASE s = R
  <2>1. /\ h \in ResponderAnswers
        /\ ResponderAt(h.await, progress[R])
        /\ Uses(I, h.packet)
    BY <1>2, <1>6 DEF HandshakeInv, HandlingMeans, Uses
  <2>2. /\ ResponderAt(h.next, progress[R] + 1)
        /\ h.next \in States \ {"TERMINATED"}
        /\ h.reply = "HelloAck" => progress[R] + 1 >= 1
        /\ h.reply = "DHPart1"  => progress[R] + 1 >= 2
        /\ h.reply = "Confirm1" => progress[R] + 1 >= 3
        /\ h.reply = "ConfAck"  => progress[R] + 1 >= 4
        /\ h.reply # "Audio"
    <3> HIDE DEF h
    <3> QED BY <2>1, ResponderTable DEF HandshakeInv
  <2> HIDE DEF h
  <2>3. progress'[R] = progress[R] + 1 /\ progress'[I] = progress[I]
    BY <1>1, <1>4, <1>6 DEF HandshakeInv, Shape
  <2>4. Shape'
    BY <1>1, <1>2, <1>3, <1>4, <1>6, <2>2 DEF HandshakeInv, Shape
  <2>5. Turns'
    BY <1>1, <1>4, <1>6, <2>3 DEF HandshakeInv, Turns
  <2>6. SentMeans'
    BY <1>3, <1>4, <1>6, <2>2, <2>3 DEF HandshakeInv, SentMeans
  <2>7. StateMeans' /\ TerminatedMeans'
    BY <1>2, <1>4, <1>6, <2>2, <2>3
       DEF HandshakeInv, Shape, StateMeans, TerminatedMeans
  <2>8. HandlingMeans'
    BY <1>2, <1>3, <1>4, <1>6, <2>3 DEF HandshakeInv, Shape, HandlingMeans
  <2>9. AgreedMeans'
    BY <1>1, <1>2, <1>4, <1>6, <2>3, TwoSides DEF HandshakeInv, Turns, AgreedMeans, Done
  <2> QED BY <2>4, <2>5, <2>6, <2>7, <2>8, <2>9 DEF HandshakeInv
<1> QED BY <1>4, <1>5, <1>6, TwoSides

-----------------------------------------------------------------------------
LEMMA HandshakeStep ==
  ASSUME HandshakeInv, [HandshakeNext]_zrtpVars
  PROVE  HandshakeInv'
<1>1. CASE SendAudio
  BY <1>1, SendAudioInv
<1>2. CASE UNCHANGED zrtpVars
  BY <1>2 DEF zrtpVars, HandshakeInv, Shape, Turns, SentMeans, Uses, StateMeans,
              HandlingMeans, AgreedMeans, Done, TerminatedMeans
<1>3. ASSUME NEW s \in Sides,
             \/ NegotiateStart(s) \/ CallThread(s) \/ TimerElapses(s)
             \/ SocketFault(s) \/ Terminate(s) \/ Close(s)
      PROVE  HandshakeInv'
  BY <1>3, NegotiateStartInv, ReceivePacketInv, HandleInv, ResendIfDueInv,
     LeaveLoopInv, ConnectedInv, TimerElapsesInv, SocketFaultInv, TerminateInv, CloseInv
     DEF CallThread
<1> QED BY <1>1, <1>2, <1>3 DEF HandshakeNext

LEMMA HandshakeInductive == HandshakeSpec => []HandshakeInv
<1>1. HandshakeInit => HandshakeInv
  BY InitHandshakeInv
<1>2. HandshakeInv /\ [HandshakeNext]_zrtpVars => HandshakeInv'
  BY HandshakeStep
<1> QED BY <1>1, <1>2, PTL DEF HandshakeSpec

(* The initiator's call is never connected before the responder has        *)
(* verified the confirmation of the secret (handleConfirmAck, which takes  *)
(* any datagram without the ZRTP prefix).                                  *)
THEOREM ResponderConfirmsFirst == HandshakeSpec => []InitiatorLast
<1>1. HandshakeInv => InitiatorLast
  BY TwoSides DEF HandshakeInv, InitiatorLast, AgreedMeans, Done, Turns, Shape, I, R
<1> QED BY <1>1, HandshakeInductive, PTL

(* The two state machines implement the taking of turns, for any limit of  *)
(* retransmissions, over loss, repetition, reordering and closing.         *)
THEOREM HandshakeTakesTurns == HandshakeSpec => ImplementsKeyAgreement
<1>1. HandshakeInit => Agreement!Init
  BY DEF HandshakeInit, Agreement!Init, Sides
<1>2. HandshakeInv /\ [HandshakeNext]_zrtpVars => [Agreement!Next]_progress
  <2> SUFFICES ASSUME HandshakeInv, [HandshakeNext]_zrtpVars,
                      progress' # progress
               PROVE  Agreement!Next
    OBVIOUS
  <2>1. PICK s \in Sides : Handle(s)
    BY DEF HandshakeNext, CallThread, zrtpVars, SendAudio, NegotiateStart,
           ReceivePacket, ResendIfDue, LeaveLoop, NotifyCallConnected,
           CheckTerminated, TimerElapses, SocketFault, Terminate, Close
  <2>2. /\ progress' = [progress EXCEPT ![s] = progress[s] + 1]
        /\ s = I => progress[I] = progress[R]
        /\ s = R => progress[I] = progress[R] + 1 /\ progress[R] < 4
    BY <2>1, HandleMoves
  <2> QED BY <2>2, TwoSides
          DEF Agreement!Next, Agreement!InitiatorAnswers,
              Agreement!ResponderAnswers, Agreement!Lead, I, R
<1> QED BY <1>1, <1>2, HandshakeInductive, PTL
        DEF HandshakeSpec, ImplementsKeyAgreement, Agreement!Spec

-----------------------------------------------------------------------------
(* What the invariant leaves to say for type correctness: the packets are  *)
(* those of the protocol and the retransmissions are bounded.              *)
PacketsTyped ==
  /\ lastPacket      \in [Sides -> Types \cup {NoPacket}]
  /\ retransmitCount \in [Sides -> 0 .. (MaxRetransmitCount + 1)]
  /\ due             \in [Sides -> BOOLEAN]
  /\ closed          \in [Sides -> BOOLEAN]
  /\ sent            \in [Sides -> SUBSET Types]
  /\ faults          \in 0 .. MaxFaults

LEMMA TypesTyped ==
  /\ "Hello" \in Types /\ "Audio" \in Types
  /\ \A s \in Sides : \A a \in Answers(s) : a.reply \in Types \cup {NoPacket}
BY DEF Types, Answers, InitiatorAnswers, ResponderAnswers, Answer, NoPacket

LEMMA SendTyped ==
  ASSUME PacketsTyped, NEW s \in Sides, NEW packet \in Types \cup {NoPacket},
         SendPacket(s, packet)
  PROVE  /\ lastPacket' \in [Sides -> Types \cup {NoPacket}]
         /\ due' \in [Sides -> BOOLEAN]
         /\ sent' \in [Sides -> SUBSET Types]
BY DEF PacketsTyped, SendPacket

LEMMA SendFreshTyped ==
  ASSUME PacketsTyped, NEW s \in Sides, NEW packet \in Types \cup {NoPacket},
         SendFreshPacket(s, packet), UNCHANGED <<closed, faults>>
  PROVE  PacketsTyped'
<1>1. retransmitCount' \in [Sides -> 0 .. (MaxRetransmitCount + 1)]
  BY HandshakeAssumption DEF PacketsTyped, SendFreshPacket
<1> QED BY <1>1, SendTyped DEF PacketsTyped, SendFreshPacket

LEMMA PacketsPass ==
  ASSUME PacketsTyped,
         UNCHANGED <<lastPacket, retransmitCount, due, closed, sent, faults>>
  PROVE  PacketsTyped'
BY DEF PacketsTyped

LEMMA ResendTyped ==
  ASSUME PacketsTyped, NEW s \in Sides, ResendIfDue(s)
  PROVE  PacketsTyped'
<1>1. UNCHANGED <<closed, faults>> /\ ResendPacket(s)
  BY DEF ResendIfDue
<1>2. CASE retransmitCount[s] > MaxRetransmitCount
  BY <1>1, <1>2, PacketsPass DEF ResendPacket
<1>3. CASE ~(retransmitCount[s] > MaxRetransmitCount)
  <2>1. /\ SendPacket(s, lastPacket[s])
        /\ retransmitCount' = [retransmitCount EXCEPT ![s] = retransmitCount[s] + 1]
    BY <1>1, <1>3 DEF ResendPacket
  <2>2. lastPacket[s] \in Types \cup {NoPacket}
    BY DEF PacketsTyped
  <2>3. retransmitCount' \in [Sides -> 0 .. (MaxRetransmitCount + 1)]
    BY <1>3, <2>1, HandshakeAssumption DEF PacketsTyped
  <2> QED BY <1>1, <2>1, <2>2, <2>3, SendTyped DEF PacketsTyped
<1> QED BY <1>2, <1>3

LEMMA PacketsStep ==
  ASSUME HandshakeInv, PacketsTyped, [HandshakeNext]_zrtpVars
  PROVE  PacketsTyped'
<1>1. CASE UNCHANGED zrtpVars
  BY <1>1, PacketsPass DEF zrtpVars
<1>2. CASE SendAudio
  BY <1>2, TypesTyped DEF SendAudio, PacketsTyped
<1>3. ASSUME NEW s \in Sides, NegotiateStart(s) PROVE PacketsTyped'
  <2>1. UNCHANGED <<closed, faults>>
    BY <1>3 DEF NegotiateStart
  <2>2. CASE s = "responder" /\ ~terminated[s]
    BY <1>3, <2>1, <2>2, TypesTyped, SendFreshTyped DEF NegotiateStart
  <2>3. CASE ~(s = "responder" /\ ~terminated[s])
    BY <1>3, <2>1, <2>3, PacketsPass DEF NegotiateStart
  <2> QED BY <2>2, <2>3
<1>4. ASSUME NEW s \in Sides, Handle(s) PROVE PacketsTyped'
  <2>1. UNCHANGED <<closed, faults>>
    BY <1>4 DEF Handle
  <2>2. handling[s] \in Answers(s)
    BY <1>4, TwoSides DEF Handle, HandshakeInv, HandlingMeans, Answers, I, R
  <2>3. CASE handling[s].reply # NoPacket
    BY <1>4, <2>1, <2>2, <2>3, TypesTyped, SendFreshTyped DEF Handle
  <2>4. CASE handling[s].reply = NoPacket
    BY <1>4, <2>1, <2>4, PacketsPass DEF Handle
  <2> QED BY <2>3, <2>4
<1>5. ASSUME NEW s \in Sides, TimerElapses(s) \/ SocketFault(s) \/ Close(s)
      PROVE  PacketsTyped'
  <2>1. CASE TimerElapses(s)
    BY <2>1 DEF TimerElapses, PacketsTyped
  <2>2. CASE SocketFault(s)
    <3>1. faults' \in 0 .. MaxFaults
      BY <2>2, HandshakeAssumption DEF SocketFault, PacketsTyped
    <3> QED BY <2>2, <3>1 DEF SocketFault, PacketsTyped
  <2>3. CASE Close(s)
    BY <2>3 DEF Close, PacketsTyped
  <2> QED BY <1>5, <2>1, <2>2, <2>3
<1>6. ASSUME NEW s \in Sides,
             \/ \E a \in Answers(s) : ReceivePacket(s, a)
             \/ LeaveLoop(s) \/ NotifyCallConnected(s) \/ CheckTerminated(s)
             \/ Terminate(s)
      PROVE  PacketsTyped'
  BY <1>6, PacketsPass DEF ReceivePacket, LeaveLoop, NotifyCallConnected,
                           CheckTerminated, Terminate
<1> QED BY <1>1, <1>2, <1>3, <1>4, <1>5, <1>6, ResendTyped
        DEF HandshakeNext, CallThread

(* The state of both sides keeps its type: a handler only runs for a       *)
(* packet of its own side's table, a packet is sent at most 46 times more  *)
(* (the count is compared before it is incremented), and no side answers   *)
(* more often than its protocol has steps.                                 *)
THEOREM HandshakeTypeCorrect == HandshakeSpec => []HandshakeTypeOK
<1>1. HandshakeInit => PacketsTyped
  BY HandshakeAssumption DEF HandshakeInit, PacketsTyped
<1>2. HandshakeInv /\ PacketsTyped /\ [HandshakeNext]_zrtpVars => PacketsTyped'
  BY PacketsStep
<1>3. HandshakeInv /\ PacketsTyped => HandshakeTypeOK
  <2> SUFFICES ASSUME HandshakeInv, PacketsTyped PROVE HandshakeTypeOK
    OBVIOUS
  <2>1. \A s \in Sides : handling[s] \in Answers(s) \cup {NoAnswer}
    BY TwoSides DEF HandshakeInv, HandlingMeans, Answers, I, R
  <2>2. progress \in [Sides -> 0 .. 5]
    BY TwoSides DEF HandshakeInv, Shape, Turns
  <2> QED BY <2>1, <2>2 DEF HandshakeInv, Shape, PacketsTyped, HandshakeTypeOK
<1> QED BY <1>1, <1>2, <1>3, HandshakeInductive, PTL DEF HandshakeSpec
=============================================================================
