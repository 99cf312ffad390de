--------------------------- MODULE ZrtpHandshake ---------------------------
(***************************************************************************)
(* The two ends of the ZRTP handshake, ZRTPInitiatorSocket and             *)
(* ZRTPResponderSocket, run by the call threads over a network that loses, *)
(* repeats and reorders, while the threads of the service may close either *)
(* end.  Packets are their types: a phone makes one packet of each type in *)
(* a call, and sends that one again.                                       *)
(***************************************************************************)
EXTENDS Naturals, FiniteSets

CONSTANTS
  MaxRetransmitCount,  \* the code's 45
  MaxTerminations,     \* bound: calls ended by the service
  MaxFaults            \* bound: errors of the socket other than a timeout

ASSUME HandshakeAssumption ==
  MaxRetransmitCount \in Nat /\ MaxTerminations \in Nat /\ MaxFaults \in Nat

Sides == {"initiator", "responder"}
Peer(s) == IF s = "initiator" THEN "responder" ELSE "initiator"

(* ConfAck is also the type of every datagram without the ZRTP prefix, so  *)
(* that the first audio of the responder acknowledges.                     *)
Types == {"Hello", "HelloAck", "Commit", "DHPart1", "DHPart2", "Confirm1",
          "Confirm2", "ConfAck", "Audio"}
NoPacket == "none"

States == {"EXPECTING_HELLO", "EXPECTING_HELLO_ACK", "EXPECTING_COMMIT",
           "EXPECTING_DH_1", "EXPECTING_DH_2", "EXPECTING_CONFIRM_ONE",
           "EXPECTING_CONFIRM_TWO", "EXPECTING_CONFIRM_ACK",
           "HANDSHAKE_COMPLETE", "TERMINATED"}

(* Where a call thread is: before negotiateStart, in its loop, in that of  *)
(* negotiateFinish, about to report the call as connected, having reported *)
(* it, or past all that: on to its audio, failed, or ended by the service. *)
Negotiating == {"start", "finish"}
Connected   == {"report", "reported", "agreed"}
Ended       == {"agreed", "failed", "unavailable", "silent"}
Phases      == {"idle"} \cup Negotiating \cup Connected \cup Ended

VARIABLES
  state,            \* ZRTPSocket.state
  phase,            \* the call thread
  handling,         \* the packet whose handler runs, chosen by the old state
  lastPacket, retransmitCount,
  due,              \* whether the retransmit interval is over
  terminated,       \* CallManager.terminated
  closed,           \* the DatagramSocket
  sent,             \* what each side has sent: may arrive, again, or never
  progress,         \* ghost: packets each side has answered
  faults            \* bound

zrtpVars == <<state, phase, handling, lastPacket, retransmitCount, due,
              terminated, closed, sent, progress, faults>>

-----------------------------------------------------------------------------
(* Sending                                                                 *)

(* A closed socket swallows the packet.                                    *)
SendPacket(s, packet) ==
  /\ due' = [due EXCEPT ![s] = FALSE]
  /\ lastPacket' = [lastPacket EXCEPT ![s] = packet]
  /\ sent' = IF packet = NoPacket \/ closed[s] THEN sent
             ELSE [sent EXCEPT ![s] = @ \cup {packet}]

SendFreshPacket(s, packet) ==
  /\ retransmitCount' = [retransmitCount EXCEPT ![s] = 0]
  /\ SendPacket(s, packet)

(* A thread that finds its call ended goes no further.                     *)
Leave(s, next) ==
  phase' = [phase EXCEPT ![s] = IF terminated[s] THEN "silent" ELSE next]

(* Mutant: one resend too many.                                            *)
ResendOnceMore(s) ==
  IF retransmitCount[s] > MaxRetransmitCount + 1
  THEN /\ Leave(s, "failed")
       /\ UNCHANGED <<due, lastPacket, retransmitCount, sent>>
  ELSE /\ SendPacket(s, lastPacket[s])
       /\ retransmitCount' = [retransmitCount EXCEPT ![s] = @ + 1]
       /\ UNCHANGED phase

(* Mutant: nothing bounds the retransmissions.                             *)
ResendForever(s) ==
  /\ SendPacket(s, lastPacket[s])
  /\ UNCHANGED <<phase, retransmitCount>>

(* The count is compared before it is incremented.                         *)
ResendPacket(s) ==
  IF retransmitCount[s] > MaxRetransmitCount
  THEN /\ Leave(s, IF lastPacket[s] = NoPacket THEN "unavailable" ELSE "failed")
       /\ UNCHANGED <<due, lastPacket, retransmitCount, sent>>
  ELSE /\ SendPacket(s, lastPacket[s])
       /\ retransmitCount' = [retransmitCount EXCEPT ![s] = @ + 1]
       /\ UNCHANGED phase

-----------------------------------------------------------------------------
(* The dispatch of the two loops and the handlers: in which state a packet *)
(* is taken, and to which state and reply its handler leads.               *)

Answer(await, packet, next, reply) ==
  [await |-> await, packet |-> packet, next |-> next, reply |-> reply]

InitiatorAnswers ==
  {Answer("EXPECTING_HELLO",       "Hello",    "EXPECTING_HELLO_ACK",   "Hello"),
   Answer("EXPECTING_HELLO_ACK",   "HelloAck", "EXPECTING_DH_1",        "Commit"),
   Answer("EXPECTING_DH_1",        "DHPart1",  "EXPECTING_CONFIRM_ONE", "DHPart2"),
   Answer("EXPECTING_CONFIRM_ONE", "Confirm1", "EXPECTING_CONFIRM_ACK", "Confirm2"),
   Answer("EXPECTING_CONFIRM_ACK", "ConfAck",  "HANDSHAKE_COMPLETE",    NoPacket),
   Answer("EXPECTING_CONFIRM_ACK", "Audio",    "HANDSHAKE_COMPLETE",    NoPacket)}

ResponderAnswers ==
  {Answer("EXPECTING_HELLO",       "Hello",    "EXPECTING_COMMIT",      "HelloAck"),
   Answer("EXPECTING_COMMIT",      "Commit",   "EXPECTING_DH_2",        "DHPart1"),
   Answer("EXPECTING_DH_2",        "DHPart2",  "EXPECTING_CONFIRM_TWO", "Confirm1"),
   Answer("EXPECTING_CONFIRM_TWO", "Confirm2", "HANDSHAKE_COMPLETE",    "ConfAck")}

Answers(s) == IF s = "initiator" THEN InitiatorAnswers ELSE ResponderAnswers
NoAnswer   == Answer("none", NoPacket, "none", NoPacket)

HandshakeInit ==
  /\ state           = [s \in Sides |-> "EXPECTING_HELLO"]
  /\ phase           = [s \in Sides |-> "idle"]
  /\ handling        = [s \in Sides |-> NoAnswer]
  /\ lastPacket      = [s \in Sides |-> NoPacket]
  /\ retransmitCount = [s \in Sides |-> 0]
  /\ due             = [s \in Sides |-> TRUE]
  /\ terminated      = [s \in Sides |-> FALSE]
  /\ closed          = [s \in Sides |-> FALSE]
  /\ sent            = [s \in Sides |-> {}]
  /\ progress        = [s \in Sides |-> 0]
  /\ faults = 0

InLoop(s) ==
  /\ handling[s] = NoAnswer
  /\ \/ phase[s] = "start"  /\ state[s] = "EXPECTING_HELLO"
     \/ phase[s] = "finish" /\ state[s] \notin {"HANDSHAKE_COMPLETE", "TERMINATED"}

-----------------------------------------------------------------------------
(* The call thread: CallManager.run, negotiateStart and negotiateFinish.   *)

NegotiateStart(s) ==
  /\ phase[s] = "idle"
  /\ phase' = [phase EXCEPT ![s] = IF terminated[s] THEN "silent" ELSE "start"]
  /\ IF s = "responder" /\ ~terminated[s]
     THEN SendFreshPacket(s, "Hello")
     ELSE UNCHANGED <<due, lastPacket, retransmitCount, sent>>
  /\ UNCHANGED <<state, handling, terminated, closed, progress, faults>>

(* Mutant: the state is not asked for.                                     *)
ReceiveAnytime(s, a) ==
  /\ InLoop(s) /\ ~closed[s]
  /\ a.packet \in sent[Peer(s)]
  /\ handling' = [handling EXCEPT ![s] = a]
  /\ UNCHANGED <<state, phase, lastPacket, retransmitCount, due, terminated,
                 closed, sent, progress, faults>>

ReceivePacket(s, a) ==
  /\ InLoop(s) /\ ~closed[s]
  /\ a.await = state[s]
  /\ a.packet \in sent[Peer(s)]
  /\ handling' = [handling EXCEPT ![s] = a]
  /\ UNCHANGED <<state, phase, lastPacket, retransmitCount, due, terminated,
                 closed, sent, progress, faults>>

(* The handler sets the state, over that of a close that came in between.  *)
Handle(s) ==
  /\ handling[s] # NoAnswer
  /\ state' = [state EXCEPT ![s] = handling[s].next]
  /\ IF handling[s].reply # NoPacket
     THEN SendFreshPacket(s, handling[s].reply)
     ELSE UNCHANGED <<due, lastPacket, retransmitCount, sent>>
  /\ handling' = [handling EXCEPT ![s] = NoAnswer]
  /\ progress' = [progress EXCEPT ![s] = @ + 1]
  /\ UNCHANGED <<phase, terminated, closed, faults>>

(* No packet in time, one that the state does not expect, or the socket    *)
(* closed: all the same, once the interval is over.                        *)
ResendIfDue(s) ==
  /\ InLoop(s)
  /\ due[s]
  /\ ResendPacket(s)
  /\ UNCHANGED <<state, handling, terminated, closed, progress, faults>>

TimerElapses(s) ==
  /\ phase[s] \in Negotiating
  /\ ~due[s]
  /\ due' = [due EXCEPT ![s] = TRUE]
  /\ UNCHANGED <<state, phase, handling, lastPacket, retransmitCount,
                 terminated, closed, sent, progress, faults>>

SocketFault(s) ==
  /\ InLoop(s) /\ ~closed[s]
  /\ faults < MaxFaults
  /\ faults' = faults + 1
  /\ Leave(s, "failed")
  /\ UNCHANGED <<state, handling, lastPacket, retransmitCount, due,
                 terminated, closed, sent, progress>>

LeaveLoop(s) ==
  /\ handling[s] = NoAnswer
  /\ \/ phase[s] = "start" /\ state[s] # "EXPECTING_HELLO" /\ Leave(s, "finish")
     \/ /\ phase[s] = "finish"
        /\ state[s] \in {"HANDSHAKE_COMPLETE", "TERMINATED"}
        /\ Leave(s, "report")
  /\ UNCHANGED <<state, handling, lastPacket, retransmitCount, due,
                 terminated, closed, sent, progress, faults>>

(* The call may have been ended since the flag was looked at; it is looked *)
(* at once more before the audio.                                          *)
NotifyCallConnected(s) ==
  /\ phase[s] = "report"
  /\ phase' = [phase EXCEPT ![s] = "reported"]
  /\ UNCHANGED <<state, handling, lastPacket, retransmitCount, due,
                 terminated, closed, sent, progress, faults>>

CheckTerminated(s) ==
  /\ phase[s] = "reported"
  /\ Leave(s, "agreed")
  /\ UNCHANGED <<state, handling, lastPacket, retransmitCount, due,
                 terminated, closed, sent, progress, faults>>

-----------------------------------------------------------------------------
(* The service ends the call: CallManager.terminate on another thread sets *)
(* its flag first and closes the ZRTPSocket last.                          *)

Terminate(s) ==
  /\ ~terminated[s]
  /\ Cardinality({p \in Sides : terminated[p]}) < MaxTerminations
  /\ terminated' = [terminated EXCEPT ![s] = TRUE]
  /\ UNCHANGED <<state, phase, handling, lastPacket, retransmitCount, due,
                 closed, sent, progress, faults>>

Close(s) ==
  /\ terminated[s] /\ ~closed[s]
  /\ state'  = [state EXCEPT ![s] = "TERMINATED"]
  /\ closed' = [closed EXCEPT ![s] = TRUE]
  /\ UNCHANGED <<phase, handling, lastPacket, retransmitCount, due,
                 terminated, sent, progress, faults>>

(* Mutant: the microphone starts before the other side has confirmed.      *)
SendAudioEarly ==
  /\ phase["responder"] \in {"finish", "agreed"} /\ ~closed["responder"]
  /\ sent' = [sent EXCEPT !["responder"] = @ \cup {"Audio"}]
  /\ UNCHANGED <<state, phase, handling, lastPacket, retransmitCount, due,
                 terminated, closed, progress, faults>>

(* The responder's call goes on to its audio.                              *)
SendAudio ==
  /\ phase["responder"] = "agreed" /\ ~closed["responder"]
  /\ sent' = [sent EXCEPT !["responder"] = @ \cup {"Audio"}]
  /\ UNCHANGED <<state, phase, handling, lastPacket, retransmitCount, due,
                 terminated, closed, progress, faults>>

CallThread(s) ==
  \/ \E a \in Answers(s) : ReceivePacket(s, a)
  \/ Handle(s)
  \/ ResendIfDue(s)
  \/ LeaveLoop(s) \/ NotifyCallConnected(s) \/ CheckTerminated(s)

HandshakeNext ==
  \/ \E s \in Sides : \/ NegotiateStart(s) \/ CallThread(s)
                      \/ TimerElapses(s) \/ SocketFault(s)
                      \/ Terminate(s) \/ Close(s)
  \/ SendAudio

HandshakeSpec == HandshakeInit /\ [][HandshakeNext]_zrtpVars
-----------------------------------------------------------------------------
(* Properties                                                              *)

HandshakeTypeOK ==
  /\ state           \in [Sides -> States]
  /\ phase           \in [Sides -> Phases]
  /\ \A s \in Sides : handling[s] \in Answers(s) \cup {NoAnswer}
  /\ lastPacket      \in [Sides -> Types \cup {NoPacket}]
  /\ retransmitCount \in [Sides -> 0 .. (MaxRetransmitCount + 1)]
  /\ due             \in [Sides -> BOOLEAN]
  /\ terminated      \in [Sides -> BOOLEAN]
  /\ closed          \in [Sides -> BOOLEAN]
  /\ sent            \in [Sides -> SUBSET Types]
  /\ progress        \in [Sides -> 0 .. 5]
  /\ faults          \in 0 .. MaxFaults

(* When the initiator's call is connected, the responder has verified the  *)
(* confirmation of the secret, although the initiator may never see the    *)
(* acknowledgement and takes the first audio for one, and although a close *)
(* that falls into a handler is undone by the handler's own state.         *)
InitiatorLast == phase["initiator"] \in Connected => progress["responder"] = 4

(* The two ends advance in turns, over loss, repetition, reordering,       *)
(* closing and failing.                                                    *)
Agreement == INSTANCE KeyAgreement
ImplementsKeyAgreement == Agreement!Spec

(* A negotiation that has begun ends, also on a closed socket.             *)
Ends == \A s \in Sides : phase[s] \in Negotiating ~> phase[s] \in Ended
=============================================================================
