----------------------------- MODULE CallMedia -----------------------------
(***************************************************************************)
(* A call from the first handshake packet to the responder's voice at the  *)
(* initiator.  The handshake and the audio share one socket: the first     *)
(* audio may reach the initiator while it still waits for ConfAck, which   *)
(* it then takes it for, and handshake packets may reach the initiator     *)
(* when it already plays, where each moves the sequence counter.           *)
(***************************************************************************)
EXTENDS ZrtpHandshake, RtpStream

vars == <<zrtpVars, streamVars>>

Init == HandshakeInit /\ StreamInit

(* The handshake alone.                                                    *)
Negotiate(s) ==
  /\ \/ \E a \in Answers(s) : a.packet # "Audio" /\ ReceivePacket(s, a)
     \/ Handle(s) \/ ResendIfDue(s) \/ LeaveLoop(s)
     \/ NotifyCallConnected(s) \/ CheckTerminated(s)
  /\ UNCHANGED streamVars

Timer(s) == TimerElapses(s) /\ UNCHANGED streamVars

Others(s) ==
  /\ NegotiateStart(s) \/ SocketFault(s) \/ Terminate(s) \/ Close(s)
  /\ UNCHANGED streamVars

(* receiveHandshakePacket takes a datagram without the ZRTP prefix, which  *)
(* the audio then misses unless it comes again.                            *)
TakeAudioForAck ==
  \E a \in InitiatorAnswers, p \in network :
    /\ a.packet = "Audio" /\ p.authentic
    /\ ReceivePacket("initiator", a)
    /\ Lose(p) \/ UNCHANGED streamVars

Speak == SendAudio /\ Send

(* A packet of the responder's handshake comes late.                       *)
Straggle ==
  /\ phase["initiator"] = "agreed"
  /\ \E place \in Strays : SendForeign(place)
  /\ UNCHANGED zrtpVars

LoseDatagram == (\E p \in network : Lose(p)) /\ UNCHANGED zrtpVars

Listen ==
  /\ phase["initiator"] = "agreed" /\ ~closed["initiator"]
  /\ \E p \in network : Receive(p)
  /\ UNCHANGED zrtpVars

Next ==
  \/ \E s \in Sides : Negotiate(s) \/ Timer(s) \/ Others(s)
  \/ TakeAudioForAck \/ Speak \/ Straggle \/ LoseDatagram \/ Listen

Spec == Init /\ [][Next]_vars

(* The call threads and the clock go on; nothing else has to happen.       *)
FairSpec == Spec /\ \A s \in Sides : WF_vars(Negotiate(s)) /\ WF_vars(Timer(s))
-----------------------------------------------------------------------------
TypeOK == HandshakeTypeOK /\ StreamTypeOK

(* The audio of a call is a stream as RtpStream has it.                    *)
ImplementsStream == StreamSpec
=============================================================================
