-------------------------- MODULE CallMediaProofs --------------------------
(***************************************************************************)
(* The composition keeps what its two parts promise: whatever a call does, *)
(* its handshake is one of ZrtpHandshake and its audio a stream of         *)
(* RtpStream, so that their theorems hold of the whole call.               *)
(***************************************************************************)
EXTENDS CallMedia, ZrtpHandshakeProofs, RtpStreamProofs

LEMMA StreamStep == Next => [StreamNext]_streamVars
<1> SUFFICES ASSUME Next PROVE [StreamNext]_streamVars
  OBVIOUS
<1>1. ASSUME NEW s \in Sides, Negotiate(s) \/ Timer(s) \/ Others(s)
      PROVE  UNCHANGED streamVars
  BY <1>1 DEF Negotiate, Timer, Others
<1>2. CASE TakeAudioForAck
  BY <1>2 DEF TakeAudioForAck, StreamNext
<1>3. CASE Speak
  BY <1>3 DEF Speak, StreamNext
<1>4. CASE Straggle
  BY <1>4 DEF Straggle, StreamNext
<1>5. CASE LoseDatagram
  BY <1>5 DEF LoseDatagram, StreamNext
<1>6. CASE Listen
  BY <1>6 DEF Listen, StreamNext
<1> QED BY <1>1, <1>2, <1>3, <1>4, <1>5, <1>6 DEF Next

LEMMA HandshakeStepOrStutter == Next => [HandshakeNext]_zrtpVars
<1> SUFFICES ASSUME Next PROVE [HandshakeNext]_zrtpVars
  OBVIOUS
<1>1. ASSUME NEW s \in Sides, Negotiate(s) PROVE HandshakeNext
  BY <1>1 DEF Negotiate, HandshakeNext, CallThread
<1>2. ASSUME NEW s \in Sides, Timer(s) PROVE HandshakeNext
  BY <1>2 DEF Timer, HandshakeNext
<1>3. ASSUME NEW s \in Sides, Others(s) PROVE HandshakeNext
  BY <1>3 DEF Others, HandshakeNext
<1>4. CASE TakeAudioForAck
  <2>1. PICK a \in InitiatorAnswers : ReceivePacket("initiator", a)
    BY <1>4 DEF TakeAudioForAck
  <2>2. "initiator" \in Sides /\ Answers("initiator") = InitiatorAnswers
    BY DEF Sides, Answers
  <2> QED BY <2>1, <2>2 DEF HandshakeNext, CallThread
<1>5. CASE Speak
  BY <1>5 DEF Speak, HandshakeNext
<1>6. CASE Straggle \/ LoseDatagram \/ Listen
  BY <1>6 DEF Straggle, LoseDatagram, Listen
<1> QED BY <1>1, <1>2, <1>3, <1>4, <1>5, <1>6 DEF Next

(* A call's audio is a stream of RtpStream, whatever the handshake on the  *)
(* same socket does to the datagrams and to the counter.                   *)
THEOREM CallImplementsStream == Spec => ImplementsStream
<1>1. Init => StreamInit
  BY DEF Init
<1>2. [Next]_vars => [StreamNext]_streamVars
  BY StreamStep DEF vars
<1> QED BY <1>1, <1>2, PTL DEF Spec, ImplementsStream, StreamSpec

(* A call's negotiation is one of ZrtpHandshake.                           *)
THEOREM CallImplementsHandshake == Spec => HandshakeSpec
<1>1. Init => HandshakeInit
  BY DEF Init
<1>2. [Next]_vars => [HandshakeNext]_zrtpVars
  BY HandshakeStepOrStutter DEF vars
<1> QED BY <1>1, <1>2, PTL DEF Spec, HandshakeSpec

(* In every call the receiver's extended number is the true place of the   *)
(* last datagram and nothing is heard but what was sent; the initiator is  *)
(* the last to finish, and the two phones take turns.                      *)
THEOREM CallKeepsItsPromises ==
  Spec => /\ [](InStep /\ NoNoise /\ InitiatorLast)
          /\ ImplementsKeyAgreement
<1>1. Spec => []InStep /\ []NoNoise
  BY CallImplementsStream, AlwaysInStep, NeverNoise DEF ImplementsStream
<1>2. Spec => []InitiatorLast /\ ImplementsKeyAgreement
  BY CallImplementsHandshake, ResponderConfirmsFirst, HandshakeTakesTurns
<1> QED BY <1>1, <1>2, PTL

(* The handshake and the audio of a call keep their types, whatever the    *)
(* two do to each other on the socket they share.                          *)
THEOREM CallTypeCorrect == Spec => []TypeOK
<1>1. Spec => []HandshakeTypeOK
  BY CallImplementsHandshake, HandshakeTypeCorrect
<1>2. Spec => []StreamTypeOK
  BY CallImplementsStream, StreamTypeCorrect DEF ImplementsStream
<1>3. HandshakeTypeOK /\ StreamTypeOK => TypeOK
  BY DEF TypeOK
<1> QED BY <1>1, <1>2, <1>3, PTL
=============================================================================
