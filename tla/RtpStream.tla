----------------------------- MODULE RtpStream ------------------------------
(***************************************************************************)
(* One direction of a call's audio: the RtpAudioSender of one phone, the   *)
(* network, and the RtpAudioReceiver of the other.  The sender counts its  *)
(* packets in a uint32_t; the header has 16 bits for the number, and the   *)
(* receiver's SequenceCounter extends it again.  Encryption is AES in      *)
(* counter mode under the extended number, and the MAC does not cover it:  *)
(* a packet decrypted under another number passes the MAC and is noise.    *)
(*                                                                         *)
(* The counter moves for every datagram that has a header, before the MAC  *)
(* is looked at, so that late packets of the ZRTP handshake on the same    *)
(* socket, which no SRTP key authenticates, move it as well.               *)
(***************************************************************************)
EXTENDS Integers, FiniteSets

CONSTANTS
  HalfRange,  \* half the values of a short number; the code's 2^15
  MaxSent,    \* bound: packets sent
  MaxFlight,  \* bound: packets in the network
  Strays      \* bound: positions of foreign datagrams, around the stream's

ASSUME HalfRangeAssumption == HalfRange \in Nat \ {0}
ASSUME BoundAssumption     == MaxSent \in Nat /\ MaxFlight \in Nat
ASSUME StraysAssumption    == Strays \subseteq Int

ShortRange == 2 * HalfRange
INT16_MAX  == HalfRange - 1
INT16_MIN  == 0 - HalfRange

(* What a datagram decrypted under the wrong number sounds like.           *)
Noise == -1

VARIABLES
  sequenceNumber,  \* RtpAudioSender: the number of the next packet
  network,         \* datagrams on their way
  prevShortId,     \* SequenceCounter: the last header number
  prevLongId,      \* SequenceCounter: the last extended number
  heard,           \* frames given to the jitter buffer, Noise among them
  position         \* ghost: true place of the last datagram in the stream

streamVars == <<sequenceNumber, network, prevShortId, prevLongId, heard,
                position>>

(* A datagram: its place in the stream (for a foreign one, the place its   *)
(* header number stands for) and whether the MAC accepts it.  Only the     *)
(* short number of the place travels.                                      *)
Packet == [place : Int, authentic : BOOLEAN]

ShortId(p) == p.place % ShortRange

-----------------------------------------------------------------------------
(* SequenceCounter.convertNext                                             *)

(* Mutant: only the wraparound forwards is thought of.                     *)
NoBackwardDelta(next) ==
  LET delta == next - prevShortId
  IN  IF delta < INT16_MIN THEN delta + ShortRange ELSE delta

(* Mutant: the boundary is one too far.                                    *)
DeltaOffByOne(next) ==
  LET delta == next - prevShortId
  IN  IF      delta > INT16_MAX + 1 THEN delta - ShortRange
      ELSE IF delta < INT16_MIN     THEN delta + ShortRange
      ELSE delta

Delta(next) ==
  LET delta == next - prevShortId
  IN  IF      delta > INT16_MAX THEN delta - ShortRange
      ELSE IF delta < INT16_MIN THEN delta + ShortRange
      ELSE delta

MoveCounter(next) ==
  /\ prevLongId'  = prevLongId + Delta(next)
  /\ prevShortId' = next

-----------------------------------------------------------------------------
StreamInit ==
  /\ sequenceNumber = 0
  /\ network = {}
  /\ prevShortId = 0 /\ prevLongId = 0
  /\ heard = {}
  /\ position = 0

(* RtpAudioSender.send: the number advances even when sendto fails, and a  *)
(* datagram that was sent may be lost at once.                             *)
Send ==
  /\ sequenceNumber < MaxSent
  /\ Cardinality(network) < MaxFlight
  /\ sequenceNumber' = sequenceNumber + 1
  /\ network' \in {network,
                   network \cup {[place |-> sequenceNumber, authentic |-> TRUE]}}
  /\ UNCHANGED <<prevShortId, prevLongId, heard, position>>

(* A datagram that is not of this stream: the peer sends a packet of its   *)
(* handshake again, under that packet's own small number.                  *)
SendForeign(place) ==
  /\ Cardinality(network) < MaxFlight
  /\ network' = network \cup {[place |-> place, authentic |-> FALSE]}
  /\ UNCHANGED <<sequenceNumber, prevShortId, prevLongId, heard, position>>

Lose(p) ==
  /\ network' = network \ {p}
  /\ UNCHANGED <<sequenceNumber, prevShortId, prevLongId, heard, position>>

(* The one assumption about the network: of two datagrams that arrive one  *)
(* after the other, neither is 2^15 places or more behind or ahead of the  *)
(* other: 22 minutes of audio at one packet in 40 ms.  The counter starts  *)
(* as if place 0 had arrived.                                              *)
InReach(p) == p.place - position \in INT16_MIN .. INT16_MAX

(* SrtpStream.decrypt: the payload comes out right under its own number.   *)
Decrypted(p, number) == IF number = p.place THEN p.place ELSE Noise

(* Mutant: the number of the packet before is used.                        *)
ReceiveUnderOldNumber(p) ==
  /\ p \in network
  /\ InReach(p)
  /\ network' \in {network, network \ {p}}
  /\ MoveCounter(ShortId(p))
  /\ heard' = IF p.authentic THEN heard \cup {Decrypted(p, prevLongId)}
                             ELSE heard
  /\ position' = p.place
  /\ UNCHANGED sequenceNumber

(* RtpAudioReceiver.receive, and addAudio when it returns a packet.  The   *)
(* datagram may come again.                                                *)
Receive(p) ==
  /\ p \in network
  /\ InReach(p)
  /\ network' \in {network, network \ {p}}
  /\ MoveCounter(ShortId(p))
  /\ heard' = IF p.authentic THEN heard \cup {Decrypted(p, prevLongId')}
                             ELSE heard
  /\ position' = p.place
  /\ UNCHANGED sequenceNumber

StreamNext ==
  \/ Send
  \/ \E place \in Strays : SendForeign(place)
  \/ \E p \in network : Lose(p) \/ Receive(p)

StreamSpec == StreamInit /\ [][StreamNext]_streamVars
-----------------------------------------------------------------------------
(* Properties                                                              *)

StreamTypeOK ==
  /\ sequenceNumber \in Nat
  /\ network \subseteq Packet
  /\ prevShortId \in 0 .. (ShortRange - 1)
  /\ prevLongId \in Int
  /\ heard \subseteq Int
  /\ position \in Int

(* The receiver's extended number is the true place of the last datagram,  *)
(* over wraparounds, loss, repetition, reordering and foreign datagrams:   *)
(* the counter is never off by 2^16, from which it would not come back.    *)
InStep == prevLongId = position

(* Nothing is heard but frames that were sent, as they were sent.          *)
NoNoise == heard \subseteq 0 .. (sequenceNumber - 1)

(* The stream implements the channel with unbounded numbers.               *)
Channel == INSTANCE NumberedChannel WITH sent <- sequenceNumber
ImplementsChannel == Channel!Spec
=============================================================================
