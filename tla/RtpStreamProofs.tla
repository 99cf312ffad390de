-------------------------- MODULE RtpStreamProofs --------------------------
(***************************************************************************)
(* For every width of the short number, the receiver's extended number is  *)
(* the true place of the last datagram, so that only frames that were sent *)
(* are heard, and the stream implements the channel with unbounded         *)
(* numbers.                                                                *)
(***************************************************************************)
EXTENDS RtpStream, TLAPS

(* Two remainders and the numbers they come from: what the difference of   *)
(* the remainders lacks is a multiple of the divisor, and at most one of   *)
(* it when the numbers are close.                                          *)
LEMMA RemainderGap ==
  ASSUME NEW S \in Nat \ {0}, NEW p \in Int, NEW q \in Int,
         p - q < S, q - p < S
  PROVE  /\ p % S \in 0 .. (S - 1)
         /\ q % S \in 0 .. (S - 1)
         /\ \E k \in {-1, 0, 1} : (p - q) = (p % S) - (q % S) + S * k
<1> DEFINE a == p \div S
           b == q \div S
           r == p % S
           s == q % S
<1>1. /\ a \in Int /\ b \in Int
      /\ r \in 0 .. (S - 1) /\ s \in 0 .. (S - 1)
  OBVIOUS
<1>2. p = S * a + r /\ q = S * b + s
  OBVIOUS
<1> DEFINE k == a - b
<1>3. k \in Int
  BY <1>1
<1>4. p - q = r - s + S * k
  BY <1>1, <1>2
<1>5. k \in {-1, 0, 1}
  <2> HIDE DEF a, b, r, s, k
  <2>1. ASSUME k >= 2 PROVE FALSE
    <3>1. S * k >= S * 2
      BY <2>1, <1>3
    <3> QED BY <3>1, <1>1, <1>3, <1>4
  <2>2. ASSUME k <= -2 PROVE FALSE
    <3>1. S * k <= S * (-2)
      BY <2>2, <1>3
    <3> QED BY <3>1, <1>1, <1>3, <1>4
  <2> QED BY <2>1, <2>2, <1>3
<1> QED BY <1>1, <1>4, <1>5

(* SequenceCounter: the wrapped difference of two short numbers is the     *)
(* difference of the places they stand for, if the second is in reach.     *)
LEMMA DeltaIsExact ==
  ASSUME NEW p \in Int, NEW q \in Int, prevShortId = q % ShortRange,
         p - q \in INT16_MIN .. INT16_MAX
  PROVE  Delta(p % ShortRange) = p - q
<1> DEFINE S == ShortRange
           r == p % S
           s == q % S
<1>1. S \in Nat \ {0} /\ S = 2 * HalfRange
  BY HalfRangeAssumption DEF ShortRange
<1>2. p - q < S /\ q - p < S
  BY <1>1, HalfRangeAssumption DEF INT16_MIN, INT16_MAX
<1>3. /\ r \in 0 .. (S - 1) /\ s \in 0 .. (S - 1)
      /\ \E k \in {-1, 0, 1} : (p - q) = r - s + S * k
  <2> HIDE DEF S
  <2> QED BY <1>1, <1>2, RemainderGap
<1>4. \/ p - q = r - s
      \/ p - q = r - s + S
      \/ p - q = r - s - S
  BY <1>1, <1>3
<1>5. Delta(p % ShortRange) =
      IF      r - s > INT16_MAX THEN (r - s) - S
      ELSE IF r - s < INT16_MIN THEN (r - s) + S
      ELSE r - s
  BY DEF Delta
<1> HIDE DEF S, r, s
<1>6. CASE r - s > INT16_MAX
  BY <1>1, <1>3, <1>4, <1>5, <1>6, HalfRangeAssumption DEF INT16_MIN, INT16_MAX
<1>7. CASE r - s < INT16_MIN
  BY <1>1, <1>3, <1>4, <1>5, <1>7, HalfRangeAssumption DEF INT16_MIN, INT16_MAX
<1>8. CASE r - s \in INT16_MIN .. INT16_MAX
  BY <1>1, <1>3, <1>4, <1>5, <1>8, HalfRangeAssumption DEF INT16_MIN, INT16_MAX
<1>9. r - s \in Int /\ INT16_MIN \in Int /\ INT16_MAX \in Int
  BY <1>3, <1>1, HalfRangeAssumption DEF INT16_MIN, INT16_MAX
<1> QED BY <1>6, <1>7, <1>8, <1>9

-----------------------------------------------------------------------------
(* The inductive invariant: both fields of the counter follow the place of *)
(* the last datagram, and whatever travels authenticated was sent.         *)
SentOnly == \A p \in network :
              p.authentic => p.place \in 0 .. (sequenceNumber - 1)

StreamInv ==
  /\ StreamTypeOK
  /\ prevShortId = position % ShortRange
  /\ InStep
  /\ SentOnly
  /\ NoNoise

LEMMA RangePositive == ShortRange \in Nat \ {0}
BY HalfRangeAssumption DEF ShortRange

LEMMA ShortRangeOf ==
  ASSUME NEW p \in Int
  PROVE  p % ShortRange \in 0 .. (ShortRange - 1)
BY RangePositive

LEMMA InitStreamInv == StreamInit => StreamInv
<1> SUFFICES ASSUME StreamInit PROVE StreamInv
  OBVIOUS
<1>1. 0 % ShortRange = 0 /\ 0 \in 0 .. (ShortRange - 1)
  BY RangePositive
<1> QED BY <1>1 DEF StreamInit, StreamInv, StreamTypeOK, InStep, SentOnly, NoNoise

LEMMA SendInv == ASSUME StreamInv, Send PROVE StreamInv'
<1> USE DEF StreamInv, Send
<1>1. [place |-> sequenceNumber, authentic |-> TRUE] \in Packet
  BY DEF StreamTypeOK, Packet
<1> DEFINE sending == [place |-> sequenceNumber, authentic |-> TRUE]
<1>2. network' = network \/ network' = network \cup {sending}
  OBVIOUS
<1>3. network' \subseteq Packet
  <2> HIDE DEF sending
  <2>1. sending \in Packet
    BY <1>1 DEF sending
  <2> QED BY <1>2, <2>1 DEF StreamTypeOK
<1>4. sequenceNumber' \in Nat
  BY DEF StreamTypeOK
<1>5. StreamTypeOK'
  BY <1>3, <1>4 DEF StreamTypeOK
<1>6. SentOnly'
  BY DEF SentOnly, StreamTypeOK
<1>7. NoNoise'
  BY DEF NoNoise, StreamTypeOK
<1> QED BY <1>5, <1>6, <1>7 DEF InStep

LEMMA SendForeignInv ==
  ASSUME StreamInv, NEW place \in Strays, SendForeign(place)
  PROVE  StreamInv'
<1> USE DEF StreamInv, SendForeign
<1>1. [place |-> place, authentic |-> FALSE] \in Packet
  BY StraysAssumption DEF Packet
<1>2. StreamTypeOK'
  BY <1>1 DEF StreamTypeOK
<1>3. SentOnly'
  BY DEF SentOnly
<1> QED BY <1>2, <1>3 DEF InStep, NoNoise

LEMMA LoseInv ==
  ASSUME StreamInv, NEW p \in network, Lose(p)
  PROVE  StreamInv'
BY DEF StreamInv, Lose, StreamTypeOK, InStep, SentOnly, NoNoise

(* What a received datagram does to the counter and to what is heard.      *)
LEMMA ReceiveExact ==
  ASSUME StreamInv, NEW p \in network, Receive(p)
  PROVE  /\ p.place \in Int /\ p.authentic \in BOOLEAN
         /\ prevLongId' = p.place
         /\ prevShortId' = p.place % ShortRange
         /\ heard' = IF p.authentic THEN heard \cup {p.place} ELSE heard
<1>1. p.place \in Int /\ p.authentic \in BOOLEAN /\ position \in Int
  BY DEF StreamInv, StreamTypeOK, Packet
<1>2. Delta(ShortId(p)) = p.place - position
  BY <1>1, DeltaIsExact DEF StreamInv, Receive, InReach, ShortId
<1>3. prevLongId' = p.place
  BY <1>1, <1>2 DEF StreamInv, InStep, Receive, MoveCounter
<1> QED BY <1>1, <1>3 DEF Receive, MoveCounter, ShortId, Decrypted

LEMMA ReceiveInv ==
  ASSUME StreamInv, NEW p \in network, Receive(p)
  PROVE  StreamInv'
<1>1. /\ p.place \in Int /\ p.authentic \in BOOLEAN
      /\ prevLongId' = p.place
      /\ prevShortId' = p.place % ShortRange
      /\ heard' = IF p.authentic THEN heard \cup {p.place} ELSE heard
  BY ReceiveExact
<1>2. /\ position' = p.place /\ sequenceNumber' = sequenceNumber
      /\ network' \subseteq network
  BY DEF Receive
<1>3. p.authentic => p.place \in 0 .. (sequenceNumber - 1)
  BY DEF StreamInv, SentOnly
<1>4. StreamTypeOK'
  BY <1>1, <1>2, ShortRangeOf DEF StreamInv, StreamTypeOK
<1>5. SentOnly'
  BY <1>2 DEF StreamInv, SentOnly
<1>6. NoNoise'
  BY <1>1, <1>2, <1>3 DEF StreamInv, NoNoise
<1> QED BY <1>1, <1>2, <1>4, <1>5, <1>6 DEF StreamInv, InStep

LEMMA StreamInvInductive == StreamSpec => []StreamInv
<1>1. StreamInit => StreamInv
  BY InitStreamInv
<1>2. StreamInv /\ [StreamNext]_streamVars => StreamInv'
  <2> SUFFICES ASSUME StreamInv, [StreamNext]_streamVars PROVE StreamInv'
    OBVIOUS
  <2>1. CASE Send
    BY <2>1, SendInv
  <2>2. CASE \E place \in Strays : SendForeign(place)
    BY <2>2, SendForeignInv
  <2>3. CASE \E p \in network : Lose(p)
    BY <2>3, LoseInv
  <2>4. CASE \E p \in network : Receive(p)
    BY <2>4, ReceiveInv
  <2>5. CASE UNCHANGED streamVars
    BY <2>5 DEF streamVars, StreamInv, StreamTypeOK, InStep, SentOnly, NoNoise
  <2> QED BY <2>1, <2>2, <2>3, <2>4, <2>5 DEF StreamNext
<1> QED BY <1>1, <1>2, PTL DEF StreamSpec

(* The counter, the datagrams and what was heard keep their types: the     *)
(* low bits that are sent and remembered stay in the short range.          *)
THEOREM StreamTypeCorrect == StreamSpec => []StreamTypeOK
BY StreamInvInductive, PTL DEF StreamInv

(* The extended number is the true place of the last datagram, whatever is *)
(* lost, repeated, reordered or foreign, for short numbers of any width    *)
(* (SequenceCounter.convertNext).                                          *)
THEOREM AlwaysInStep == StreamSpec => []InStep
BY StreamInvInductive, PTL DEF StreamInv

(* Only frames that were sent are heard, never noise (SrtpStream.decrypt   *)
(* under the extended number).                                             *)
THEOREM NeverNoise == StreamSpec => []NoNoise
BY StreamInvInductive, PTL DEF StreamInv

(* Every step of the stream is a step of the channel with unbounded        *)
(* numbers or leaves it as it was.                                         *)
THEOREM StreamImplementsChannel == StreamSpec => ImplementsChannel
<1>1. StreamInit => Channel!Init
  BY DEF StreamInit, Channel!Init
<1>2. /\ StreamInv
      /\ [StreamNext]_streamVars
      => [Channel!Next]_<<sequenceNumber, heard>>
  <2> SUFFICES ASSUME StreamInv, [StreamNext]_streamVars
               PROVE  [Channel!Next]_<<sequenceNumber, heard>>
    OBVIOUS
  <2>1. CASE Send
    BY <2>1 DEF Send, Channel!Next, Channel!SendFrame
  <2>2. CASE \E place \in Strays : SendForeign(place)
    BY <2>2 DEF SendForeign
  <2>3. CASE \E p \in network : Lose(p)
    BY <2>3 DEF Lose
  <2>4. CASE \E p \in network : Receive(p)
    <3> SUFFICES ASSUME NEW p \in network, Receive(p)
                 PROVE  [Channel!Next]_<<sequenceNumber, heard>>
      BY <2>4
    <3>1. heard' = (IF p.authentic THEN heard \cup {p.place} ELSE heard)
      BY ReceiveExact
    <3>2. p.authentic => p.place \in 0 .. (sequenceNumber - 1)
      BY DEF StreamInv, SentOnly
    <3>3. UNCHANGED sequenceNumber
      BY DEF Receive
    <3> QED BY <3>1, <3>2, <3>3 DEF Channel!Next, Channel!HearFrame
  <2>5. CASE UNCHANGED streamVars
    BY <2>5 DEF streamVars
  <2> QED BY <2>1, <2>2, <2>3, <2>4, <2>5 DEF StreamNext
<1> QED BY <1>1, <1>2, StreamInvInductive, PTL
        DEF StreamSpec, ImplementsChannel, Channel!Spec
=============================================================================
