------------------------- MODULE RedPhoneCallProofs -------------------------
(***************************************************************************)
(* For any number of calls: the calls of the service keep to what          *)
(* CallAudio asks of its users; the teardown of a call's audio is safe     *)
(* when the loop was reached before it began; a call that was ended is     *)
(* quiet; only a failure lets one call displace another; and the audio is  *)
(* muted as the user wants it.                                             *)
(***************************************************************************)
EXTENDS RedPhoneCall, TLAPS

(* The invariant of one call's audio.                                      *)
Sound(a) ==
  /\ a.object = "none" => a.start = "no" /\ a.stop = "no" /\ a.on = {}
  /\ a.object = "deleted" <=> a.stop = "over"
  /\ a.object = "deleted" => a.on = {}
  /\ a.start \in {"engine", "microphone", "player", "loop", "receive", "failed"}
       => ~a.finished
  /\ ~a.hurried =>
       /\ ~a.misused
       /\ a.stop # "no" => a.start \notin Starting
       /\ a.stop \in {"sleep", "delete", "over"} => a.start = "over"
       /\ a.stop = "player" => "microphone" \notin a.on
       /\ a.stop \in {"wait", "sleep", "delete", "over"} => a.on = {}
       /\ a.stop \in {"delete", "over"} => a.calling = {}

AudioInv == AudioTypeOK /\ \A c \in Calls : Sound(audio[c])

(* A step of one call's audio needs to be looked at for that call only.    *)
LEMMA BecomeSound ==
  ASSUME AudioInv, NEW c \in Calls, NEW new \in Audio, Sound(new),
         Become(c, new)
  PROVE  AudioInv'
<1>1. audio' = [audio EXCEPT ![c] = new] /\ audio \in [Calls -> Audio]
  BY DEF Become, AudioInv, AudioTypeOK
<1>2. \A d \in Calls : audio'[d] = IF d = c THEN new ELSE audio[d]
  BY <1>1
<1>3. \A d \in Calls : Sound(audio'[d])
  BY <1>2 DEF AudioInv
<1>4. audio' \in [Calls -> Audio]
  BY <1>1
<1> QED BY <1>3, <1>4 DEF AudioInv, AudioTypeOK

(* A step of start() or of a callback, which touches the object: it is not *)
(* there any more only if stop() was hurried.                              *)
LEMMA UseSound ==
  ASSUME AudioInv, NEW c \in Calls, NEW new \in Audio,
         audio[c].object # "deleted" => Sound(new),
         audio[c].object = "deleted" => audio[c].hurried,
         Use(c, new)
  PROVE  AudioInv'
<1>1. audio[c] \in Audio /\ Sound(audio[c])
  BY DEF AudioInv, AudioTypeOK
<1>2. CASE audio[c].object = "deleted"
  <2> DEFINE wrong == [audio[c] EXCEPT !.misused = TRUE]
  <2>1. wrong \in Audio
    BY <1>1 DEF Audio
  <2>2. Sound(wrong)
    BY <1>1, <1>2 DEF Audio, Sound
  <2>3. Become(c, wrong)
    BY <1>2 DEF Use
  <2> QED BY <2>1, <2>2, <2>3, BecomeSound
<1>3. CASE audio[c].object # "deleted"
  BY <1>3, BecomeSound DEF Use
<1> QED BY <1>2, <1>3

LEMMA StartStepInv ==
  ASSUME AudioInv, NEW c \in Calls, StartRunning(c) \/ StartStep(c)
  PROVE  AudioInv'
<1> DEFINE a == audio[c]
<1>1. a \in Audio /\ Sound(a)
  BY DEF AudioInv, AudioTypeOK
<1>2. CASE StartRunning(c)
  <2> DEFINE new == [a EXCEPT !.running = TRUE, !.start = "unfinish"]
  <2>1. new \in Audio
    BY <1>1 DEF Audio, StartSteps
  <2>2. a.start = "no" /\ a.object # "none" /\ Use(c, new)
    BY <1>2 DEF StartRunning
  <2>3. a.object = "deleted" => a.hurried
    BY <1>1, <2>2 DEF Sound, Starting, Audio
  <2>4. Sound(new)
    BY <1>1, <2>2 DEF Sound, Starting, Audio
  <2> QED BY <2>1, <2>2, <2>3, <2>4, UseSound
<1>3. CASE StartUnfinished(c)
  <2> DEFINE new == [a EXCEPT !.finished = FALSE, !.start = "engine"]
  <2>1. new \in Audio
    BY <1>1 DEF Audio, StartSteps
  <2>2. a.start = "unfinish" /\ Use(c, new)
    BY <1>3 DEF StartUnfinished
  <2>3. a.object = "deleted" => a.hurried
    BY <1>1, <2>2 DEF Sound, Starting, Audio
  <2>4. Sound(new)
    BY <1>1, <2>2 DEF Sound, Starting, Audio
  <2> QED BY <2>1, <2>2, <2>3, <2>4, UseSound
<1>4. CASE StartEngine(c)
  <2>1. PICK next \in {"microphone", "failed"} :
          Use(c, [a EXCEPT !.start = next])
    BY <1>4 DEF StartEngine
  <2> DEFINE new == [a EXCEPT !.start = next]
  <2>2. new \in Audio
    BY <1>1 DEF Audio, StartSteps
  <2>3. a.start = "engine"
    BY <1>4 DEF StartEngine
  <2>4. a.object = "deleted" => a.hurried
    BY <1>1, <2>3 DEF Sound, Starting, Audio
  <2>5. Sound(new)
    BY <1>1, <2>3 DEF Sound, Starting, Audio
  <2> QED BY <2>1, <2>2, <2>4, <2>5, UseSound
<1>5. ASSUME NEW d \in Devices, StartDevice(c, d) PROVE AudioInv'
  <2> DEFINE next == IF d = "microphone" THEN "player" ELSE "loop"
             up   == [a EXCEPT !.on = a.on \cup {d}, !.start = next]
             down == [a EXCEPT !.start = "failed"]
  <2>1. up \in Audio /\ down \in Audio
    BY <1>1 DEF Audio, StartSteps, Devices
  <2>2. a.start = d /\ (Use(c, up) \/ Use(c, down))
    BY <1>5 DEF StartDevice
  <2>3. a.start \in {"microphone", "player"}
    BY <2>2 DEF Devices
  <2>4. a.object = "deleted" => a.hurried
    BY <1>1, <2>3 DEF Sound, Starting, Audio
  <2>5. a.stop # "no" => a.hurried
    BY <1>1, <2>3 DEF Sound, Starting
  <2>6. a.object # "deleted" => Sound(up)
    BY <1>1, <2>3, <2>5 DEF Sound, Starting, Audio, StopSteps
  <2>7. Sound(down)
    BY <1>1, <2>3, <2>5 DEF Sound, Starting, Audio
  <2> QED BY <2>1, <2>2, <2>4, <2>6, <2>7, UseSound
<1>6. CASE Loop(c)
  <2> DEFINE new == IF a.running
                    THEN [a EXCEPT !.start = "receive"]
                    ELSE [a EXCEPT !.finished = TRUE, !.start = "over"]
  <2>1. new \in Audio
    BY <1>1 DEF Audio, StartSteps
  <2>2. a.start = "loop" /\ Use(c, new)
    BY <1>6 DEF Loop
  <2>3. a.object = "deleted" => a.hurried
    BY <1>1, <2>2 DEF Sound, Starting, Audio
  <2>4. Sound(new)
    BY <1>1, <2>2 DEF Sound, Starting, Audio
  <2> QED BY <2>1, <2>2, <2>3, <2>4, UseSound
<1>7. CASE ReceiveReturns(c)
  <2> DEFINE new == [a EXCEPT !.start = "loop"]
  <2>1. new \in Audio
    BY <1>1 DEF Audio, StartSteps
  <2>2. a.start = "receive" /\ Use(c, new)
    BY <1>7 DEF ReceiveReturns
  <2>3. a.object = "deleted" => a.hurried
    BY <1>1, <2>2 DEF Sound, Starting, Audio
  <2>4. Sound(new)
    BY <1>1, <2>2 DEF Sound, Starting, Audio
  <2> QED BY <2>1, <2>2, <2>3, <2>4, UseSound
<1> QED BY <1>2, <1>3, <1>4, <1>5, <1>6, <1>7 DEF StartStep

LEMMA CallbackInv ==
  ASSUME AudioInv, NEW c \in Calls, NEW d \in Devices,
         CallBack(c, d) \/ CallbackEnds(c, d)
  PROVE  AudioInv'
<1> DEFINE a     == audio[c]
           begun == [a EXCEPT !.calling = a.calling \cup {d}]
           ended == [a EXCEPT !.calling = a.calling \ {d}]
<1>1. a \in Audio /\ Sound(a)
  BY DEF AudioInv, AudioTypeOK
<1>2. begun \in Audio /\ ended \in Audio
  BY <1>1 DEF Audio
<1>3. CASE CallBack(c, d)
  <2>1. d \in a.on /\ Use(c, begun)
    BY <1>3 DEF CallBack
  <2>2. a.object = "deleted" => a.hurried
    BY <1>1, <2>1 DEF Sound
  <2>3. Sound(begun)
    BY <1>1, <2>1 DEF Sound, Starting, Audio
  <2> QED BY <1>2, <2>1, <2>2, <2>3, UseSound
<1>4. CASE CallbackEnds(c, d)
  <2>1. d \in a.calling /\ Use(c, ended)
    BY <1>4 DEF CallbackEnds
  <2>2. a.object = "deleted" => a.hurried
    BY <1>1, <2>1 DEF Sound
  <2>3. Sound(ended)
    BY <1>1, <2>1 DEF Sound, Starting, Audio
  <2> QED BY <1>2, <2>1, <2>2, <2>3, UseSound
<1> QED BY <1>3, <1>4

LEMMA OwnerInv ==
  ASSUME AudioInv, NEW c \in Calls,
         \/ Build(c)
         \/ /\ audio[c].stop = "no" \/ audio[c].start = "no"
            /\ \E enabled \in BOOLEAN : SetNativeMute(c, enabled)
  PROVE  AudioInv'
<1> DEFINE a     == audio[c]
           built == [a EXCEPT !.object = "built"]
<1>1. a \in Audio /\ Sound(a)
  BY DEF AudioInv, AudioTypeOK
<1>2. CASE Build(c)
  <2>1. built \in Audio /\ a.object = "none" /\ Become(c, built)
    BY <1>1, <1>2 DEF Audio, Build
  <2>2. Sound(built)
    BY <1>1, <2>1 DEF Sound, Starting, Audio
  <2> QED BY <2>1, <2>2, BecomeSound
<1>3. ASSUME NEW enabled \in BOOLEAN, SetNativeMute(c, enabled),
             a.stop = "no" \/ a.start = "no"
      PROVE  AudioInv'
  <2> DEFINE new == [a EXCEPT !.muted = enabled]
  <2>1. new \in Audio /\ Use(c, new)
    BY <1>1, <1>3 DEF Audio, SetNativeMute
  <2>2. a.object = "deleted" => a.hurried
    BY <1>1, <1>3 DEF Sound, Starting
  <2>3. Sound(new)
    BY <1>1 DEF Sound, Starting, Audio
  <2> QED BY <2>1, <2>2, <2>3, UseSound
<1> QED BY <1>2, <1>3

LEMMA StopInv ==
  ASSUME AudioInv, NEW c \in Calls, StopRunning(c) \/ StopStep(c)
  PROVE  AudioInv'
<1> DEFINE a == audio[c]
<1>1. a \in Audio /\ Sound(a)
  BY DEF AudioInv, AudioTypeOK
<1>2. CASE StopRunning(c)
  <2> DEFINE late == a.hurried \/ a.start \in Starting
             new  == [a EXCEPT !.running = FALSE, !.stop = "microphone",
                               !.hurried = late]
  <2>1. late \in BOOLEAN
    OBVIOUS
  <2>2. new \in Audio
    BY <1>1, <2>1 DEF Audio, StopSteps
  <2>3. a.object = "built" /\ a.stop = "no" /\ Become(c, new)
    BY <1>2 DEF StopRunning
  <2>4. Sound(new)
    BY <1>1, <2>3 DEF Sound, Starting, Audio
  <2> QED BY <2>2, <2>3, <2>4, BecomeSound
<1>3. ASSUME NEW d \in Devices, StopDevice(c, d) PROVE AudioInv'
  <2> DEFINE next  == IF d = "microphone" THEN "player" ELSE "wait"
             down  == [a EXCEPT !.on = a.on \ {d}, !.stop = next]
             wrong == [a EXCEPT !.misused = TRUE]
  <2>1. down \in Audio /\ wrong \in Audio
    BY <1>1 DEF Audio, StopSteps
  <2>2. /\ a.stop = d
        /\ Become(c, down) \/ (a.start = d /\ Become(c, wrong))
    BY <1>3 DEF StopDevice
  <2>3. Sound(down)
    BY <1>1, <2>2 DEF Sound, Starting, Audio, Devices
  <2>4. a.start = d => Sound(wrong)
    BY <1>1, <2>2 DEF Sound, Starting, Audio, Devices
  <2> QED BY <2>1, <2>2, <2>3, <2>4, BecomeSound
<1>4. CASE Waited(c)
  <2> DEFINE new == [a EXCEPT !.stop = "sleep"]
  <2>1. new \in Audio /\ a.stop = "wait" /\ a.finished /\ Become(c, new)
    BY <1>1, <1>4 DEF Audio, StopSteps, Waited
  <2>2. ~a.hurried => a.start = "over"
    BY <1>1, <2>1 DEF Sound, Starting, Audio, StartSteps
  <2>3. Sound(new)
    BY <1>1, <2>1, <2>2 DEF Sound, Starting, Audio
  <2> QED BY <2>1, <2>3, BecomeSound
<1>5. CASE Slept(c)
  <2> DEFINE new == [a EXCEPT !.stop = "delete"]
  <2>1. new \in Audio /\ Become(c, new)
    BY <1>1, <1>5 DEF Audio, StopSteps, Slept
  <2>2. a.stop = "sleep" /\ a.calling \subseteq a.on
    BY <1>5 DEF Slept
  <2>3. ~a.hurried => a.calling = {}
    BY <1>1, <2>2 DEF Sound
  <2>4. Sound(new)
    BY <1>1, <2>2, <2>3 DEF Sound, Starting, Audio
  <2> QED BY <2>1, <2>4, BecomeSound
<1>6. CASE Delete(c)
  <2> DEFINE new == [a EXCEPT !.object = "deleted", !.on = {}, !.stop = "over"]
  <2>1. new \in Audio /\ a.stop = "delete" /\ Become(c, new)
    BY <1>1, <1>6 DEF Audio, StopSteps, Delete
  <2>2. Sound(new)
    BY <1>1, <2>1 DEF Sound, Starting, Audio
  <2> QED BY <2>1, <2>2, BecomeSound
<1> QED BY <1>2, <1>3, <1>4, <1>5, <1>6 DEF StopStep

LEMMA AudioInductiveStep ==
  ASSUME AudioInv, [AudioNext]_audio
  PROVE  AudioInv'
<1>1. CASE UNCHANGED audio
  BY <1>1 DEF AudioInv, AudioTypeOK, Sound
<1>2. CASE AudioNext
  BY <1>2, StartStepInv, CallbackInv, OwnerInv, StopInv DEF AudioNext
<1> QED BY <1>1, <1>2

LEMMA AudioInitInv == AudioInit => AudioInv
<1> SUFFICES ASSUME AudioInit PROVE AudioInv
  OBVIOUS
<1>1. NoAudio \in Audio
  BY DEF NoAudio, Audio, StartSteps, StopSteps, Devices
<1>2. Sound(NoAudio)
  BY DEF NoAudio, Sound, Starting
<1> QED BY <1>1, <1>2 DEF AudioInit, AudioInv, AudioTypeOK

LEMMA SoundIsSafe == AudioInv => SafeTeardown
  BY DEF AudioInv, AudioTypeOK, Audio, Sound, SafeTeardown
-----------------------------------------------------------------------------
(* The calls of the service                                                *)

(* Where a call thread has made no audio yet; and what ties the service's  *)
(* end of a call to stop(): it begins only while that call is the current  *)
(* one, which then stays so until it is over.                              *)
Silent == {"new", "connect", "signals", "ring", "negotiate", "report", "check",
           "create"}

Tied(c) ==
  /\ thread[c] \in Silent => audio[c].object = "none"
  /\ thread[c] = "mute" => audio[c].start = "no"
  /\ currentCallManager = c /\ endStep = "no" => audio[c].stop = "no"

CallInv ==
  /\ thread \in [Calls -> Places]
  /\ currentCallManager \in Calls \cup {None}
  /\ currentCallManager = None => endStep \in {"no", "clear"}
  /\ \A c \in Calls : Tied(c)

ServiceInv == AudioInv /\ CallInv

(* Until an object is built, there is no start() and no stop().            *)
LEMMA SilentCall ==
  ASSUME ServiceInv, NEW c \in Calls, thread[c] \in Silent
  PROVE  /\ audio[c].object = "none"
         /\ audio[c].start = "no" /\ audio[c].stop = "no"
BY DEF ServiceInv, CallInv, Tied, AudioInv, Sound

LEMMA GoPlace ==
  ASSUME thread \in [Calls -> Places], NEW c \in Calls, NEW place \in Places,
         Go(c, place)
  PROVE  /\ thread' \in [Calls -> Places]
         /\ \A d \in Calls : thread'[d] = IF d = c THEN place ELSE thread[d]
BY DEF Go

(* What most steps do: the audio and the service's end of calls are left   *)
(* alone, and a call thread goes on to a place its audio allows.           *)
LEMMA PassInv ==
  ASSUME ServiceInv, UNCHANGED <<audio, currentCallManager, endStep>>,
         NEW c \in Calls, NEW place \in Places \ {"mute"}, Go(c, place),
         place \in Silent => thread[c] \in Silent
  PROVE  ServiceInv' /\ [AudioNext]_audio
<1>1. /\ thread' \in [Calls -> Places]
      /\ \A d \in Calls : thread'[d] = IF d = c THEN place ELSE thread[d]
  BY GoPlace DEF ServiceInv, CallInv
<1>2. AudioInv'
  BY AudioInductiveStep DEF ServiceInv
<1>3. ASSUME NEW d \in Calls PROVE Tied(d)'
  BY <1>1 DEF ServiceInv, CallInv, Tied
<1> QED BY <1>1, <1>2, <1>3 DEF ServiceInv, CallInv

(* Likewise when no call thread moves.                                     *)
LEMMA RestInv ==
  ASSUME ServiceInv, UNCHANGED <<audio, currentCallManager, thread>>,
         endStep' = "no" => endStep = "no",
         currentCallManager = None => endStep' \in {"no", "clear"}
  PROVE  ServiceInv' /\ [AudioNext]_audio
<1>1. AudioInv'
  BY AudioInductiveStep DEF ServiceInv
<1>2. ASSUME NEW d \in Calls PROVE Tied(d)'
  BY <1>2 DEF ServiceInv, CallInv, Tied
<1> QED BY <1>1, <1>2 DEF ServiceInv, CallInv

(* A step of the audio of one call needs to be looked at for that call.    *)
LEMMA MoveInv ==
  ASSUME ServiceInv, AudioNext, NEW c \in Calls,
         \A d \in Calls \ {c} : audio'[d] = audio[d] /\ thread'[d] = thread[d],
         thread' \in [Calls -> Places], Tied(c)',
         UNCHANGED currentCallManager,
         endStep' = "no" => endStep = "no",
         currentCallManager = None => endStep' \in {"no", "clear"}
  PROVE  ServiceInv'
<1>1. AudioInv'
  BY AudioInductiveStep DEF ServiceInv
<1>2. ASSUME NEW d \in Calls PROVE Tied(d)'
  BY <1>2 DEF ServiceInv, CallInv, Tied
<1> QED BY <1>1, <1>2 DEF ServiceInv, CallInv

LEMMA BecomeOne ==
  ASSUME AudioInv, NEW c \in Calls, NEW new, Become(c, new)
  PROVE  \A d \in Calls : audio'[d] = IF d = c THEN new ELSE audio[d]
BY DEF Become, AudioInv, AudioTypeOK

(* What start(), the callbacks and the mute switch leave alone.            *)
LEMMA UseOne ==
  ASSUME AudioInv, NEW c \in Calls, NEW new \in Audio, Use(c, new),
         new.object = audio[c].object, new.stop = audio[c].stop
  PROVE  /\ \A d \in Calls \ {c} : audio'[d] = audio[d]
         /\ audio'[c].object = audio[c].object
         /\ audio'[c].stop = audio[c].stop
         /\ new.start = audio[c].start => audio'[c].start = audio[c].start
         /\ new.muted = audio[c].muted => audio'[c].muted = audio[c].muted
<1> DEFINE wrong == [audio[c] EXCEPT !.misused = TRUE]
           one   == IF audio[c].object = "deleted" THEN wrong ELSE new
<1>1. Become(c, one)
  BY DEF Use
<1>2. audio'[c] = one /\ \A d \in Calls \ {c} : audio'[d] = audio[d]
  BY <1>1, BecomeOne
<1>3. audio[c] \in Audio
  BY DEF AudioInv, AudioTypeOK
<1>4. /\ wrong.object = audio[c].object /\ wrong.stop = audio[c].stop
      /\ wrong.start = audio[c].start /\ wrong.muted = audio[c].muted
  BY <1>3 DEF Audio
<1> QED BY <1>2, <1>4

LEMMA StartOne ==
  ASSUME AudioInv, NEW c \in Calls, StartRunning(c) \/ StartStep(c)
  PROVE  /\ \A d \in Calls \ {c} : audio'[d] = audio[d]
         /\ audio'[c].object = audio[c].object
         /\ audio'[c].stop = audio[c].stop
         /\ audio'[c].muted = audio[c].muted
<1> DEFINE a == audio[c]
<1>1. a \in Audio
  BY DEF AudioInv, AudioTypeOK
<1>2. PICK new \in Audio : /\ Use(c, new)
                           /\ new.object = a.object /\ new.stop = a.stop
                           /\ new.muted = a.muted
  <2>1. CASE StartRunning(c)
    <3> DEFINE one == [a EXCEPT !.running = TRUE, !.start = "unfinish"]
    <3>1. one \in Audio /\ one.object = a.object /\ one.stop = a.stop
          /\ one.muted = a.muted
      BY <1>1 DEF Audio, StartSteps
    <3> QED BY <2>1, <3>1 DEF StartRunning
  <2>2. CASE StartUnfinished(c)
    <3> DEFINE one == [a EXCEPT !.finished = FALSE, !.start = "engine"]
    <3>1. one \in Audio /\ one.object = a.object /\ one.stop = a.stop
          /\ one.muted = a.muted
      BY <1>1 DEF Audio, StartSteps
    <3> QED BY <2>2, <3>1 DEF StartUnfinished
  <2>3. CASE StartEngine(c)
    <3>1. PICK next \in {"microphone", "failed"} :
            Use(c, [a EXCEPT !.start = next])
      BY <2>3 DEF StartEngine
    <3> DEFINE one == [a EXCEPT !.start = next]
    <3>2. one \in Audio /\ one.object = a.object /\ one.stop = a.stop
          /\ one.muted = a.muted
      BY <1>1 DEF Audio, StartSteps
    <3> QED BY <3>1, <3>2
  <2>4. ASSUME NEW d \in Devices, StartDevice(c, d)
        PROVE  \E new \in Audio : /\ Use(c, new) /\ new.object = a.object
                                  /\ new.stop = a.stop /\ new.muted = a.muted
    <3> DEFINE next == IF d = "microphone" THEN "player" ELSE "loop"
               up   == [a EXCEPT !.on = a.on \cup {d}, !.start = next]
               down == [a EXCEPT !.start = "failed"]
    <3>1. /\ up \in Audio /\ up.object = a.object /\ up.stop = a.stop
          /\ down \in Audio /\ down.object = a.object /\ down.stop = a.stop
          /\ up.muted = a.muted /\ down.muted = a.muted
      BY <1>1 DEF Audio, StartSteps, Devices
    <3>2. Use(c, up) \/ Use(c, down)
      BY <2>4 DEF StartDevice
    <3> QED BY <3>1, <3>2
  <2>5. CASE Loop(c)
    <3> DEFINE one == IF a.running
                      THEN [a EXCEPT !.start = "receive"]
                      ELSE [a EXCEPT !.finished = TRUE, !.start = "over"]
    <3>1. one \in Audio /\ one.object = a.object /\ one.stop = a.stop
          /\ one.muted = a.muted
      BY <1>1 DEF Audio, StartSteps
    <3> QED BY <2>5, <3>1 DEF Loop
  <2>6. CASE ReceiveReturns(c)
    <3> DEFINE one == [a EXCEPT !.start = "loop"]
    <3>1. one \in Audio /\ one.object = a.object /\ one.stop = a.stop
          /\ one.muted = a.muted
      BY <1>1 DEF Audio, StartSteps
    <3> QED BY <2>6, <3>1 DEF ReceiveReturns
  <2> QED BY <2>1, <2>2, <2>3, <2>4, <2>5, <2>6 DEF StartStep
<1> QED BY <1>2, UseOne

LEMMA StopOne ==
  ASSUME AudioInv, NEW c \in Calls, StopRunning(c) \/ StopStep(c)
  PROVE  /\ \A d \in Calls \ {c} : audio'[d] = audio[d]
         /\ audio'[c].start = audio[c].start
         /\ audio'[c].muted = audio[c].muted
         /\ audio[c].object # "none" /\ audio'[c].object # "none"
<1> DEFINE a == audio[c]
<1>1. a \in Audio /\ Sound(a)
  BY DEF AudioInv, AudioTypeOK
<1>2. PICK new : /\ Become(c, new) /\ new.start = a.start /\ new.muted = a.muted
                 /\ a.object # "none" /\ new.object # "none"
  <2>1. CASE StopRunning(c)
    <3> DEFINE late == a.hurried \/ a.start \in Starting
               one  == [a EXCEPT !.running = FALSE, !.stop = "microphone",
                                 !.hurried = late]
    <3>1. one.start = a.start /\ one.object = a.object /\ one.muted = a.muted
      BY <1>1 DEF Audio
    <3>2. a.object = "built" /\ Become(c, one)
      BY <2>1 DEF StopRunning
    <3> QED BY <3>1, <3>2
  <2>2. ASSUME NEW d \in Devices, StopDevice(c, d)
        PROVE  \E new : /\ Become(c, new) /\ new.start = a.start /\ new.muted = a.muted
                        /\ a.object # "none" /\ new.object # "none"
    <3> DEFINE next  == IF d = "microphone" THEN "player" ELSE "wait"
               down  == [a EXCEPT !.on = a.on \ {d}, !.stop = next]
               wrong == [a EXCEPT !.misused = TRUE]
    <3>1. /\ down.start = a.start /\ down.object = a.object
          /\ wrong.start = a.start /\ wrong.object = a.object
          /\ down.muted = a.muted /\ wrong.muted = a.muted
      BY <1>1 DEF Audio
    <3>2. a.stop = d /\ (Become(c, down) \/ Become(c, wrong))
      BY <2>2 DEF StopDevice
    <3>3. a.object # "none"
      BY <1>1, <3>2 DEF Sound, Devices
    <3> QED BY <3>1, <3>2, <3>3
  <2>3. CASE Waited(c)
    <3> DEFINE one == [a EXCEPT !.stop = "sleep"]
    <3>1. one.start = a.start /\ one.object = a.object /\ one.muted = a.muted
      BY <1>1 DEF Audio
    <3>2. a.object # "none" /\ Become(c, one)
      BY <1>1, <2>3 DEF Waited, Sound
    <3> QED BY <3>1, <3>2
  <2>4. CASE Slept(c)
    <3> DEFINE one == [a EXCEPT !.stop = "delete"]
    <3>1. one.start = a.start /\ one.object = a.object /\ one.muted = a.muted
      BY <1>1 DEF Audio
    <3>2. a.object # "none" /\ Become(c, one)
      BY <1>1, <2>4 DEF Slept, Sound
    <3> QED BY <3>1, <3>2
  <2>5. CASE Delete(c)
    <3> DEFINE one == [a EXCEPT !.object = "deleted", !.on = {},
                                !.stop = "over"]
    <3>1. one.start = a.start /\ one.object = "deleted" /\ one.muted = a.muted
      BY <1>1 DEF Audio
    <3>2. a.object # "none" /\ Become(c, one)
      BY <1>1, <2>5 DEF Delete, Sound
    <3> QED BY <3>1, <3>2
  <2> QED BY <2>1, <2>2, <2>3, <2>4, <2>5 DEF StopStep
<1>3. audio'[c] = new /\ \A d \in Calls \ {c} : audio'[d] = audio[d]
  BY <1>2, BecomeOne
<1> QED BY <1>2, <1>3

(* The service: intents, and the end of a call under the lock.             *)
LEMMA BeginEndInv ==
  ASSUME ServiceInv, NEW who, NEW refused \in BOOLEAN, BeginEnd(who, refused)
  PROVE  ServiceInv' /\ [AudioNext]_audio
<1>1. UNCHANGED <<audio, currentCallManager, thread>>
  BY DEF BeginEnd
<1>2. endStep' \in {"clear", "audio"}
      /\ (currentCallManager = None => endStep' = "clear")
  BY DEF BeginEnd
<1> QED BY <1>1, <1>2, RestInv

LEMMA NewCallInv ==
  ASSUME ServiceInv, NEW c \in Calls, HandleIncomingCall(c) \/ HandleOutgoingCall(c)
  PROVE  ServiceInv' /\ [AudioNext]_audio
<1>1. PICK place \in Silent : Go(c, place)
  BY DEF HandleIncomingCall, HandleOutgoingCall, Silent
<1>2. /\ UNCHANGED <<audio, endStep>> /\ thread[c] = "new"
      /\ endStep = "no" /\ currentCallManager' = c
  BY DEF HandleIncomingCall, HandleOutgoingCall, LockFree
<1>3. audio[c].object = "none" /\ audio[c].stop = "no"
  BY <1>2, SilentCall DEF Silent
<1>4. /\ thread' \in [Calls -> Places]
      /\ \A d \in Calls : thread'[d] = IF d = c THEN place ELSE thread[d]
  BY <1>1, GoPlace DEF ServiceInv, CallInv, Silent, Places
<1>5. AudioInv'
  BY <1>2, AudioInductiveStep DEF ServiceInv
<1>6. ASSUME NEW d \in Calls PROVE Tied(d)'
  <2>1. CASE d = c
    BY <1>2, <1>3, <1>4, <2>1 DEF Tied, Silent
  <2>2. CASE d # c
    BY <1>2, <1>4, <2>2 DEF ServiceInv, CallInv, Tied
  <2> QED BY <2>1, <2>2
<1>7. currentCallManager' # None
  BY <1>2, CallsAssumption
<1> QED BY <1>2, <1>4, <1>5, <1>6, <1>7 DEF ServiceInv, CallInv

LEMMA SetMuteInv ==
  ASSUME ServiceInv, HandleSetMute
  PROVE  ServiceInv' /\ [AudioNext]_audio
<1> DEFINE c == currentCallManager
           enabled == ~muteEnabled[c]
           new == [audio[c] EXCEPT !.muted = enabled]
<1>1. /\ c \in Calls /\ endStep = "no"
      /\ UNCHANGED <<currentCallManager, thread, endStep>>
  BY DEF HandleSetMute, LockFree, ServiceInv, CallInv, serviceVars
<1>2. enabled \in BOOLEAN
  OBVIOUS
<1>3. audio[c].stop = "no" /\ audio[c] \in Audio
  BY <1>1 DEF ServiceInv, CallInv, Tied, AudioInv, AudioTypeOK
<1>4. CASE UNCHANGED audio
  BY <1>1, <1>4, RestInv DEF ServiceInv, CallInv
<1>5. CASE SetNativeMute(c, enabled)
  <2>1. AudioNext
    BY <1>1, <1>2, <1>3, <1>5 DEF AudioNext
  <2>2. new \in Audio /\ new.object = audio[c].object
        /\ new.stop = audio[c].stop /\ new.start = audio[c].start
    BY <1>2, <1>3 DEF Audio
  <2>3. Use(c, new)
    BY <1>5 DEF SetNativeMute
  <2>4. /\ \A d \in Calls \ {c} : audio'[d] = audio[d]
        /\ audio'[c].object = audio[c].object
        /\ audio'[c].stop = audio[c].stop
        /\ audio'[c].start = audio[c].start
    BY <1>1, <2>2, <2>3, UseOne DEF ServiceInv
  <2>5. Tied(c)'
    BY <1>1, <2>4 DEF ServiceInv, CallInv, Tied
  <2> QED BY <1>1, <2>1, <2>4, <2>5, MoveInv DEF ServiceInv, CallInv
<1> QED BY <1>4, <1>5 DEF HandleSetMute

LEMMA EndStepInv ==
  ASSUME ServiceInv, EndStep
  PROVE  ServiceInv' /\ [AudioNext]_audio
<1> DEFINE c == currentCallManager
<1>1. ASSUME endStep \in {"audio", "stopping"}, endStep' # "no",
             StopRunning(c) \/ StopStep(c), UNCHANGED <<currentCallManager, thread>>
      PROVE  ServiceInv' /\ [AudioNext]_audio
  <2>1. c \in Calls
    BY <1>1 DEF ServiceInv, CallInv
  <2>2. AudioNext
    BY <1>1, <2>1 DEF AudioNext
  <2>3. /\ \A d \in Calls \ {c} : audio'[d] = audio[d]
        /\ audio'[c].start = audio[c].start
        /\ audio[c].object # "none" /\ audio'[c].object # "none"
    BY <1>1, <2>1, StopOne DEF ServiceInv
  <2>4. Tied(c)'
    BY <1>1, <2>1, <2>3 DEF ServiceInv, CallInv, Tied
  <2>5. c # None
    BY <2>1, CallsAssumption
  <2> QED BY <1>1, <2>1, <2>2, <2>3, <2>4, <2>5, MoveInv DEF ServiceInv, CallInv
<1>2. CASE EndAudio
  <2>1. endStep = "audio" /\ UNCHANGED <<currentCallManager, thread>>
    BY <1>2 DEF EndAudio, callVars
  <2>2. c # None
    BY <2>1 DEF ServiceInv, CallInv
  <2>3. CASE UNCHANGED audio /\ endStep' = "signals"
    BY <2>1, <2>2, <2>3, RestInv
  <2>4. CASE endStep' = "stopping" /\ StopRunning(c)
    BY <1>1, <2>1, <2>4
  <2> QED BY <1>2, <2>3, <2>4 DEF EndAudio
<1>3. CASE StopAudio
  BY <1>1, <1>3 DEF StopAudio, serviceVars, callVars
<1>4. CASE AudioStopped \/ EndSignals \/ EndSocket
  <2>1. /\ UNCHANGED <<audio, currentCallManager, thread>>
        /\ endStep' \in {"signals", "interrupt", "socket", "clear"}
        /\ endStep \in {"stopping", "signals", "interrupt", "socket"}
    BY <1>4 DEF AudioStopped, EndSignals, EndSocket, callVars
  <2>2. c # None
    BY <2>1 DEF ServiceInv, CallInv
  <2> QED BY <2>1, <2>2, RestInv
<1>5. CASE EndClear
  <2>1. /\ UNCHANGED audio /\ currentCallManager' = None /\ endStep' = "no"
        /\ thread' = thread \/ Go(ender[1], "over")
    BY <1>5 DEF EndClear
  <2>2. AudioInv'
    BY <2>1, AudioInductiveStep DEF ServiceInv
  <2>3. /\ thread' \in [Calls -> Places]
        /\ \A d \in Calls : thread'[d] \in {thread[d], "over"}
    BY <2>1 DEF Go, Places, ServiceInv, CallInv
  <2>4. ASSUME NEW d \in Calls PROVE Tied(d)'
    BY <2>1, <2>3, CallsAssumption DEF ServiceInv, CallInv, Tied, Silent
  <2> QED BY <2>1, <2>2, <2>3, <2>4 DEF ServiceInv, CallInv
<1> QED BY <1>2, <1>3, <1>4, <1>5 DEF EndStep

(* The call threads; what they mute the audio with is a Boolean.           *)
MuteTypeOK == /\ muteEnabled   \in [Calls -> BOOLEAN]
              /\ muteParameter \in [Calls -> BOOLEAN]

LEMMA CallThreadInv ==
  ASSUME ServiceInv, MuteTypeOK, NEW c \in Calls, CallThread(c)
  PROVE  ServiceInv' /\ [AudioNext]_audio
<1>1. ASSUME NEW place \in Places \ {"mute"}, ThreadStep(c, place),
             UNCHANGED audio, place \in Silent => thread[c] \in Silent
      PROVE  ServiceInv' /\ [AudioNext]_audio
  BY <1>1, PassInv DEF ThreadStep, serviceVars
<1>2. CASE Connect(c)
  <2>1. PICK place \in {"failing", "ending", "signals", "negotiate"} :
          ThreadStep(c, place)
    BY <1>2 DEF Connect
  <2> QED BY <1>1, <1>2, <2>1 DEF Connect, Places, Silent
<1>3. CASE StartSignals(c)
  <2>1. PICK place \in {"failing", "ending", "ring", "negotiate"} :
          ThreadStep(c, place)
    BY <1>3 DEF StartSignals
  <2> QED BY <1>1, <1>3, <2>1 DEF StartSignals, Places, Silent
<1>4. CASE WaitForAnswer(c)
  <2>1. PICK place \in {"connect", "over"} : ThreadStep(c, place)
    BY <1>4 DEF WaitForAnswer
  <2> QED BY <1>1, <1>4, <2>1 DEF WaitForAnswer, Places, Silent
<1>5. CASE Negotiate(c)
  <2>1. PICK place \in {"failing", "ending", "report", "over"} :
          ThreadStep(c, place)
    BY <1>5 DEF Negotiate
  <2> QED BY <1>1, <1>5, <2>1 DEF Negotiate, Places, Silent
<1>6. CASE NotifyCallConnected(c)
  BY <1>6, PassInv DEF NotifyCallConnected, Places, Silent
<1>7. CASE CheckTerminated(c)
  <2>1. PICK place \in {"create", "over"} : ThreadStep(c, place)
    BY <1>7 DEF CheckTerminated
  <2> QED BY <1>1, <1>7, <2>1 DEF CheckTerminated, Places, Silent
<1>8. CASE CreateAudio(c)
  <2>1. CASE ThreadStep(c, "ending") /\ UNCHANGED audio
    BY <1>1, <2>1 DEF Places, Silent
  <2>2. CASE Build(c) /\ ThreadStep(c, "mute")
    <3> DEFINE new == [audio[c] EXCEPT !.object = "built"]
    <3>1. Become(c, new) /\ Go(c, "mute") /\ UNCHANGED serviceVars
      BY <2>2 DEF Build, ThreadStep
    <3>2. audio[c] \in Audio /\ audio[c].start = "no" /\ audio[c].stop = "no"
      BY <1>8, SilentCall
         DEF CreateAudio, Silent, ServiceInv, AudioInv, AudioTypeOK
    <3>3. new.start = "no" /\ new.stop = "no"
      BY <3>2 DEF Audio
    <3>4. /\ audio'[c] = new
          /\ \A d \in Calls \ {c} : audio'[d] = audio[d]
      BY <3>1, BecomeOne DEF ServiceInv
    <3>5. /\ thread' \in [Calls -> Places]
          /\ \A d \in Calls : thread'[d] = IF d = c THEN "mute" ELSE thread[d]
      BY <3>1, GoPlace DEF ServiceInv, CallInv, Places
    <3>6. Tied(c)'
      BY <3>3, <3>4, <3>5 DEF Tied, Silent
    <3>7. AudioNext
      BY <2>2 DEF AudioNext
    <3> QED BY <3>1, <3>4, <3>5, <3>6, <3>7, MoveInv
            DEF ServiceInv, CallInv, serviceVars
  <2> QED BY <1>8, <2>1, <2>2 DEF CreateAudio
<1>9. CASE MuteAudio(c)
  <2> DEFINE enabled == muteParameter[c]
             new == [audio[c] EXCEPT !.muted = enabled]
  <2>1. /\ thread[c] = "mute" /\ SetNativeMute(c, enabled)
        /\ Go(c, "audio") /\ UNCHANGED serviceVars
    BY <1>9 DEF MuteAudio, ThreadStep
  <2>2. audio[c].start = "no" /\ audio[c] \in Audio
    BY <2>1 DEF ServiceInv, CallInv, Tied, AudioInv, AudioTypeOK
  <2>3. enabled \in BOOLEAN
    BY DEF MuteTypeOK
  <2>4. AudioNext
    BY <2>1, <2>2, <2>3 DEF AudioNext
  <2>5. /\ new \in Audio /\ new.object = audio[c].object
        /\ new.stop = audio[c].stop /\ new.start = audio[c].start
    BY <2>2, <2>3 DEF Audio
  <2>6. Use(c, new)
    BY <2>1 DEF SetNativeMute
  <2>7. /\ \A d \in Calls \ {c} : audio'[d] = audio[d]
        /\ audio'[c].stop = audio[c].stop
    BY <2>5, <2>6, UseOne DEF ServiceInv
  <2>8. /\ thread' \in [Calls -> Places]
        /\ \A d \in Calls : thread'[d] = IF d = c THEN "audio" ELSE thread[d]
    BY <2>1, GoPlace DEF ServiceInv, CallInv, Places
  <2>9. Tied(c)'
    BY <2>1, <2>7, <2>8 DEF ServiceInv, CallInv, Tied, Silent, serviceVars
  <2> QED BY <2>1, <2>4, <2>7, <2>8, <2>9, MoveInv
          DEF ServiceInv, CallInv, serviceVars
<1>10. CASE RunAudio(c)
  <2>1. /\ thread[c] = "audio" /\ (StartRunning(c) \/ StartStep(c))
        /\ UNCHANGED <<thread, currentCallManager, endStep>>
    BY <1>10 DEF RunAudio, serviceVars, callVars
  <2>2. AudioNext
    BY <2>1 DEF AudioNext
  <2>3. /\ \A d \in Calls \ {c} : audio'[d] = audio[d]
        /\ audio'[c].stop = audio[c].stop
    BY <2>1, StartOne DEF ServiceInv
  <2>4. Tied(c)'
    BY <2>1, <2>3 DEF ServiceInv, CallInv, Tied, Silent
  <2> QED BY <2>1, <2>2, <2>3, <2>4, MoveInv DEF ServiceInv, CallInv
<1>11. CASE AudioReturns(c)
  <2>1. PICK place \in {"ending", "over"} : ThreadStep(c, place)
    BY <1>11 DEF AudioReturns
  <2> QED BY <1>1, <1>11, <2>1 DEF AudioReturns, Places, Silent
<1>12. CASE Fail(c)
  BY <1>12, PassInv DEF Fail, Places, Silent
<1>13. CASE ThreadEnds(c)
  BY <1>13, BeginEndInv DEF ThreadEnds
<1> QED BY <1>2, <1>3, <1>4, <1>5, <1>6, <1>7, <1>8, <1>9, <1>10, <1>11,
           <1>12, <1>13 DEF CallThread

LEMMA DeviceOne ==
  ASSUME AudioInv, NEW c \in Calls,
         \E d \in Devices : CallBack(c, d) \/ CallbackEnds(c, d)
  PROVE  /\ \A e \in Calls \ {c} : audio'[e] = audio[e]
         /\ audio'[c].object = audio[c].object
         /\ audio'[c].stop = audio[c].stop
         /\ audio'[c].start = audio[c].start
         /\ audio'[c].muted = audio[c].muted
<1>1. PICK d \in Devices : CallBack(c, d) \/ CallbackEnds(c, d)
  OBVIOUS
<1> DEFINE begun == [audio[c] EXCEPT !.calling = audio[c].calling \cup {d}]
           ended == [audio[c] EXCEPT !.calling = audio[c].calling \ {d}]
<1>2. audio[c] \in Audio
  BY DEF AudioInv, AudioTypeOK
<1>3. /\ begun \in Audio /\ begun.object = audio[c].object
      /\ begun.stop = audio[c].stop /\ begun.start = audio[c].start
      /\ ended \in Audio /\ ended.object = audio[c].object
      /\ ended.stop = audio[c].stop /\ ended.start = audio[c].start
      /\ begun.muted = audio[c].muted /\ ended.muted = audio[c].muted
  BY <1>2 DEF Audio
<1>4. Use(c, begun) \/ Use(c, ended)
  BY <1>1 DEF CallBack, CallbackEnds
<1> QED BY <1>3, <1>4, UseOne

LEMMA DeviceCallsInv ==
  ASSUME ServiceInv, NEW c \in Calls, DeviceCalls(c)
  PROVE  ServiceInv' /\ [AudioNext]_audio
<1>1. /\ \A e \in Calls \ {c} : audio'[e] = audio[e]
      /\ audio'[c].object = audio[c].object
      /\ audio'[c].stop = audio[c].stop
      /\ audio'[c].start = audio[c].start
  BY DeviceOne DEF DeviceCalls, ServiceInv
<1>2. UNCHANGED <<thread, currentCallManager, endStep>>
  BY DEF DeviceCalls, serviceVars, callVars
<1>3. Tied(c)'
  BY <1>1, <1>2 DEF ServiceInv, CallInv, Tied
<1>4. AudioNext
  BY DEF AudioNext, DeviceCalls
<1> QED BY <1>1, <1>2, <1>3, <1>4, MoveInv DEF ServiceInv, CallInv

LEMMA MuteTyped ==
  ASSUME MuteTypeOK, [Next]_vars
  PROVE  MuteTypeOK'
<1>1. CASE UNCHANGED <<muteEnabled, muteParameter>>
  BY <1>1 DEF MuteTypeOK
<1>2. CASE HandleSetMute
  <2> DEFINE c == currentCallManager
             enabled == ~muteEnabled[c]
  <2>1. enabled \in BOOLEAN
    OBVIOUS
  <2>2. muteEnabled' = [muteEnabled EXCEPT ![c] = enabled]
        /\ UNCHANGED muteParameter
    BY <1>2 DEF HandleSetMute
  <2> HIDE DEF enabled
  <2> QED BY <2>1, <2>2 DEF MuteTypeOK
<1>3. ASSUME NEW c \in Calls, CheckTerminated(c) PROVE MuteTypeOK'
  BY <1>3 DEF CheckTerminated, ThreadStep, MuteTypeOK
<1>4. ASSUME NEW c \in Calls, CallThread(c)
      PROVE  UNCHANGED <<muteEnabled, muteParameter>> \/ CheckTerminated(c)
  BY <1>4 DEF CallThread, Connect, StartSignals, WaitForAnswer, Negotiate,
     NotifyCallConnected, CreateAudio, MuteAudio, RunAudio, AudioReturns, Fail,
     ThreadEnds, BeginEnd, ThreadStep, callVars
<1>5. EndStep => UNCHANGED <<muteEnabled, muteParameter>>
  BY DEF EndStep, EndAudio, StopAudio, AudioStopped, EndSignals, EndSocket,
     EndClear, callVars
<1>6. ASSUME NEW c \in Calls, \/ HandleIncomingCall(c) \/ HandleOutgoingCall(c)
                              \/ ListenerEnds(c) \/ Listens(c)
                              \/ ServerSends(c) \/ RemoteSignal(c) \/ DeviceCalls(c)
      PROVE  UNCHANGED <<muteEnabled, muteParameter>>
  BY <1>6 DEF HandleIncomingCall, HandleOutgoingCall, ListenerEnds, BeginEnd,
     Listens, ServerSends, RemoteSignal, DeviceCalls, callVars
<1>7. HandleAnswerCall \/ HandleHangupCall \/ HandleDenyCall \/ BusyTimerFires
        => UNCHANGED <<muteEnabled, muteParameter>>
  BY DEF HandleAnswerCall, HandleHangupCall, HandleDenyCall, BusyTimerFires,
     BeginEnd
<1>8. UNCHANGED vars => UNCHANGED <<muteEnabled, muteParameter>>
  BY DEF vars, callVars
<1> QED BY <1>1, <1>2, <1>3, <1>4, <1>5, <1>6, <1>7, <1>8 DEF Next

LEMMA ServiceStep ==
  ASSUME ServiceInv, MuteTypeOK, [Next]_vars
  PROVE  ServiceInv' /\ [AudioNext]_audio
<1>1. CASE HandleAnswerCall
  BY <1>1, RestInv DEF HandleAnswerCall, ServiceInv, CallInv
<1>2. CASE HandleHangupCall \/ HandleDenyCall \/ BusyTimerFires
  BY <1>2, BeginEndInv DEF HandleHangupCall, HandleDenyCall, BusyTimerFires
<1>3. ASSUME NEW c \in Calls, ListenerEnds(c)
      PROVE  ServiceInv' /\ [AudioNext]_audio
  BY <1>3, BeginEndInv DEF ListenerEnds
<1>4. ASSUME NEW c \in Calls, Listens(c) \/ ServerSends(c) \/ RemoteSignal(c)
      PROVE  ServiceInv' /\ [AudioNext]_audio
  BY <1>4, RestInv DEF Listens, ServerSends, RemoteSignal, serviceVars, callVars,
     ServiceInv, CallInv
<1>5. CASE UNCHANGED vars
  BY <1>5, RestInv DEF vars, serviceVars, callVars, ServiceInv, CallInv
<1> QED BY <1>1, <1>2, <1>3, <1>4, <1>5, NewCallInv, SetMuteInv, EndStepInv,
           CallThreadInv, DeviceCallsInv DEF Next

(* The service's calls use the audio as CallAudio asks: a step of the      *)
(* service is a step of the audio of one call, or leaves it alone.         *)
THEOREM CallsKeepToAudio == Spec => AudioSpec /\ [](ServiceInv /\ MuteTypeOK)
<1>1. Init => AudioInit /\ ServiceInv /\ MuteTypeOK
  <2> SUFFICES ASSUME Init PROVE AudioInit /\ ServiceInv /\ MuteTypeOK
    OBVIOUS
  <2>1. AudioInit /\ AudioInv
    BY AudioInitInv DEF Init
  <2>2. MuteTypeOK
    BY DEF Init, MuteTypeOK
  <2>3. CallInv
    BY CallsAssumption DEF Init, CallInv, Tied, Silent, Places, AudioInit, NoAudio
  <2> QED BY <2>1, <2>2, <2>3 DEF ServiceInv
<1>2. ServiceInv /\ MuteTypeOK /\ [Next]_vars
        => ServiceInv' /\ MuteTypeOK' /\ [AudioNext]_audio
  BY ServiceStep, MuteTyped
<1> QED BY <1>1, <1>2, PTL DEF Spec, AudioSpec

(* The audio of a call is never touched after it was deleted, if its loop  *)
(* was reached before the call was ended: for any number of calls, and     *)
(* however the end of one overlaps with another's.                         *)
THEOREM TeardownIsSafe == Spec => []SafeTeardown
BY CallsKeepToAudio, SoundIsSafe, PTL DEF ServiceInv

-----------------------------------------------------------------------------
(* A call that was ended is quiet.                                         *)

Late == {"signals", "interrupt", "socket", "clear"}

Ended(c) == terminated[c] /\ ~missed[c] /\ (currentCallManager = c => endStep \in Late)

(* The last look at the flag keeps the thread of a call that was ended     *)
(* from making audio; what was made before is deleted.                     *)
Silenced(c) ==
  /\ terminated[c] \/ currentCallManager = c => thread[c] # "new"
  /\ currentCallManager = c /\ endStep = "no" => ~terminated[c]
  /\ Ended(c) => \/ audio[c].object = "deleted"
                 \/ audio[c].object = "none" /\ thread[c] # "create"

QuietInv == /\ terminated \in [Calls -> BOOLEAN]
            /\ missed \in [Calls -> BOOLEAN]
            /\ \A c \in Calls : Silenced(c)

(* Most steps neither begin nor advance the end of a call: a thread comes  *)
(* to create audio only after its look at the flag, and an object is built *)
(* only there.                                                             *)
LEMMA QuietPass ==
  ASSUME QuietInv, UNCHANGED <<currentCallManager, endStep, terminated, missed>>,
         \A c \in Calls :
           /\ thread'[c] = "new" => thread[c] = "new"
           /\ thread'[c] = "create" => thread[c] = "create" \/ ~terminated[c]
           /\ \/ audio'[c].object = audio[c].object
              \/ audio[c].object = "none" /\ thread[c] = "create"
  PROVE  QuietInv'
<1>1. ASSUME NEW c \in Calls PROVE Silenced(c)'
  BY DEF QuietInv, Silenced, Ended
<1> QED BY <1>1 DEF QuietInv

LEMMA QuietBegin ==
  ASSUME ServiceInv, QuietInv, NEW who, NEW refused, BeginEnd(who, refused)
  PROVE  QuietInv'
<1> DEFINE b == currentCallManager
<1>1. /\ endStep = "no" /\ UNCHANGED <<audio, thread, missed, currentCallManager>>
      /\ \/ b = None /\ endStep' = "clear" /\ UNCHANGED terminated
         \/ /\ endStep' = "audio"
            /\ terminated' = [terminated EXCEPT ![b] = TRUE]
  BY DEF BeginEnd, LockFree
<1>2. terminated' \in [Calls -> BOOLEAN]
  BY <1>1 DEF QuietInv
<1>3. ASSUME NEW c \in Calls PROVE Silenced(c)'
  <2>1. CASE c = b
    <3>1. endStep' = "audio" /\ c # None
      BY <1>1, <2>1, CallsAssumption
    <3>2. thread[c] # "new"
      BY <2>1 DEF QuietInv, Silenced
    <3> QED BY <1>1, <2>1, <3>1, <3>2 DEF Silenced, Ended, Late
  <2>2. CASE c # b
    <3>1. terminated'[c] = terminated[c]
      BY <1>1, <2>2 DEF QuietInv
    <3> QED BY <1>1, <2>2, <3>1 DEF QuietInv, Silenced, Ended
  <2> QED BY <2>1, <2>2
<1> QED BY <1>1, <1>2, <1>3 DEF QuietInv

LEMMA QuietNewCall ==
  ASSUME ServiceInv, QuietInv, NEW n \in Calls,
         HandleIncomingCall(n) \/ HandleOutgoingCall(n)
  PROVE  QuietInv'
<1>1. /\ endStep = "no" /\ UNCHANGED <<audio, terminated, missed, endStep>>
      /\ currentCallManager' = n /\ thread[n] = "new"
      /\ \E place \in {"signals", "connect"} : Go(n, place)
  BY DEF HandleIncomingCall, HandleOutgoingCall, LockFree, ghostVars
<1>2. \A c \in Calls : thread'[c] = IF c = n THEN thread'[n] ELSE thread[c]
  BY <1>1 DEF Go, ServiceInv, CallInv
<1>3. thread'[n] \in {"signals", "connect"}
  BY <1>1 DEF Go, ServiceInv, CallInv
<1>4. ASSUME NEW c \in Calls PROVE Silenced(c)'
  <2>1. CASE c = n
    BY <1>1, <1>3, <2>1 DEF QuietInv, Silenced, Ended
  <2>2. CASE c # n
    BY <1>1, <1>2, <2>2 DEF QuietInv, Silenced, Ended
  <2> QED BY <2>1, <2>2
<1> QED BY <1>1, <1>4 DEF QuietInv

LEMMA QuietEndStep ==
  ASSUME ServiceInv, QuietInv, EndStep
  PROVE  QuietInv'
<1> DEFINE b == currentCallManager
<1>1. CASE EndAudio
  <2>1. /\ endStep = "audio" /\ UNCHANGED <<currentCallManager, thread, terminated>>
        /\ \/ /\ audio[b].object = "none" /\ endStep' = "signals" /\ UNCHANGED audio
              /\ missed' = [missed EXCEPT ![b] = (thread[b] = "create")]
           \/ endStep' = "stopping" /\ StopRunning(b) /\ UNCHANGED missed
    BY <1>1 DEF EndAudio, callVars
  <2>2. b \in Calls
    BY <2>1 DEF ServiceInv, CallInv
  <2>3. CASE audio[b].object = "none" /\ UNCHANGED audio
    <3>1. missed' \in [Calls -> BOOLEAN]
      BY <2>1, <2>2 DEF QuietInv
    <3>2. ASSUME NEW c \in Calls PROVE Silenced(c)'
      <4>1. CASE c = b
        <5>1. \/ endStep' = "stopping"
              \/ missed'[b] = (thread[b] = "create")
          BY <2>1, <2>2 DEF QuietInv
        <5> QED BY <2>1, <2>3, <4>1, <5>1 DEF QuietInv, Silenced, Ended, Late
      <4>2. CASE c # b
        <5>1. missed'[c] = missed[c]
          BY <2>1, <4>2 DEF QuietInv
        <5> QED BY <2>1, <2>3, <4>2, <5>1 DEF QuietInv, Silenced, Ended
      <4> QED BY <4>1, <4>2
    <3> QED BY <2>1, <3>1, <3>2 DEF QuietInv
  <2>4. CASE endStep' = "stopping" /\ StopRunning(b) /\ UNCHANGED missed
    <3>1. \A d \in Calls \ {b} : audio'[d] = audio[d]
      BY <2>2, <2>4, StopOne DEF ServiceInv
    <3>2. ASSUME NEW c \in Calls PROVE Silenced(c)'
      BY <2>1, <2>4, <3>1 DEF QuietInv, Silenced, Ended, Late
    <3> QED BY <2>1, <2>4, <3>2 DEF QuietInv
  <2> QED BY <2>1, <2>3, <2>4
<1>2. CASE StopAudio
  <2>1. /\ endStep = "stopping" /\ StopStep(b)
        /\ UNCHANGED <<currentCallManager, endStep, thread, terminated, missed>>
    BY <1>2 DEF StopAudio, serviceVars, callVars, ghostVars
  <2>2. b \in Calls
    BY <2>1 DEF ServiceInv, CallInv
  <2>3. \A d \in Calls \ {b} : audio'[d] = audio[d]
    BY <2>1, <2>2, StopOne DEF ServiceInv
  <2>4. ASSUME NEW c \in Calls PROVE Silenced(c)'
    BY <2>1, <2>3 DEF QuietInv, Silenced, Ended, Late
  <2> QED BY <2>1, <2>4 DEF QuietInv
<1>3. CASE AudioStopped
  <2>1. /\ endStep = "stopping" /\ endStep' = "signals" /\ audio[b].stop = "over"
        /\ UNCHANGED <<audio, currentCallManager, thread, terminated, missed>>
    BY <1>3 DEF AudioStopped, callVars, ghostVars
  <2>2. b \in Calls /\ audio[b].object = "deleted"
    BY <2>1 DEF ServiceInv, CallInv, AudioInv, Sound
  <2>3. ASSUME NEW c \in Calls PROVE Silenced(c)'
    BY <2>1, <2>2 DEF QuietInv, Silenced, Ended, Late
  <2> QED BY <2>1, <2>3 DEF QuietInv
<1>4. CASE EndSignals \/ EndSocket
  <2>1. /\ endStep \in Late /\ endStep' \in Late
        /\ UNCHANGED <<audio, currentCallManager, thread, terminated, missed>>
    BY <1>4 DEF EndSignals, EndSocket, callVars, ghostVars, Late
  <2>2. ASSUME NEW c \in Calls PROVE Silenced(c)'
    BY <2>1 DEF QuietInv, Silenced, Ended, Late
  <2> QED BY <2>1, <2>2 DEF QuietInv
<1>5. CASE EndClear
  <2>1. /\ endStep = "clear" /\ endStep' = "no" /\ currentCallManager' = None
        /\ UNCHANGED <<audio, terminated, missed>>
        /\ thread' = thread \/ Go(ender[1], "over")
    BY <1>5 DEF EndClear, ghostVars
  <2>2. \A c \in Calls : thread'[c] \in {thread[c], "over"}
    BY <2>1 DEF Go, ServiceInv, CallInv
  <2>3. ASSUME NEW c \in Calls PROVE Silenced(c)'
    BY <2>1, <2>2, CallsAssumption DEF QuietInv, Silenced, Ended, Late
  <2> QED BY <2>1, <2>3 DEF QuietInv
<1> QED BY <1>1, <1>2, <1>3, <1>4, <1>5 DEF EndStep

LEMMA QuietThread ==
  ASSUME ServiceInv, QuietInv, NEW t \in Calls, CallThread(t)
  PROVE  QuietInv'
<1>1. CASE ThreadEnds(t)
  BY <1>1, QuietBegin DEF ThreadEnds
<1>2. CASE ~ThreadEnds(t)
  <2>1. UNCHANGED <<currentCallManager, endStep, terminated, missed>>
    BY <1>2 DEF CallThread, Connect, StartSignals, WaitForAnswer, Negotiate,
       NotifyCallConnected, CheckTerminated, CreateAudio, MuteAudio, RunAudio,
       AudioReturns, Fail, ThreadStep, serviceVars, callVars, ghostVars
  <2>2. \/ UNCHANGED thread
        \/ \E place \in Places \ {"new", "create"} : Go(t, place)
        \/ Go(t, "create") /\ ~terminated[t]
    <3>1. CASE Connect(t) \/ StartSignals(t) \/ WaitForAnswer(t)
      <4>1. \E place \in {"failing", "ending", "signals", "negotiate", "ring",
                          "connect", "over"} : Go(t, place)
        BY <3>1 DEF Connect, StartSignals, WaitForAnswer, ThreadStep
      <4> QED BY <4>1 DEF Places
    <3>2. CASE Negotiate(t)
      <4>1. \E place \in {"failing", "ending", "report", "over"} : Go(t, place)
        BY <3>2 DEF Negotiate, ThreadStep
      <4> QED BY <4>1 DEF Places
    <3>3. CASE CheckTerminated(t)
      BY <3>3 DEF CheckTerminated, ThreadStep, Places
    <3>4. CASE \/ NotifyCallConnected(t) \/ CreateAudio(t) \/ MuteAudio(t)
               \/ AudioReturns(t) \/ Fail(t)
      <4>1. \E place \in {"check", "ending", "mute", "audio", "over"} : Go(t, place)
        BY <3>4 DEF NotifyCallConnected, CreateAudio, MuteAudio, AudioReturns,
           Fail, ThreadStep
      <4> QED BY <4>1 DEF Places
    <3>5. CASE RunAudio(t)
      BY <3>5 DEF RunAudio, callVars
    <3> QED BY <1>2, <3>1, <3>2, <3>3, <3>4, <3>5 DEF CallThread
  <2>3. ASSUME NEW c \in Calls
        PROVE  /\ thread'[c] = "new" => thread[c] = "new"
               /\ thread'[c] = "create" => thread[c] = "create" \/ ~terminated[c]
    BY <2>2 DEF Go, ServiceInv, CallInv
  <2>4. ASSUME NEW c \in Calls
        PROVE  \/ audio'[c].object = audio[c].object
               \/ audio[c].object = "none" /\ thread[c] = "create"
    <3>1. CASE UNCHANGED audio
      BY <3>1
    <3>2. CASE CreateAudio(t) /\ Build(t)
      <4> DEFINE new == [audio[t] EXCEPT !.object = "built"]
      <4>1. audio[t].object = "none" /\ thread[t] = "create" /\ Become(t, new)
        BY <3>2 DEF CreateAudio, Build
      <4>2. \A d \in Calls : audio'[d] = IF d = t THEN new ELSE audio[d]
        BY <4>1, BecomeOne DEF ServiceInv
      <4> QED BY <4>1, <4>2
    <3>3. CASE MuteAudio(t)
      <4> DEFINE enabled == muteParameter[t]
                 wrong   == [audio[t] EXCEPT !.misused = TRUE]
                 new     == IF audio[t].object = "deleted" THEN wrong
                            ELSE [audio[t] EXCEPT !.muted = enabled]
      <4>1. Become(t, new)
        BY <3>3 DEF MuteAudio, SetNativeMute, Use
      <4>2. audio[t] \in Audio
        BY DEF ServiceInv, AudioInv, AudioTypeOK
      <4>3. new.object = audio[t].object
        BY <4>2 DEF Audio
      <4>4. \A d \in Calls : audio'[d] = IF d = t THEN new ELSE audio[d]
        BY <4>1, BecomeOne DEF ServiceInv
      <4> QED BY <4>3, <4>4
    <3>4. CASE RunAudio(t)
      BY <3>4, StartOne DEF RunAudio, ServiceInv
    <3>5. \/ UNCHANGED audio
          \/ CreateAudio(t) /\ Build(t)
          \/ MuteAudio(t)
          \/ RunAudio(t)
      BY <1>2 DEF CallThread, Connect, StartSignals, WaitForAnswer, Negotiate,
         NotifyCallConnected, CheckTerminated, CreateAudio, AudioReturns, Fail
    <3> QED BY <3>1, <3>2, <3>3, <3>4, <3>5
  <2> QED BY <2>1, <2>3, <2>4, QuietPass
<1> QED BY <1>1, <1>2

LEMMA QuietStep ==
  ASSUME ServiceInv, QuietInv, [Next]_vars
  PROVE  QuietInv'
<1>1. ASSUME UNCHANGED <<audio, thread, currentCallManager, endStep,
                         terminated, missed>>
      PROVE  QuietInv'
  BY <1>1, QuietPass
<1>2. CASE HandleSetMute
  <2> DEFINE m       == currentCallManager
             enabled == ~muteEnabled[m]
             wrong   == [audio[m] EXCEPT !.misused = TRUE]
             new     == IF audio[m].object = "deleted" THEN wrong
                        ELSE [audio[m] EXCEPT !.muted = enabled]
  <2>1. /\ UNCHANGED <<thread, currentCallManager, endStep, terminated, missed>>
        /\ m \in Calls
        /\ UNCHANGED audio \/ Become(m, new)
    BY <1>2 DEF HandleSetMute, SetNativeMute, Use, serviceVars, ServiceInv, CallInv
  <2>2. audio[m] \in Audio
    BY <2>1 DEF ServiceInv, AudioInv, AudioTypeOK
  <2>3. new.object = audio[m].object
    BY <2>2 DEF Audio
  <2>4. \A c \in Calls : audio'[c].object = audio[c].object
    <3>1. CASE UNCHANGED audio
      BY <3>1
    <3>2. CASE Become(m, new)
      BY <2>1, <2>3, <3>2, BecomeOne DEF ServiceInv
    <3> QED BY <2>1, <3>1, <3>2
  <2> QED BY <2>1, <2>4, QuietPass
<1>3. ASSUME NEW t \in Calls, DeviceCalls(t) PROVE QuietInv'
  <2>1. UNCHANGED <<thread, currentCallManager, endStep, terminated, missed>>
    BY <1>3 DEF DeviceCalls, serviceVars, callVars, ghostVars
  <2>2. \A c \in Calls : audio'[c].object = audio[c].object
    BY <1>3, DeviceOne DEF ServiceInv, DeviceCalls
  <2> QED BY <2>1, <2>2, QuietPass
<1>4. CASE HandleAnswerCall
  BY <1>1, <1>4 DEF HandleAnswerCall
<1>5. CASE HandleHangupCall \/ HandleDenyCall \/ BusyTimerFires
  BY <1>5, QuietBegin DEF HandleHangupCall, HandleDenyCall, BusyTimerFires
<1>6. ASSUME NEW t \in Calls, Listens(t) \/ ServerSends(t) \/ RemoteSignal(t) PROVE QuietInv'
  BY <1>1, <1>6 DEF Listens, ServerSends, RemoteSignal, serviceVars, callVars, ghostVars
<1>7. ASSUME NEW t \in Calls, ListenerEnds(t) PROVE QuietInv'
  BY <1>7, QuietBegin DEF ListenerEnds
<1>8. CASE UNCHANGED vars
  BY <1>1, <1>8 DEF vars, serviceVars, callVars, ghostVars
<1> QED BY <1>2, <1>3, <1>4, <1>5, <1>6, <1>7, <1>8, QuietNewCall,
           QuietEndStep, QuietThread DEF Next

LEMMA InitQuiet == Init => QuietInv
BY CallsAssumption DEF Init, QuietInv, Silenced, Ended

(* After the service has ended a call, neither its microphone nor its      *)
(* player runs, unless the end fell between the thread's last look at the  *)
(* flag and the assignment of callAudioManager.                            *)
THEOREM EndedCallsAreQuiet == Spec => []Quiet
<1>1. Init => QuietInv
  BY InitQuiet
<1>2. ServiceInv /\ QuietInv => Quiet
  <2> SUFFICES ASSUME ServiceInv, QuietInv, NEW c \in Calls, Ended(c)
               PROVE  audio[c].on = {}
    BY DEF Quiet, Ended, Late
  <2>1. audio[c].object \in {"none", "deleted"}
    BY DEF QuietInv, Silenced
  <2> QED BY <2>1 DEF ServiceInv, AudioInv, Sound
<1>3. ServiceInv /\ QuietInv /\ [Next]_vars => QuietInv'
  BY QuietStep
<1> QED BY <1>1, <1>2, <1>3, CallsKeepToAudio, PTL DEF Spec

-----------------------------------------------------------------------------
(* A call is displaced only while the thread of a call reports a failure.  *)

(* The service may take another call while it has one only because some    *)
(* call thread has set its state to IDLE and not yet asked for the end.    *)
IdleFails ==
  currentCallManager # None /\ state = "IDLE" /\ endStep = "no"
    => \E c \in Calls : thread[c] = "ending"

(* A thread that reports its failure waits for the lock, and then for the  *)
(* end of the call.                                                        *)
LEMMA StillEnding ==
  ASSUME ServiceInv, NEW t \in Calls, CallThread(t),
         NEW c \in Calls, thread[c] = "ending"
  PROVE  thread'[c] = "ending"
<1>1. CASE UNCHANGED thread
  BY <1>1
<1>2. ASSUME NEW place, Go(t, place), thread[t] # "ending"
      PROVE  thread'[c] = "ending"
  BY <1>2 DEF Go, ServiceInv, CallInv
<1>3. CASE Connect(t) \/ StartSignals(t) \/ WaitForAnswer(t)
  BY <1>2, <1>3 DEF Connect, StartSignals, WaitForAnswer, ThreadStep
<1>4. CASE Negotiate(t) \/ NotifyCallConnected(t) \/ CheckTerminated(t)
  BY <1>2, <1>4 DEF Negotiate, NotifyCallConnected, CheckTerminated, ThreadStep
<1>5. CASE CreateAudio(t) \/ MuteAudio(t) \/ AudioReturns(t) \/ Fail(t)
  BY <1>2, <1>5 DEF CreateAudio, MuteAudio, AudioReturns, Fail, ThreadStep
<1>6. CASE RunAudio(t) \/ ThreadEnds(t)
  BY <1>1, <1>6 DEF RunAudio, ThreadEnds, BeginEnd, callVars
<1> QED BY <1>3, <1>4, <1>5, <1>6 DEF CallThread

(* Other calls come only to a service that is free, or idle; and the end   *)
(* of a call leaves none.                                                  *)
LEMMA IdleStep ==
  ASSUME ServiceInv, IdleFails, [Next]_vars
  PROVE  /\ IdleFails'
         /\ \/ currentCallManager = None
            \/ currentCallManager' \in {None, currentCallManager}
            \/ \E c \in Calls : thread[c] = "ending"
<1>1. CASE /\ UNCHANGED <<currentCallManager, thread>>
           /\ endStep' = "no" => endStep = "no" /\ state' \in {state, "ANSWERING"}
  BY <1>1 DEF IdleFails
<1>2. ASSUME NEW t \in Calls, HandleIncomingCall(t) \/ HandleOutgoingCall(t)
      PROVE  /\ state' # "IDLE" /\ endStep = "no"
             /\ currentCallManager = None \/ state = "IDLE"
  BY <1>2 DEF HandleIncomingCall, HandleOutgoingCall, LockFree, IsBusy
<1>3. ASSUME NEW t \in Calls, CallThread(t), ~ThreadEnds(t)
      PROVE  /\ UNCHANGED <<currentCallManager, endStep>>
             /\ IdleFails'
  <2>1. UNCHANGED <<currentCallManager, endStep>>
    BY <1>3 DEF CallThread, Connect, StartSignals, WaitForAnswer, Negotiate,
       NotifyCallConnected, CheckTerminated, CreateAudio, MuteAudio, RunAudio,
       AudioReturns, Fail, ThreadStep, serviceVars
  <2>2. \/ UNCHANGED state \/ state' = "CONNECTED"
        \/ state' = "IDLE" /\ Go(t, "ending")
    BY <1>3 DEF CallThread, Connect, StartSignals, WaitForAnswer, Negotiate,
       NotifyCallConnected, CheckTerminated, CreateAudio, MuteAudio, RunAudio,
       AudioReturns, Fail, ThreadStep, serviceVars
  <2>3. CASE UNCHANGED state \/ state' = "CONNECTED"
    BY <1>3, <2>1, <2>3, StillEnding DEF IdleFails
  <2>4. CASE Go(t, "ending")
    <3>1. thread'[t] = "ending"
      BY <2>4 DEF Go, ServiceInv, CallInv
    <3> QED BY <2>1, <3>1 DEF IdleFails
  <2> QED BY <2>1, <2>2, <2>3, <2>4
<1>4. ASSUME NEW who, NEW refused, BeginEnd(who, refused)
      PROVE  endStep' # "no" /\ UNCHANGED <<currentCallManager, thread>>
  BY <1>4 DEF BeginEnd
<1>5. CASE EndStep
  <2>1. \/ currentCallManager' = None
        \/ endStep' # "no" /\ UNCHANGED <<currentCallManager, thread>>
    BY <1>5 DEF EndStep, EndAudio, StopAudio, AudioStopped, EndSignals,
       EndSocket, EndClear, serviceVars, callVars
  <2> QED BY <1>1, <2>1 DEF IdleFails
<1>6. CASE HandleAnswerCall \/ HandleSetMute
  BY <1>1, <1>6 DEF HandleAnswerCall, HandleSetMute, LockFree, serviceVars
<1>7. CASE HandleHangupCall \/ HandleDenyCall \/ BusyTimerFires
  BY <1>1, <1>4, <1>7 DEF HandleHangupCall, HandleDenyCall, BusyTimerFires
<1>8. ASSUME NEW t \in Calls, ListenerEnds(t) \/ ThreadEnds(t)
      PROVE  endStep' # "no" /\ UNCHANGED <<currentCallManager, thread>>
  BY <1>4, <1>8 DEF ListenerEnds, ThreadEnds
<1>9. CASE \/ \E t \in Calls : Listens(t) \/ ServerSends(t) \/ RemoteSignal(t) \/ DeviceCalls(t)
           \/ UNCHANGED vars
  BY <1>1, <1>9 DEF Listens, ServerSends, RemoteSignal, DeviceCalls, vars, serviceVars, callVars
<1> QED BY <1>1, <1>2, <1>3, <1>5, <1>6, <1>7, <1>8, <1>9 DEF Next, IdleFails

(* A call is displaced by another without having been ended only while the *)
(* thread of some call reports its failure: for any number of calls.       *)
THEOREM OnlyFailureDisplaces == Spec => DisplacedOnlyByFailure
<1>1. Init => IdleFails
  BY DEF Init, IdleFails
<1>2. ServiceInv /\ IdleFails /\ [Next]_vars
        => IdleFails' /\ [\/ currentCallManager = None
                         \/ currentCallManager' \in {None, currentCallManager}
                         \/ \E c \in Calls : thread[c] = "ending"]_currentCallManager
  BY IdleStep
<1> QED BY <1>1, <1>2, CallsKeepToAudio, PTL DEF Spec, DisplacedOnlyByFailure

-----------------------------------------------------------------------------
(* The audio of the current call is muted as the user wants it.            *)

(* What the thread was told, and what it set, is what the user wants: from *)
(* its last look at the flag on, the switch either reaches the object or   *)
(* is noted as toggled.                                                    *)
Muted(c) ==
  /\ thread[c] \in {"mute", "audio"} => audio[c].object # "none"
  /\ ~toggled[c] =>
       /\ thread[c] \in {"create", "mute"} => muteParameter[c] = muteEnabled[c]
       /\ audio[c].start # "no" => audio[c].muted = muteEnabled[c]
       /\ thread[c] = "audio" =>
            audio[c].muted = muteEnabled[c] \/ audio[c].misused

MutedInv == toggled \in [Calls -> BOOLEAN] /\ \A c \in Calls : Muted(c)

(* Steps that turn no switch and leave the thread where it is or go on to  *)
(* a place without audio; start() is called by a thread in "audio" only.   *)
LEMMA MutedPass ==
  ASSUME MutedInv, UNCHANGED <<muteEnabled, muteParameter, toggled>>, Defined,
         \A c \in Calls :
           /\ thread'[c] \in {"create", "mute", "audio"} => thread'[c] = thread[c]
           /\ audio[c].object # "none" => audio'[c].object # "none"
           /\ audio'[c].muted = audio[c].muted
           /\ audio'[c].start # "no" => audio[c].start # "no" \/ thread[c] = "audio"
  PROVE  MutedInv'
<1>1. ASSUME NEW c \in Calls PROVE Muted(c)'
  BY DEF MutedInv, Muted, Defined
<1> QED BY <1>1 DEF MutedInv

(* The user's switch: set in the object if there is one.                   *)
LEMMA MutedSwitch ==
  ASSUME ServiceInv, MuteTypeOK, MutedInv, HandleSetMute
  PROVE  MutedInv'
<1> SUFFICES ASSUME NEW m \in Calls, m = currentCallManager PROVE MutedInv'
  BY DEF HandleSetMute, ServiceInv, CallInv
<1> DEFINE enabled == ~muteEnabled[m]
           new == [audio[m] EXCEPT !.muted = enabled]
<1>1. /\ endStep = "no" /\ UNCHANGED <<thread, muteParameter>>
      /\ muteEnabled' = [muteEnabled EXCEPT ![m] = enabled]
      /\ toggled' = [toggled EXCEPT ![m] =
                        toggled[m] \/ thread[m] \in {"create", "mute"}]
      /\ IF audio[m].object # "none" THEN SetNativeMute(m, enabled)
                                     ELSE UNCHANGED audio
  BY DEF HandleSetMute, LockFree, ServiceInv, CallInv
<1>2. audio[m] \in Audio /\ Sound(audio[m]) /\ audio[m].stop = "no"
  BY <1>1 DEF ServiceInv, CallInv, Tied, AudioInv, AudioTypeOK
<1>3. audio[m].object # "deleted"
  BY <1>2 DEF Sound
<1>4. enabled \in BOOLEAN /\ toggled' \in [Calls -> BOOLEAN]
      /\ muteEnabled'[m] = enabled /\ (toggled[m] => toggled'[m])
      /\ (thread[m] \in {"create", "mute"} => toggled'[m])
  <2> DEFINE noted == toggled[m] \/ thread[m] \in {"create", "mute"}
  <2>1. noted \in BOOLEAN /\ enabled \in BOOLEAN
    BY <1>1 DEF MutedInv
  <2>2. toggled' = [toggled EXCEPT ![m] = noted]
    BY <1>1
  <2> HIDE DEF noted, enabled
  <2>3. toggled' \in [Calls -> BOOLEAN] /\ toggled'[m] = noted
    BY <1>1, <2>1, <2>2 DEF MutedInv
  <2>4. muteEnabled'[m] = enabled
    BY <1>1, <2>1 DEF MuteTypeOK
  <2> QED BY <2>1, <2>3, <2>4 DEF noted
<1>5. Muted(m)'
  <2>1. CASE audio[m].object = "none"
    <3>1. UNCHANGED audio /\ audio[m].start = "no" /\ thread[m] \notin {"mute", "audio"}
      BY <1>1, <1>2, <2>1 DEF Sound, MutedInv, Muted
    <3> QED BY <1>1, <1>4, <3>1 DEF Muted
  <2>2. CASE audio[m].object # "none"
    <3>1. Become(m, new)
      BY <1>1, <1>3, <2>2 DEF SetNativeMute, Use
    <3>2. audio'[m] = new
      BY <1>1, <3>1, BecomeOne DEF ServiceInv
    <3> HIDE DEF enabled
    <3>3. new.object = audio[m].object /\ new.muted = enabled
      BY <1>2 DEF Audio
    <3> QED BY <1>1, <1>4, <2>2, <3>2, <3>3 DEF Muted
  <2> QED BY <2>1, <2>2
<1>6. ASSUME NEW c \in Calls, c # m PROVE Muted(c)'
  <2>1. audio'[c] = audio[c]
    <3>1. CASE UNCHANGED audio
      BY <3>1
    <3>2. CASE Become(m, new)
      BY <1>1, <1>6, <3>2, BecomeOne DEF ServiceInv
    <3> QED BY <1>1, <1>3, <3>1, <3>2 DEF SetNativeMute, Use
  <2>2. muteEnabled'[c] = muteEnabled[c] /\ toggled'[c] = toggled[c]
    BY <1>1, <1>6 DEF MuteTypeOK, MutedInv
  <2> QED BY <1>1, <2>1, <2>2 DEF MutedInv, Muted
<1> QED BY <1>4, <1>5, <1>6 DEF MutedInv

LEMMA MutedThread ==
  ASSUME ServiceInv, MuteTypeOK, MutedInv, Defined, NEW t \in Calls, CallThread(t)
  PROVE  MutedInv'
<1>1. ASSUME NEW place \in Places \ {"create", "mute", "audio"}, Go(t, place),
             UNCHANGED <<audio, muteEnabled, muteParameter, toggled>>
      PROVE  MutedInv'
  <2>1. \A c \in Calls : thread'[c] = IF c = t THEN place ELSE thread[c]
    BY <1>1, GoPlace DEF ServiceInv, CallInv
  <2> QED BY <1>1, <2>1, MutedPass
<1>2. CASE Connect(t) \/ StartSignals(t) \/ WaitForAnswer(t)
  <2>1. PICK place \in {"failing", "ending", "signals", "negotiate", "ring",
                        "connect", "over"} : Go(t, place)
    BY <1>2 DEF Connect, StartSignals, WaitForAnswer, ThreadStep
  <2> QED BY <1>1, <1>2, <2>1 DEF Connect, StartSignals, WaitForAnswer,
          ThreadStep, ghostVars, Places
<1>3. CASE Negotiate(t) \/ NotifyCallConnected(t) \/ AudioReturns(t) \/ Fail(t)
  <2>1. PICK place \in {"failing", "ending", "report", "check", "over"} : Go(t, place)
    BY <1>3 DEF Negotiate, NotifyCallConnected, AudioReturns, Fail, ThreadStep
  <2> QED BY <1>1, <1>3, <2>1 DEF Negotiate, NotifyCallConnected, AudioReturns,
          Fail, ThreadStep, ghostVars, Places
<1>4. CASE CheckTerminated(t)
  <2>1. CASE terminated[t]
    BY <1>1, <1>4, <2>1 DEF CheckTerminated, ThreadStep, ghostVars, Places
  <2>2. CASE ~terminated[t]
    <3>1. /\ thread[t] = "check" /\ Go(t, "create")
          /\ muteParameter' = [muteParameter EXCEPT ![t] = muteEnabled[t]]
          /\ UNCHANGED <<audio, muteEnabled, toggled>>
      BY <1>4, <2>2 DEF CheckTerminated, ThreadStep, ghostVars
    <3>2. \A c \in Calls : thread'[c] = IF c = t THEN "create" ELSE thread[c]
      BY <3>1, GoPlace DEF ServiceInv, CallInv, Places
    <3>3. \A c \in Calls : muteParameter'[c] = IF c = t THEN muteEnabled[t]
                                                      ELSE muteParameter[c]
      BY <3>1 DEF MuteTypeOK
    <3>4. audio[t].start = "no"
      BY <3>1, SilentCall DEF Silent
    <3>5. ASSUME NEW c \in Calls PROVE Muted(c)'
      BY <3>1, <3>2, <3>3, <3>4 DEF MutedInv, Muted
    <3> QED BY <3>1, <3>5 DEF MutedInv
  <2> QED BY <2>1, <2>2
<1>5. CASE CreateAudio(t)
  <2>1. CASE ThreadStep(t, "ending") /\ UNCHANGED audio
    BY <1>1, <1>5, <2>1 DEF CreateAudio, ThreadStep, ghostVars, Places
  <2>2. CASE Build(t) /\ ThreadStep(t, "mute")
    <3> DEFINE new == [audio[t] EXCEPT !.object = "built"]
    <3>1. /\ thread[t] = "create" /\ Become(t, new) /\ Go(t, "mute")
          /\ UNCHANGED <<muteEnabled, muteParameter, toggled>>
      BY <1>5, <2>2 DEF CreateAudio, Build, ThreadStep, ghostVars
    <3>2. \A c \in Calls : thread'[c] = IF c = t THEN "mute" ELSE thread[c]
      BY <3>1, GoPlace DEF ServiceInv, CallInv, Places
    <3>3. audio[t] \in Audio /\ audio[t].start = "no"
      BY <3>1, SilentCall DEF Silent, ServiceInv, AudioInv, AudioTypeOK
    <3>4. new.object = "built" /\ new.start = "no"
      BY <3>3 DEF Audio
    <3>5. \A c \in Calls : audio'[c] = IF c = t THEN new ELSE audio[c]
      BY <3>1, BecomeOne DEF ServiceInv
    <3> HIDE DEF new
    <3>6. ASSUME NEW c \in Calls PROVE Muted(c)'
      BY <3>1, <3>2, <3>4, <3>5 DEF MutedInv, Muted
    <3> QED BY <3>1, <3>6 DEF MutedInv
  <2> QED BY <1>5, <2>1, <2>2 DEF CreateAudio
<1>6. CASE MuteAudio(t)
  <2> DEFINE enabled == muteParameter[t]
             wrong   == [audio[t] EXCEPT !.misused = TRUE]
             set     == [audio[t] EXCEPT !.muted = enabled]
             new     == IF audio[t].object = "deleted" THEN wrong ELSE set
  <2>1. /\ thread[t] = "mute" /\ Become(t, new) /\ Go(t, "audio")
        /\ UNCHANGED <<muteEnabled, muteParameter, toggled>>
    BY <1>6 DEF MuteAudio, SetNativeMute, Use, ThreadStep, ghostVars
  <2>2. \A c \in Calls : thread'[c] = IF c = t THEN "audio" ELSE thread[c]
    BY <2>1, GoPlace DEF ServiceInv, CallInv, Places
  <2>3. audio[t] \in Audio /\ audio[t].start = "no" /\ audio[t].object # "none"
    BY <2>1 DEF MutedInv, Muted, ServiceInv, CallInv, Tied, AudioInv, AudioTypeOK
  <2>4. /\ wrong.object = audio[t].object /\ wrong.start = "no" /\ wrong.misused
        /\ set.object = audio[t].object /\ set.start = "no" /\ set.muted = enabled
    BY <2>3 DEF Audio
  <2>5. /\ new.object # "none" /\ new.start = "no"
        /\ new.muted = enabled \/ new.misused
    BY <2>3, <2>4
  <2>6. \A c \in Calls : audio'[c] = IF c = t THEN new ELSE audio[c]
    BY <2>1, BecomeOne DEF ServiceInv
  <2> HIDE DEF new
  <2>7. ASSUME NEW c \in Calls PROVE Muted(c)'
    BY <2>1, <2>2, <2>5, <2>6 DEF MutedInv, Muted
  <2> QED BY <2>1, <2>7 DEF MutedInv
<1>7. CASE RunAudio(t)
  <2>1. /\ thread[t] = "audio"
        /\ StartRunning(t) \/ StartStep(t)
        /\ UNCHANGED <<thread, muteEnabled, muteParameter, toggled>>
    BY <1>7 DEF RunAudio, callVars, ghostVars
  <2>2. /\ \A d \in Calls \ {t} : audio'[d] = audio[d]
        /\ audio'[t].object = audio[t].object
        /\ audio'[t].muted = audio[t].muted
    BY <2>1, StartOne DEF ServiceInv
  <2>3. ASSUME NEW c \in Calls
        PROVE  /\ audio[c].object # "none" => audio'[c].object # "none"
               /\ audio'[c].muted = audio[c].muted
               /\ audio'[c].start # "no" => audio[c].start # "no" \/ thread[c] = "audio"
    <3>1. CASE c = t
      BY <2>1, <2>2, <3>1
    <3>2. CASE c # t
      <4>1. audio'[c] = audio[c]
        BY <2>2, <3>2
      <4> QED BY <4>1
    <3> QED BY <3>1, <3>2
  <2> QED BY <2>1, <2>3, MutedPass
<1>8. CASE ThreadEnds(t)
  BY <1>8, MutedPass DEF ThreadEnds, BeginEnd
<1> QED BY <1>2, <1>3, <1>4, <1>5, <1>6, <1>7, <1>8 DEF CallThread

LEMMA MutedStep ==
  ASSUME ServiceInv, MuteTypeOK, MutedInv, [Next]_vars
  PROVE  MutedInv'
<1>1. CASE UNCHANGED <<audio, thread, muteEnabled, muteParameter, toggled>>
  BY <1>1 DEF MutedInv, Muted
<1>2. ASSUME NEW t \in Calls, HandleIncomingCall(t) \/ HandleOutgoingCall(t), Defined
      PROVE  MutedInv'
  <2>1. PICK place \in {"signals", "connect"} : Go(t, place)
    BY <1>2 DEF HandleIncomingCall, HandleOutgoingCall
  <2>2. \A c \in Calls : thread'[c] = IF c = t THEN place ELSE thread[c]
    BY <2>1, GoPlace DEF ServiceInv, CallInv, Places
  <2> QED BY <1>2, <2>2, MutedPass
          DEF HandleIncomingCall, HandleOutgoingCall, ghostVars
<1>3. ASSUME NEW t \in Calls, DeviceCalls(t), Defined PROVE MutedInv'
  <2>1. UNCHANGED <<thread, muteEnabled, muteParameter, toggled>>
    BY <1>3 DEF DeviceCalls, callVars, ghostVars
  <2>2. \A c \in Calls : /\ audio'[c].object = audio[c].object
                        /\ audio'[c].muted = audio[c].muted
                        /\ audio'[c].start = audio[c].start
    BY <1>3, DeviceOne DEF ServiceInv, DeviceCalls
  <2> QED BY <2>1, <2>2, <1>3, MutedPass
<1>4. CASE EndStep /\ Defined
  <2> DEFINE b == currentCallManager
  <2>1. UNCHANGED <<muteEnabled, muteParameter, toggled>>
    BY <1>4 DEF EndStep, EndAudio, StopAudio, AudioStopped, EndSignals,
       EndSocket, EndClear, callVars, ghostVars
  <2>2. \A c \in Calls : thread'[c] \in {thread[c], "over"}
    <3>1. UNCHANGED thread \/ Go(ender[1], "over")
      BY <1>4 DEF EndStep, EndAudio, StopAudio, AudioStopped, EndSignals,
         EndSocket, EndClear, callVars
    <3> QED BY <3>1 DEF Go, ServiceInv, CallInv
  <2>3. \A c \in Calls : /\ audio[c].object # "none" => audio'[c].object # "none"
                        /\ audio'[c].muted = audio[c].muted
                        /\ audio'[c].start = audio[c].start
    <3>1. CASE UNCHANGED audio
      BY <3>1
    <3>2. CASE ~UNCHANGED audio
      <4>1. endStep \in {"audio", "stopping"} /\ (StopRunning(b) \/ StopStep(b))
        BY <1>4, <3>2 DEF EndStep, EndAudio, StopAudio, AudioStopped,
           EndSignals, EndSocket, EndClear
      <4>2. b \in Calls
        BY <4>1 DEF ServiceInv, CallInv
      <4> QED BY <4>1, <4>2, StopOne DEF ServiceInv
    <3> QED BY <3>1, <3>2
  <2> QED BY <1>4, <2>1, <2>2, <2>3, MutedPass
<1>5. CASE HandleAnswerCall \/ HandleHangupCall \/ HandleDenyCall \/ BusyTimerFires
  BY <1>1, <1>5 DEF HandleAnswerCall, HandleHangupCall, HandleDenyCall,
     BusyTimerFires, BeginEnd
<1>6. ASSUME NEW t \in Calls, ListenerEnds(t) \/ Listens(t) \/ ServerSends(t) \/ RemoteSignal(t)
      PROVE  MutedInv'
  BY <1>1, <1>6 DEF ListenerEnds, BeginEnd, Listens, ServerSends, RemoteSignal, callVars,
     ghostVars
<1>7. CASE UNCHANGED vars
  BY <1>1, <1>7 DEF vars, callVars, ghostVars
<1> QED BY <1>2, <1>3, <1>4, <1>5, <1>6, <1>7, MutedSwitch, MutedThread DEF Next

LEMMA InitMuted == Init => MutedInv
<1> SUFFICES ASSUME Init PROVE MutedInv
  OBVIOUS
<1>1. toggled \in [Calls -> BOOLEAN]
  BY DEF Init
<1>2. \A c \in Calls : thread[c] = "new" /\ audio[c].start = "no"
  BY DEF Init, AudioInit, NoAudio
<1> QED BY <1>1, <1>2 DEF MutedInv, Muted

(* The audio of a call that runs is muted as the user wants it, unless the *)
(* switch was turned while the call thread set up the audio.               *)
THEOREM MuteIsObeyed == Spec => []MuteObeyed
<1>1. Init => MutedInv
  BY InitMuted
<1>2. MutedInv => MuteObeyed
  BY DEF MutedInv, Muted, MuteObeyed
<1>3. ServiceInv /\ MuteTypeOK /\ MutedInv /\ [Next]_vars => MutedInv'
  BY MutedStep
<1> QED BY <1>1, <1>2, <1>3, CallsKeepToAudio, PTL DEF Spec
-----------------------------------------------------------------------------
(* Type correctness of what the invariants above leave out: the signalling *)
(* of the calls, the service's state and the one who ends a call, and the  *)
(* bounds.                                                                 *)

LEMMA SignalsStep ==
  ASSUME SignalsTypeOK(Calls), NEW c \in Calls,
         \/ Listener(c) \/ ProcessSignals(c) \/ QueueHangup(c) \/ Interrupt(c)
         \/ AfterDisconnect(c) \/ BeginSignal(c) \/ HangupAnswered(c)
         \/ \E next \in {"handled", "disconnected", "broken"} : Signal(c, next)
  PROVE  SignalsTypeOK(Calls)'
<1> DEFINE Runnables == {"listen", "hangup"}
<1>1. Runnables \subseteq Doing /\ queue[c] \in Seq(Runnables)
  BY DEF Doing, SignalsTypeOK
<1>2. ASSUME NEW doing \in Doing, Turn(c, doing) PROVE task' \in [Calls -> Doing]
  BY <1>2 DEF Turn, SignalsTypeOK
<1>3. ASSUME NEW runnable \in Runnables, Execute(c, runnable)
      PROVE  queue' \in [Calls -> Seq(Runnables)]
  <2>1. Append(queue[c], runnable) \in Seq(Runnables)
    BY <1>1
  <2> QED BY <1>3, <2>1 DEF Execute, SignalsTypeOK
<1>4. CASE RunTask(c)
  <2>1. Head(queue[c]) \in Runnables /\ Tail(queue[c]) \in Seq(Runnables)
    BY <1>1, <1>4 DEF RunTask
  <2>2. Turn(c, Head(queue[c])) /\ queue' = [queue EXCEPT ![c] = Tail(queue[c])]
    BY <1>4 DEF RunTask
  <2>3. task' \in [Calls -> Doing]
    BY <1>1, <1>2, <2>1, <2>2
  <2>4. queue' \in [Calls -> Seq(Runnables)]
    BY <2>1, <2>2 DEF SignalsTypeOK
  <2> QED BY <1>4, <2>3, <2>4 DEF RunTask, SignalsTypeOK
<1>5. CASE HangupAnswered(c)
  <2>1. queue' \in [Calls -> Seq(Runnables)]
    <3>1. <<>> \in Seq(Runnables)
      OBVIOUS
    <3> QED BY <1>5, <3>1 DEF HangupAnswered, SignalsTypeOK
  <2>2. task' \in [Calls -> Doing]
    BY <1>2, <1>5 DEF HangupAnswered, Doing
  <2> QED BY <1>5, <2>1, <2>2 DEF HangupAnswered, SignalsTypeOK
<1>6. CASE Requeue(c)
  <2>1. queue' \in [Calls -> Seq(Runnables)] /\ task' \in [Calls -> Doing]
    BY <1>2, <1>3, <1>6 DEF Requeue, Doing
  <2> QED BY <1>6, <2>1 DEF Requeue, SignalsTypeOK
<1>7. CASE ProcessSignals(c)
  <2>1. queue' \in [Calls -> Seq(Runnables)]
    BY <1>3, <1>7 DEF ProcessSignals
  <2> QED BY <1>7, <2>1 DEF ProcessSignals, SignalsTypeOK
<1>8. CASE QueueHangup(c)
  <2>1. queue' \in [Calls -> Seq(Runnables)]
    BY <1>3, <1>8 DEF QueueHangup
  <2> QED BY <1>8, <2>1 DEF QueueHangup, SignalsTypeOK
<1>9. CASE \/ StopListening(c) \/ AfterDisconnect(c)
           \/ BeginSignal(c) \/ SendHangup(c)
           \/ \E next \in {"handled", "disconnected", "broken"} : Signal(c, next)
  <2>1. UNCHANGED <<queue, interrupted, signalManager>>
    BY <1>9 DEF StopListening, AfterDisconnect, BeginSignal, SendHangup, Signal
  <2>2. \E doing \in Doing : Turn(c, doing)
    BY <1>9 DEF StopListening, AfterDisconnect, BeginSignal, SendHangup, Signal,
                Doing
  <2> QED BY <1>2, <2>1, <2>2 DEF SignalsTypeOK
<1>10. CASE Interrupt(c)
  BY <1>10 DEF Interrupt, SignalsTypeOK
<1>11. CASE ResetInterrupted(c)
  <2>1. task' \in [Calls -> Doing]
    BY <1>2, <1>11 DEF ResetInterrupted, Doing
  <2> QED BY <1>11, <2>1 DEF ResetInterrupted, SignalsTypeOK
<1> QED BY <1>4, <1>5, <1>6, <1>7, <1>8, <1>9, <1>10, <1>11 DEF Listener

LEMMA SignalsPass ==
  ASSUME SignalsTypeOK(Calls), UNCHANGED signalVars
  PROVE  SignalsTypeOK(Calls)'
BY DEF SignalsTypeOK, signalVars

(* Who ends a call and how far it is; the sockets and the answers.         *)
EndTyped ==
  /\ state \in ServiceStates
  /\ endStep \in EndSteps
  /\ ender \in Enders
  /\ socket \in [Calls -> {"none", "open", "closed"}]
  /\ answer \in [Calls -> 0 .. 2]

(* Each busy signal has spent an event.                                    *)
Budget == used \in 0 .. MaxEvents /\ busyTimers \in 0 .. used

LEMMA EnderIs ==
  ASSUME ender \in Enders
  PROVE  ender[2] \in {"thread", "listener"} => ender[1] \in Calls
BY DEF Enders, Nobody

LEMMA EndTypedPass ==
  ASSUME EndTyped, UNCHANGED <<endStep, ender, socket, answer>>,
         state' \in {state} \cup ServiceStates
  PROVE  EndTyped'
BY DEF EndTyped

LEMMA BeginEndTyped ==
  ASSUME ServiceInv, EndTyped, NEW who \in Enders, NEW refused \in BOOLEAN,
         BeginEnd(who, refused), state' \in {state} \cup ServiceStates
  PROVE  EndTyped' /\ UNCHANGED signalVars
<1> DEFINE m == currentCallManager
<1>1. ender' \in Enders /\ endStep' \in EndSteps /\ state' \in ServiceStates
  BY DEF BeginEnd, EndSteps, EndTyped
<1>2. UNCHANGED socket /\ UNCHANGED signalVars
  BY DEF BeginEnd
<1>3. answer' \in [Calls -> 0 .. 2]
  <2>1. CASE m = None
    BY <2>1 DEF BeginEnd, EndTyped
  <2>2. CASE m # None
    <3> DEFINE given == IF answer[m] = 0 \/ refused THEN 2 ELSE answer[m]
    <3>1. answer' = [answer EXCEPT ![m] = given]
      BY <2>2 DEF BeginEnd
    <3>2. given \in 0 .. 2
      BY <2>2 DEF EndTyped, ServiceInv, CallInv
    <3> HIDE DEF given
    <3> QED BY <3>1, <3>2 DEF EndTyped
  <2> QED BY <2>1, <2>2
<1> QED BY <1>1, <1>2, <1>3 DEF EndTyped

LEMMA EndStepTyped ==
  ASSUME ServiceInv, EndTyped, SignalsTypeOK(Calls), EndStep
  PROVE  EndTyped' /\ SignalsTypeOK(Calls)'
<1> DEFINE m == currentCallManager
<1>1. CASE EndAudio \/ StopAudio \/ AudioStopped
  <2>1. UNCHANGED <<state, ender, socket, answer, signalVars>>
    BY <1>1 DEF EndAudio, StopAudio, AudioStopped, serviceVars, callVars
  <2>2. endStep' \in EndSteps
    BY <1>1 DEF EndAudio, StopAudio, AudioStopped, serviceVars, EndTyped, EndSteps
  <2> QED BY <2>1, <2>2, SignalsPass DEF EndTyped
<1>2. CASE EndSignals
  <2>1. UNCHANGED <<state, ender, socket, answer>> /\ endStep' \in EndSteps
    BY <1>2 DEF EndSignals, callVars, EndSteps
  <2>2. m \in Calls /\ (UNCHANGED signalVars \/ QueueHangup(m) \/ Interrupt(m))
    BY <1>2 DEF EndSignals, ServiceInv, CallInv
  <2> QED BY <2>1, <2>2, SignalsPass, SignalsStep DEF EndTyped
<1>3. CASE EndSocket
  <2>1. socket' \in [Calls -> {"none", "open", "closed"}]
    BY <1>3 DEF EndSocket, EndTyped
  <2>2. UNCHANGED <<state, ender, answer, signalVars>> /\ endStep' \in EndSteps
    BY <1>3 DEF EndSocket, EndSteps
  <2> QED BY <2>1, <2>2, SignalsPass DEF EndTyped
<1>4. CASE EndClear
  <2>1. /\ ender' \in Enders /\ state' \in ServiceStates /\ endStep' \in EndSteps
        /\ UNCHANGED <<socket, answer>>
    BY <1>4 DEF EndClear, Enders, ServiceStates, EndSteps
  <2>2. \/ UNCHANGED signalVars
        \/ ender[1] \in Calls /\ AfterDisconnect(ender[1])
    BY <1>4, EnderIs DEF EndClear, EndTyped
  <2> QED BY <2>1, <2>2, SignalsPass, SignalsStep DEF EndTyped
<1> QED BY <1>1, <1>2, <1>3, <1>4 DEF EndStep

LEMMA ThreadTyped ==
  ASSUME ServiceInv, EndTyped, SignalsTypeOK(Calls), NEW c \in Calls, CallThread(c)
  PROVE  EndTyped' /\ SignalsTypeOK(Calls)'
<1>1. CASE Connect(c)
  <2>1. UNCHANGED <<state, endStep, ender, answer, signalVars>>
    BY <1>1 DEF Connect, ThreadStep, serviceVars
  <2>2. socket' \in [Calls -> {"none", "open", "closed"}]
    BY <1>1 DEF Connect, EndTyped
  <2> QED BY <2>1, <2>2, SignalsPass DEF EndTyped
<1>2. CASE StartSignals(c)
  <2>1. UNCHANGED <<state, endStep, ender, answer, socket>>
    BY <1>2 DEF StartSignals, ThreadStep, serviceVars
  <2>2. ProcessSignals(c) \/ UNCHANGED signalVars
    BY <1>2 DEF StartSignals
  <2> QED BY <2>1, <2>2, EndTypedPass, SignalsPass, SignalsStep
<1>3. CASE \/ WaitForAnswer(c) \/ Negotiate(c) \/ CheckTerminated(c)
           \/ CreateAudio(c) \/ MuteAudio(c) \/ RunAudio(c) \/ AudioReturns(c)
  <2>1. UNCHANGED <<state, endStep, ender, answer, socket, signalVars>>
    BY <1>3 DEF WaitForAnswer, Negotiate, CheckTerminated, CreateAudio, MuteAudio,
       RunAudio, AudioReturns, ThreadStep, serviceVars, callVars
  <2> QED BY <2>1, EndTypedPass, SignalsPass
<1>4. CASE NotifyCallConnected(c) \/ Fail(c)
  <2>1. /\ UNCHANGED <<endStep, ender, answer, socket, signalVars>>
        /\ state' \in ServiceStates
    BY <1>4 DEF NotifyCallConnected, Fail, ServiceStates
  <2> QED BY <2>1, EndTypedPass, SignalsPass
<1>5. CASE ThreadEnds(c)
  <2>1. BeginEnd(<<c, "thread">>, FALSE) /\ UNCHANGED state
    BY <1>5 DEF ThreadEnds
  <2>2. <<c, "thread">> \in Enders
    BY DEF Enders
  <2> QED BY <2>1, <2>2, BeginEndTyped, SignalsPass
<1> QED BY <1>1, <1>2, <1>3, <1>4, <1>5 DEF CallThread

LEMMA EndTypedStep ==
  ASSUME ServiceInv, EndTyped, SignalsTypeOK(Calls), [Next]_vars
  PROVE  EndTyped' /\ SignalsTypeOK(Calls)'
<1>1. ASSUME UNCHANGED <<endStep, ender, socket, answer, signalVars>>,
             state' \in {state} \cup ServiceStates
      PROVE  EndTyped' /\ SignalsTypeOK(Calls)'
  BY <1>1, EndTypedPass, SignalsPass
<1>2. CASE HandleAnswerCall
  <2>1. answer' \in [Calls -> 0 .. 2] /\ state' \in ServiceStates
    BY <1>2 DEF HandleAnswerCall, EndTyped, ServiceStates
  <2>2. UNCHANGED <<endStep, ender, socket, signalVars>>
    BY <1>2 DEF HandleAnswerCall
  <2> QED BY <2>1, <2>2, SignalsPass DEF EndTyped
<1>3. CASE HandleSetMute
  BY <1>1, <1>3 DEF HandleSetMute, serviceVars
<1>4. CASE HandleHangupCall \/ HandleDenyCall \/ BusyTimerFires
  <2>1. PICK who \in {<<None, "user">>, <<None, "handler">>},
             refused \in BOOLEAN : BeginEnd(who, refused)
    BY <1>4 DEF HandleHangupCall, HandleDenyCall, BusyTimerFires
  <2>2. who \in Enders /\ state' \in {state} \cup ServiceStates
    BY <1>4 DEF HandleHangupCall, HandleDenyCall, BusyTimerFires, Enders,
       ServiceStates
  <2> QED BY <2>1, <2>2, BeginEndTyped, SignalsPass
<1>5. ASSUME NEW c \in Calls, HandleIncomingCall(c) \/ HandleOutgoingCall(c)
      PROVE  EndTyped' /\ SignalsTypeOK(Calls)'
  BY <1>1, <1>5 DEF HandleIncomingCall, HandleOutgoingCall, ServiceStates
<1>6. ASSUME NEW c \in Calls, ListenerEnds(c)
      PROVE  EndTyped' /\ SignalsTypeOK(Calls)'
  <2>1. BeginEnd(<<c, "listener">>, FALSE) /\ UNCHANGED state
    BY <1>6 DEF ListenerEnds
  <2>2. <<c, "listener">> \in Enders
    BY DEF Enders
  <2> QED BY <2>1, <2>2, BeginEndTyped, SignalsPass
<1>7. ASSUME NEW c \in Calls, Listens(c) \/ ServerSends(c) \/ RemoteSignal(c)
      PROVE  EndTyped' /\ SignalsTypeOK(Calls)'
  <2>1. UNCHANGED <<state, endStep, ender, socket, answer>>
    BY <1>7 DEF Listens, ServerSends, RemoteSignal, serviceVars, callVars
  <2>2. \/ Listener(c) \/ BeginSignal(c) \/ HangupAnswered(c)
        \/ \E next \in {"handled", "disconnected", "broken"} : Signal(c, next)
    BY <1>7 DEF Listens, ServerSends, RemoteSignal
  <2> QED BY <2>1, <2>2, EndTypedPass, SignalsStep
<1>8. ASSUME NEW c \in Calls, DeviceCalls(c)
      PROVE  EndTyped' /\ SignalsTypeOK(Calls)'
  BY <1>1, <1>8 DEF DeviceCalls, serviceVars, callVars
<1>9. CASE UNCHANGED vars
  BY <1>1, <1>9 DEF vars, serviceVars, callVars
<1> QED BY <1>2, <1>3, <1>4, <1>5, <1>6, <1>7, <1>8, <1>9, EndStepTyped,
           ThreadTyped DEF Next

LEMMA BudgetStep ==
  ASSUME Budget, [Next]_vars
  PROVE  Budget'
<1>1. CASE UNCHANGED <<busyTimers, used>>
  BY <1>1 DEF Budget
<1>2. ASSUME Spend, busyTimers' \in {busyTimers, busyTimers + 1}
      PROVE  Budget'
  BY <1>2, CallBoundAssumption DEF Budget, Spend
<1>3. CASE BusyTimerFires
  BY <1>3 DEF BusyTimerFires, Budget
<1>4. CASE HandleAnswerCall \/ HandleSetMute \/ HandleHangupCall \/ HandleDenyCall
  BY <1>2, <1>4 DEF HandleAnswerCall, HandleSetMute, HandleHangupCall,
     HandleDenyCall, serviceVars
<1>5. ASSUME NEW c \in Calls, RemoteSignal(c) PROVE Budget'
  BY <1>2, <1>5 DEF RemoteSignal
<1>6. ASSUME NEW c \in Calls,
             \/ HandleIncomingCall(c) \/ HandleOutgoingCall(c)
             \/ ListenerEnds(c) \/ Listens(c) \/ ServerSends(c) \/ DeviceCalls(c)
      PROVE  UNCHANGED <<busyTimers, used>>
  BY <1>6 DEF HandleIncomingCall, HandleOutgoingCall, ListenerEnds, Listens,
     ServerSends, DeviceCalls, serviceVars, ghostVars
<1>7. ASSUME NEW c \in Calls, CallThread(c)
      PROVE  UNCHANGED <<busyTimers, used>>
  BY <1>7 DEF CallThread, Connect, StartSignals, WaitForAnswer, Negotiate,
     NotifyCallConnected, CheckTerminated, CreateAudio, MuteAudio, RunAudio,
     AudioReturns, Fail, ThreadEnds, ThreadStep, serviceVars, ghostVars
<1>8. EndStep => UNCHANGED <<busyTimers, used>>
  BY DEF EndStep, EndAudio, StopAudio, AudioStopped, EndSignals, EndSocket,
     EndClear, serviceVars, ghostVars
<1>9. UNCHANGED vars => UNCHANGED <<busyTimers, used>>
  BY DEF vars, serviceVars, ghostVars
<1> QED BY <1>1, <1>3, <1>4, <1>5, <1>6, <1>7, <1>8, <1>9 DEF Next

(* The state of the service, of its calls, their audio and their           *)
(* signalling keeps its type: in particular nobody but the user, the       *)
(* handler, a call thread or its listener ends a call, and the handler     *)
(* holds no more hang-ups than busy signals came.                          *)
THEOREM ServiceTypeCorrect == Spec => []TypeOK
<1>1. Init => SignalsTypeOK(Calls) /\ EndTyped /\ Budget
  <2> SUFFICES ASSUME Init PROVE SignalsTypeOK(Calls) /\ EndTyped /\ Budget
    OBVIOUS
  <2>1. SignalsTypeOK(Calls)
    BY DEF Init, SignalsInit, SignalsTypeOK, Doing
  <2>2. EndTyped
    BY DEF Init, EndTyped, ServiceStates, EndSteps, Enders
  <2>3. Budget
    BY CallBoundAssumption DEF Init, Budget
  <2> QED BY <2>1, <2>2, <2>3
<1>2. Init => QuietInv /\ MutedInv
  BY InitQuiet, InitMuted
<1>3. /\ ServiceInv /\ MuteTypeOK /\ QuietInv /\ MutedInv
      /\ SignalsTypeOK(Calls) /\ EndTyped /\ Budget /\ [Next]_vars
      => /\ QuietInv' /\ MutedInv'
         /\ SignalsTypeOK(Calls)' /\ EndTyped' /\ Budget'
  BY QuietStep, MutedStep, EndTypedStep, BudgetStep
<1>4. /\ ServiceInv /\ MuteTypeOK /\ QuietInv /\ MutedInv
      /\ SignalsTypeOK(Calls) /\ EndTyped /\ Budget
      => TypeOK
  <2> SUFFICES ASSUME Budget PROVE busyTimers \in 0 .. MaxEvents
    BY DEF ServiceInv, AudioInv, CallInv, MuteTypeOK, QuietInv, MutedInv,
       EndTyped, Budget, TypeOK
  <2> QED BY CallBoundAssumption DEF Budget
<1> QED BY <1>1, <1>2, <1>3, <1>4, CallsKeepToAudio, PTL DEF Spec
=============================================================================
