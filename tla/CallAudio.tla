----------------------------- MODULE CallAudio ------------------------------
(***************************************************************************)
(* The native audio of calls: CallAudioManager with its MicrophoneReader   *)
(* and AudioPlayer.  The call thread is inside start() for as long as the  *)
(* audio runs; another thread runs stop() and deletes the object; the      *)
(* devices of OpenSL ES call back on threads of their own.                 *)
(*                                                                         *)
(* stop() waits for start() by the flag "finished" and for the callbacks   *)
(* by a sleep.  What a thread does to a deleted object is undefined: the   *)
(* model notes it as misused and says nothing of what comes after.         *)
(***************************************************************************)
EXTENDS Naturals, FiniteSets

CONSTANTS
  Calls,
  Watched  \* bound: the devices whose callbacks are followed

Devices == {"microphone", "player"}

ASSUME WatchedAssumption == Watched \subseteq Devices

(* Where start() is: not called, before finished = 0, before the engine,   *)
(* inside the start of a device, in the loop, waiting for a packet,        *)
(* returned, or returned with -1.                                          *)
StartSteps == {"no", "unfinish", "engine", "microphone", "player", "loop",
               "receive", "over", "failed"}
Starting   == {"no", "unfinish", "engine", "microphone", "player"}

(* Where stop() and the destructor are.                                    *)
StopSteps == {"no", "microphone", "player", "wait", "sleep", "delete", "over"}

Audio == [object : {"none", "built", "deleted"}, start : StartSteps,
          stop : StopSteps, running : BOOLEAN, finished : BOOLEAN,
          on : SUBSET Devices, calling : SUBSET Devices, muted : BOOLEAN,
          hurried : BOOLEAN, misused : BOOLEAN]

VARIABLE audio
  \* [Calls -> Audio]: "on" are the devices that run, "calling" those whose
  \* callback runs.  Ghosts: "hurried", stop() came before the loop was
  \* reached; "misused", a deleted object was touched.

NoAudio == [object |-> "none", start |-> "no", stop |-> "no",
            running |-> FALSE, finished |-> TRUE, on |-> {}, calling |-> {},
            muted |-> FALSE, hurried |-> FALSE, misused |-> FALSE]

AudioInit == audio = [c \in Calls |-> NoAudio]

Become(c, new) == audio' = [audio EXCEPT ![c] = new]

(* Start() and the callbacks touch the object at every step.               *)
Use(c, new) ==
  Become(c, IF audio[c].object = "deleted"
            THEN [audio[c] EXCEPT !.misused = TRUE] ELSE new)

-----------------------------------------------------------------------------
(* The call thread                                                         *)

Build(c) ==
  /\ audio[c].object = "none"
  /\ Become(c, [audio[c] EXCEPT !.object = "built"])

SetNativeMute(c, enabled) == Use(c, [audio[c] EXCEPT !.muted = enabled])

StartRunning(c) ==
  /\ audio[c].object # "none" /\ audio[c].start = "no"
  /\ Use(c, [audio[c] EXCEPT !.running = TRUE, !.start = "unfinish"])

StartUnfinished(c) ==
  /\ audio[c].start = "unfinish"
  /\ Use(c, [audio[c] EXCEPT !.finished = FALSE, !.start = "engine"])

(* Engine, codec, sender, receiver, jitter buffer: any may fail.           *)
StartEngine(c) ==
  /\ audio[c].start = "engine"
  /\ \E next \in {"microphone", "failed"} :
       Use(c, [audio[c] EXCEPT !.start = next])

StartDevice(c, d) ==
  /\ audio[c].start = d
  /\ \/ Use(c, [audio[c] EXCEPT !.on = @ \cup {d},
                                !.start = IF d = "microphone" THEN "player"
                                                              ELSE "loop"])
     \/ Use(c, [audio[c] EXCEPT !.start = "failed"])

(* while (running), and what follows the loop.                             *)
Loop(c) ==
  /\ audio[c].start = "loop"
  /\ Use(c, IF audio[c].running
            THEN [audio[c] EXCEPT !.start = "receive"]
            ELSE [audio[c] EXCEPT !.finished = TRUE, !.start = "over"])

(* Mutant: without a timeout, only a packet ends the wait; the other side  *)
(* sends none once it has been told of the end.                            *)
ReceiveWithoutTimeout(c) ==
  /\ audio[c].start = "receive" /\ audio[c].running
  /\ Use(c, [audio[c] EXCEPT !.start = "loop"])

(* A packet, or none for the five seconds set in getFileDescriptor.        *)
ReceiveReturns(c) ==
  /\ audio[c].start = "receive"
  /\ Use(c, [audio[c] EXCEPT !.start = "loop"])

StartStep(c) ==
  \/ StartUnfinished(c) \/ StartEngine(c)
  \/ \E d \in Devices : StartDevice(c, d)
  \/ Loop(c) \/ ReceiveReturns(c)

-----------------------------------------------------------------------------
(* The devices                                                             *)

CallBack(c, d) ==
  /\ d \in (audio[c].on \cap Watched) \ audio[c].calling
  /\ Use(c, [audio[c] EXCEPT !.calling = @ \cup {d}])

CallbackEnds(c, d) ==
  /\ d \in audio[c].calling
  /\ Use(c, [audio[c] EXCEPT !.calling = @ \ {d}])

-----------------------------------------------------------------------------
(* The thread that ends the call: stop(), then the destructor.             *)

StopRunning(c) ==
  /\ audio[c].object = "built" /\ audio[c].stop = "no"
  /\ Become(c, [audio[c] EXCEPT !.running = FALSE, !.stop = "microphone",
                                !.hurried = @ \/ audio[c].start \in Starting])

(* Destroying a device while start() sets it up is a race: the device may  *)
(* be gone, or its pointers null, under the hands of start().              *)
StopDevice(c, d) ==
  /\ audio[c].stop = d
  /\ \/ Become(c, [audio[c] EXCEPT !.on = @ \ {d},
                                   !.stop = IF d = "microphone" THEN "player"
                                                                ELSE "wait"])
     \/ /\ audio[c].start = d
        /\ Become(c, [audio[c] EXCEPT !.misused = TRUE])

(* Mutant: the wait for start() to finish is left out.                     *)
NotWaited(c) ==
  /\ audio[c].stop = "wait"
  /\ Become(c, [audio[c] EXCEPT !.stop = "sleep"])

Waited(c) ==
  /\ audio[c].stop = "wait" /\ audio[c].finished
  /\ Become(c, [audio[c] EXCEPT !.stop = "sleep"])

(* Mutant: no time is left for the callbacks.                              *)
NotSlept(c) ==
  /\ audio[c].stop = "sleep"
  /\ Become(c, [audio[c] EXCEPT !.stop = "delete"])

(* The comment says 40 ms, the duration of a frame: a callback that runs   *)
(* when its device is stopped ends within them.                            *)
Slept(c) ==
  /\ audio[c].stop = "sleep"
  /\ audio[c].calling \subseteq audio[c].on
  /\ Become(c, [audio[c] EXCEPT !.stop = "delete"])

(* The destructor stops the devices once more.                             *)
Delete(c) ==
  /\ audio[c].stop = "delete"
  /\ Become(c, [audio[c] EXCEPT !.object = "deleted", !.on = {},
                                !.stop = "over"])

StopStep(c) ==
  \/ \E d \in Devices : StopDevice(c, d)
  \/ Waited(c) \/ Slept(c) \/ Delete(c)

(* Muting is done by the call thread before start(), and by the service    *)
(* while the call is not being ended.                                      *)
AudioNext ==
  \E c \in Calls :
    \/ Build(c) \/ StartRunning(c) \/ StartStep(c)
    \/ /\ audio[c].stop = "no" \/ audio[c].start = "no"
       /\ \E enabled \in BOOLEAN : SetNativeMute(c, enabled)
    \/ \E d \in Devices : CallBack(c, d) \/ CallbackEnds(c, d)
    \/ StopRunning(c) \/ StopStep(c)

AudioSpec == AudioInit /\ [][AudioNext]_audio
-----------------------------------------------------------------------------
(* Properties                                                              *)

AudioTypeOK == audio \in [Calls -> Audio]

(* When the loop was reached before the call was ended, nobody touches the *)
(* audio after it is deleted: neither the call thread nor a callback that  *)
(* was running; and then no device is left on.                             *)
SafeTeardown ==
  \A c \in Calls :
    ~audio[c].hurried =>
      /\ ~audio[c].misused
      /\ audio[c].object = "deleted" =>
           /\ audio[c].on = {} /\ audio[c].calling = {}
           /\ audio[c].start \in {"over", "failed"}
=============================================================================
