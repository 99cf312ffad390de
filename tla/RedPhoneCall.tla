---------------------------- MODULE RedPhoneCall ----------------------------
(***************************************************************************)
(* The RedPhoneService with its calls: each a CallManager on a thread of   *)
(* its own, with a SignalManager and the native audio.  The service ends   *)
(* a call under its lock; the call threads, the listeners, the delayed     *)
(* hang-up after a busy signal and the user all ask it to, and it ends     *)
(* whatever call is the current one then.  Much of what the call thread    *)
(* reports changes the service's state without the lock.                   *)
(***************************************************************************)
EXTENDS CallAudio, SignalManager

CONSTANTS
  Outgoing,       \* the calls the user makes; the others come in
  Connecting,     \* bound: the calls whose negotiation may succeed
  MaxEvents       \* bound: what the user does beside calling,
                  \* and the signals and errors of the signalling sockets

None == "none"

ASSUME CallsAssumption ==
  /\ None \notin Calls
  /\ Outgoing \subseteq Calls /\ Connecting \subseteq Calls
ASSUME CallBoundAssumption == MaxEvents \in Nat

(* Where a call thread is.  "check" and "create" are the two sides of the  *)
(* last look at the flag; "failing" first sets the service's state, and    *)
(* "ending" asks for the end of the call.                                  *)
Places == {"new", "connect", "signals", "ring", "negotiate", "report", "check",
           "create", "mute", "audio", "failing", "ending", "over"}

ServiceStates == {"IDLE", "RINGING", "DIALING", "ANSWERING", "CONNECTED"}

(* How far the service is with ending a call, under its lock.              *)
EndSteps == {"no", "audio", "stopping", "signals", "interrupt", "socket",
             "clear"}

VARIABLES
  state,               \* the service's
  currentCallManager,
  endStep,             \* "no": the lock is free
  ender,               \* who ends the call
  thread,              \* [Calls -> Places]
  terminated,          \* CallManager.terminated
  socket,              \* the ZRTPSocket: none, open, closed
  answer,              \* ResponderCallManager.answer: 0, 1, 2
  muteEnabled,         \* CallManager.muteEnabled
  muteParameter,       \* what runAudio was given
  busyTimers,          \* hang-ups the service's handler holds
  missed, toggled,     \* ghosts, see Quiet and MuteObeyed
  used                 \* bound

serviceVars == <<state, currentCallManager, endStep, ender, busyTimers>>
callVars    == <<thread, terminated, socket, answer, muteEnabled,
                 muteParameter>>
ghostVars   == <<missed, toggled, used>>
vars == <<audio, signalVars, serviceVars, callVars, ghostVars>>

Nobody == <<None, "nobody">>
Enders == {Nobody, <<None, "user">>, <<None, "handler">>}
            \cup (Calls \X {"thread", "listener"})

Init ==
  /\ AudioInit /\ SignalsInit(Calls)
  /\ state = "IDLE" /\ currentCallManager = None
  /\ endStep = "no" /\ ender = Nobody /\ busyTimers = 0
  /\ thread        = [c \in Calls |-> "new"]
  /\ terminated    = [c \in Calls |-> FALSE]
  /\ socket        = [c \in Calls |-> "none"]
  /\ answer        = [c \in Calls |-> 0]
  /\ muteEnabled   = [c \in Calls |-> FALSE]
  /\ muteParameter = [c \in Calls |-> FALSE]
  /\ missed        = [c \in Calls |-> FALSE]
  /\ toggled       = [c \in Calls |-> FALSE]
  /\ used = 0

Spend == used < MaxEvents /\ used' = used + 1

Go(c, place) == thread' = [thread EXCEPT ![c] = place]

-----------------------------------------------------------------------------
(* Intents: onIntentReceived takes the lock, on a new thread for each.     *)

LockFree == endStep = "no"

(* Mutant: the phone is busy only while the call is connected.             *)
BusyIfConnected == currentCallManager # None /\ state = "CONNECTED"

IsBusy == currentCallManager # None /\ state # "IDLE"

(* An incoming call while busy is only reported as missed.                 *)
HandleIncomingCall(c) ==
  /\ LockFree /\ c \notin Outgoing /\ thread[c] = "new"
  /\ ~IsBusy
  /\ state' = "RINGING" /\ currentCallManager' = c
  /\ Go(c, "signals")
  /\ UNCHANGED <<audio, signalVars, endStep, ender, busyTimers, terminated,
                 socket, answer, muteEnabled, muteParameter, ghostVars>>

HandleOutgoingCall(c) ==
  /\ LockFree /\ c \in Outgoing /\ thread[c] = "new"
  /\ state = "IDLE"
  /\ state' = "DIALING" /\ currentCallManager' = c
  /\ Go(c, "connect")
  /\ UNCHANGED <<audio, signalVars, endStep, ender, busyTimers, terminated,
                 socket, answer, muteEnabled, muteParameter, ghostVars>>

(* Also when the call has ended in the meantime.                           *)
HandleAnswerCall ==
  /\ LockFree /\ currentCallManager \notin Outgoing
  /\ \E c \in Calls \ Outgoing : thread[c] # "new"
  /\ Spend
  /\ state' = "ANSWERING"
  /\ answer' = [c \in Calls |-> IF c = currentCallManager THEN 1 ELSE answer[c]]
  /\ UNCHANGED <<audio, signalVars, currentCallManager, endStep, ender,
                 busyTimers, thread, terminated, socket, muteEnabled,
                 muteParameter, missed, toggled>>

HandleSetMute ==
  /\ LockFree /\ currentCallManager # None
  /\ Spend
  /\ LET c == currentCallManager
         enabled == ~muteEnabled[c]
     IN  /\ muteEnabled' = [muteEnabled EXCEPT ![c] = enabled]
         /\ IF audio[c].object # "none" THEN SetNativeMute(c, enabled)
                                        ELSE UNCHANGED audio
         /\ toggled' = [toggled EXCEPT ![c] = @ \/ thread[c] \in {"create", "mute"}]
  /\ UNCHANGED <<signalVars, serviceVars, thread, terminated, socket, answer,
                 muteParameter, missed>>

-----------------------------------------------------------------------------
(* RedPhoneService.terminate with CallManager.terminate, under the lock.   *)

(* The responder answers no first, if nothing was answered.                *)
BeginEnd(who, refused) ==
  /\ LockFree
  /\ ender' = who
  /\ IF currentCallManager = None
     THEN endStep' = "clear" /\ UNCHANGED <<terminated, answer>>
     ELSE LET c == currentCallManager IN
          /\ endStep' = "audio"
          /\ terminated' = [terminated EXCEPT ![c] = TRUE]
          /\ answer' = [answer EXCEPT ![c] = IF @ = 0 \/ refused THEN 2 ELSE @]
  /\ UNCHANGED <<audio, signalVars, currentCallManager, thread, socket,
                 muteEnabled, muteParameter, missed, toggled>>

(* callAudioManager is null for good, or the thread is about to set it.    *)
EndAudio ==
  /\ endStep = "audio"
  /\ LET c == currentCallManager IN
     IF audio[c].object = "none"
     THEN /\ endStep' = "signals"
          /\ missed' = [missed EXCEPT ![c] = thread[c] = "create"]
          /\ UNCHANGED audio
     ELSE endStep' = "stopping" /\ StopRunning(c) /\ UNCHANGED missed
  /\ UNCHANGED <<signalVars, state, currentCallManager, ender, busyTimers,
                 callVars, toggled, used>>

StopAudio ==
  /\ endStep = "stopping"
  /\ StopStep(currentCallManager)
  /\ UNCHANGED <<signalVars, serviceVars, callVars, ghostVars>>

AudioStopped ==
  /\ endStep = "stopping" /\ audio[currentCallManager].stop = "over"
  /\ endStep' = "signals"
  /\ UNCHANGED <<audio, signalVars, state, currentCallManager, ender,
                 busyTimers, callVars, ghostVars>>

(* Mutant: the listener is interrupted before the hang-up is queued.       *)
EndSignalsSwapped ==
  /\ LET c == currentCallManager IN
     \/ /\ endStep = "signals"
        /\ IF signalManager[c] THEN endStep' = "interrupt" /\ Interrupt(c)
                               ELSE endStep' = "socket" /\ UNCHANGED signalVars
     \/ endStep = "interrupt" /\ endStep' = "socket" /\ QueueHangup(c)
  /\ UNCHANGED <<audio, state, currentCallManager, ender, busyTimers, callVars,
                 ghostVars>>

EndSignals ==
  /\ LET c == currentCallManager IN
     \/ /\ endStep = "signals"
        /\ IF signalManager[c] THEN endStep' = "interrupt" /\ QueueHangup(c)
                               ELSE endStep' = "socket" /\ UNCHANGED signalVars
     \/ endStep = "interrupt" /\ endStep' = "socket" /\ Interrupt(c)
  /\ UNCHANGED <<audio, state, currentCallManager, ender, busyTimers, callVars,
                 ghostVars>>

EndSocket ==
  /\ endStep = "socket"
  /\ endStep' = "clear"
  /\ socket' = [socket EXCEPT ![currentCallManager] =
                  IF @ = "open" THEN "closed" ELSE @]
  /\ UNCHANGED <<audio, signalVars, state, currentCallManager, ender,
                 busyTimers, thread, terminated, answer, muteEnabled,
                 muteParameter, ghostVars>>

(* The one who asked goes on: a call thread has nothing left to do.        *)
EndClear ==
  /\ endStep = "clear"
  /\ endStep' = "no" /\ ender' = Nobody
  /\ currentCallManager' = None /\ state' = "IDLE"
  /\ IF ender[2] = "thread" THEN Go(ender[1], "over") ELSE UNCHANGED thread
  /\ IF ender[2] = "listener" THEN AfterDisconnect(ender[1])
                              ELSE UNCHANGED signalVars
  /\ UNCHANGED <<audio, busyTimers, terminated, socket, answer,
                 muteEnabled, muteParameter, ghostVars>>

EndStep == EndAudio \/ StopAudio \/ AudioStopped \/ EndSignals \/ EndSocket
           \/ EndClear

(* Who ends calls.                                                         *)
HandleHangupCall ==
  /\ BeginEnd(<<None, "user">>, FALSE) /\ Spend
  /\ UNCHANGED <<state, busyTimers>>

HandleDenyCall ==
  /\ currentCallManager \notin Outgoing
  /\ \E c \in Calls \ Outgoing : thread[c] # "new"
  /\ BeginEnd(<<None, "user">>, TRUE) /\ Spend
  /\ state' = "IDLE"
  /\ UNCHANGED busyTimers

(* Mutant: the hang-up of the busy signal is never taken off the handler.  *)
BusyTimerUnarmed ==
  /\ busyTimers' = busyTimers - 1
  /\ BeginEnd(<<None, "handler">>, FALSE)
  /\ UNCHANGED <<state, used>>

BusyTimerFires ==
  /\ busyTimers > 0
  /\ busyTimers' = busyTimers - 1
  /\ BeginEnd(<<None, "handler">>, FALSE)
  /\ UNCHANGED <<state, used>>

ThreadEnds(c) ==
  /\ thread[c] = "ending"
  /\ BeginEnd(<<c, "thread">>, FALSE)
  /\ UNCHANGED <<state, busyTimers, used>>

ListenerEnds(c) ==
  /\ task[c] \in {"disconnected", "broken"}
  /\ BeginEnd(<<c, "listener">>, FALSE)
  /\ UNCHANGED <<state, busyTimers, used>>

-----------------------------------------------------------------------------
(* The listener.                                                           *)

Listens(c) ==
  /\ Listener(c)
  /\ UNCHANGED <<audio, serviceVars, callVars, ghostVars>>

(* What the server does: it begins a signal, and may never finish it, or   *)
(* answers the hang-up.                                                    *)
ServerSends(c) ==
  /\ BeginSignal(c) \/ HangupAnswered(c)
  /\ UNCHANGED <<audio, serviceVars, callVars, ghostVars>>

(* Ringing and keep-alive change nothing; a busy signal arms the handler.  *)
RemoteSignal(c) ==
  /\ Spend
  /\ \/ /\ \E next \in {"handled", "disconnected", "broken"} : Signal(c, next)
        /\ UNCHANGED busyTimers
     \/ Signal(c, "handled") /\ busyTimers' = busyTimers + 1
  /\ UNCHANGED <<audio, state, currentCallManager, endStep, ender, callVars,
                 missed, toggled>>

-----------------------------------------------------------------------------
(* The call thread.  "Fails" is any report that leads to terminate; those  *)
(* other than a broken connection or audio set the state to IDLE first.    *)

ThreadStep(c, place) ==
  /\ Go(c, place)
  /\ UNCHANGED <<serviceVars, terminated, answer, muteEnabled, ghostVars>>

(* The outgoing call asks the server for the session, the incoming one     *)
(* connects to the relay after the user's answer; then the ZRTPSocket.     *)
Connect(c) ==
  /\ thread[c] = "connect"
  /\ \/ \E place \in {"failing", "ending"} :
           ThreadStep(c, place) /\ UNCHANGED socket
     \/ /\ ThreadStep(c, IF c \in Outgoing THEN "signals" ELSE "negotiate")
        /\ socket' = [socket EXCEPT ![c] = "open"]
  /\ UNCHANGED <<audio, signalVars, muteParameter>>

(* The incoming call tells the server that it rings, which may fail.       *)
StartSignals(c) ==
  /\ thread[c] = "signals"
  /\ \/ /\ ProcessSignals(c)
        /\ ThreadStep(c, IF c \in Outgoing THEN "negotiate" ELSE "ring")
     \/ /\ c \notin Outgoing
        /\ \E place \in {"failing", "ending"} : ThreadStep(c, place)
        /\ UNCHANGED signalVars
  /\ UNCHANGED <<audio, socket, muteParameter>>

WaitForAnswer(c) ==
  /\ thread[c] = "ring" /\ answer[c] # 0
  /\ ThreadStep(c, IF answer[c] = 1 THEN "connect" ELSE "over")
  /\ UNCHANGED <<audio, signalVars, socket, muteParameter>>

(* The handshake of ZrtpHandshake, with its look at the flag at the end.   *)
Negotiate(c) ==
  /\ thread[c] = "negotiate"
  /\ \E place \in {"failing", "ending"}
                \cup (IF c \in Connecting THEN {"report"} ELSE {}) :
       ThreadStep(c, IF terminated[c] THEN "over" ELSE place)
  /\ UNCHANGED <<audio, signalVars, socket, muteParameter>>

(* Without the lock, and whatever call is the current one by now.          *)
NotifyCallConnected(c) ==
  /\ thread[c] = "report"
  /\ state' = "CONNECTED"
  /\ Go(c, "check")
  /\ UNCHANGED <<audio, signalVars, currentCallManager, endStep, ender,
                 busyTimers, terminated, socket, answer, muteEnabled,
                 muteParameter, ghostVars>>

(* Mutant: the flag is not looked at again before the audio.               *)
NeverChecked(c) ==
  /\ thread[c] = "check"
  /\ ThreadStep(c, "create")
  /\ muteParameter' = [muteParameter EXCEPT ![c] = muteEnabled[c]]
  /\ UNCHANGED <<audio, signalVars, socket>>

CheckTerminated(c) ==
  /\ thread[c] = "check"
  /\ IF terminated[c]
     THEN ThreadStep(c, "over") /\ UNCHANGED muteParameter
     ELSE /\ ThreadStep(c, "create")
          /\ muteParameter' = [muteParameter EXCEPT ![c] = muteEnabled[c]]
  /\ UNCHANGED <<audio, signalVars, socket>>

(* The descriptor of a closed socket is refused, and create may fail; the  *)
(* native mute is off in a new object.                                     *)
CreateAudio(c) ==
  /\ thread[c] = "create"
  /\ \/ ThreadStep(c, "ending") /\ UNCHANGED audio
     \/ socket[c] = "open" /\ Build(c) /\ ThreadStep(c, "mute")
  /\ UNCHANGED <<signalVars, socket, muteParameter>>

(* Mutant: a new object is left unmuted.                                   *)
LeaveUnmuted(c) ==
  /\ thread[c] = "mute"
  /\ UNCHANGED audio
  /\ ThreadStep(c, "audio")
  /\ UNCHANGED <<signalVars, socket, muteParameter>>

MuteAudio(c) ==
  /\ thread[c] = "mute"
  /\ SetNativeMute(c, muteParameter[c])
  /\ ThreadStep(c, "audio")
  /\ UNCHANGED <<signalVars, socket, muteParameter>>

RunAudio(c) ==
  /\ thread[c] = "audio"
  /\ StartRunning(c) \/ StartStep(c)
  /\ UNCHANGED <<signalVars, serviceVars, callVars, ghostVars>>

AudioReturns(c) ==
  /\ thread[c] = "audio" /\ audio[c].start \in {"over", "failed"}
  /\ ThreadStep(c, IF audio[c].start = "over" THEN "over" ELSE "ending")
  /\ UNCHANGED <<audio, signalVars, socket, muteParameter>>

Fail(c) ==
  /\ thread[c] = "failing"
  /\ state' = "IDLE"
  /\ Go(c, "ending")
  /\ UNCHANGED <<audio, signalVars, currentCallManager, endStep, ender,
                 busyTimers, terminated, socket, answer, muteEnabled,
                 muteParameter, ghostVars>>

CallThread(c) ==
  \/ Connect(c) \/ StartSignals(c) \/ WaitForAnswer(c) \/ Negotiate(c)
  \/ NotifyCallConnected(c) \/ CheckTerminated(c) \/ CreateAudio(c)
  \/ MuteAudio(c) \/ RunAudio(c) \/ AudioReturns(c) \/ Fail(c)
  \/ ThreadEnds(c)

DeviceCalls(c) ==
  /\ \E d \in Devices : CallBack(c, d) \/ CallbackEnds(c, d)
  /\ UNCHANGED <<signalVars, serviceVars, callVars, ghostVars>>

-----------------------------------------------------------------------------
(* Nothing is said of a process that has touched a deleted object.         *)
Defined == \A c \in Calls : ~audio[c].misused

Next ==
  /\ Defined
  /\ \/ HandleAnswerCall \/ HandleSetMute \/ HandleHangupCall
     \/ HandleDenyCall \/ BusyTimerFires \/ EndStep
     \/ \E c \in Calls : \/ HandleIncomingCall(c) \/ HandleOutgoingCall(c)
                         \/ ListenerEnds(c) \/ Listens(c)
                         \/ ServerSends(c) \/ RemoteSignal(c)
                         \/ CallThread(c) \/ DeviceCalls(c)

Spec == Init /\ [][Next]_vars

(* The service, the call threads, the listeners and the devices go on; the *)
(* lock is given to who waits for it.  Nothing is assumed of the user, of  *)
(* the other side and of the server: a thread that reads from the server   *)
(* without a timeout may stay there.                                       *)
FairSpec ==
  /\ Spec
  /\ WF_vars(Defined /\ EndStep)
  /\ \A c \in Calls :
       /\ WF_vars(Defined /\ thread[c] \notin {"connect", "signals"} /\ CallThread(c))
       /\ WF_vars(Defined /\ (Listens(c) \/ ListenerEnds(c)))
       /\ \A d \in Devices :
            WF_vars(Defined /\ CallbackEnds(c, d)
                    /\ UNCHANGED <<signalVars, serviceVars, callVars, ghostVars>>)
-----------------------------------------------------------------------------
(* Properties                                                              *)

TypeOK ==
  /\ AudioTypeOK /\ SignalsTypeOK(Calls)
  /\ state \in ServiceStates
  /\ currentCallManager \in Calls \cup {None}
  /\ endStep \in EndSteps /\ ender \in Enders
  /\ busyTimers \in 0 .. MaxEvents
  /\ thread \in [Calls -> Places]
  /\ terminated \in [Calls -> BOOLEAN]
  /\ socket \in [Calls -> {"none", "open", "closed"}]
  /\ answer \in [Calls -> 0 .. 2]
  /\ muteEnabled \in [Calls -> BOOLEAN] /\ muteParameter \in [Calls -> BOOLEAN]
  /\ used \in 0 .. MaxEvents
  /\ missed \in [Calls -> BOOLEAN] /\ toggled \in [Calls -> BOOLEAN]

(* After the service has ended a call, neither its microphone nor its      *)
(* player runs, unless the end fell between the thread's last look at the  *)
(* flag and the assignment of callAudioManager.                            *)
Quiet ==
  \A c \in Calls :
    /\ terminated[c] /\ (currentCallManager = c => endStep \in {"signals",
                                        "interrupt", "socket", "clear"})
    /\ ~missed[c]
    => audio[c].on = {}

(* The audio of the current call is muted as the user wants it, unless the *)
(* switch was turned while the call thread set up the audio.               *)
MuteObeyed ==
  \A c \in Calls :
    audio[c].start \in {"loop", "receive"} /\ ~toggled[c]
      => audio[c].muted = muteEnabled[c]

(* A call is displaced by another without having been ended only while the *)
(* thread of some call reports its failure.                                *)
DisplacedOnlyByFailure ==
  [][\/ currentCallManager = None
     \/ currentCallManager' \in {None, currentCallManager}
     \/ \E c \in Calls : thread[c] = "ending"]_currentCallManager

(* What keeps stop() waiting for ever, with the service's lock held: audio *)
(* that failed to start, and a start() that sets the flag again.           *)
StopsInVain ==
  \E c \in Calls : /\ audio[c].stop = "wait"
                   /\ audio[c].start = "failed" \/ audio[c].running

(* The service does not stay in the end of a call, unless stop() came so   *)
(* early or the start failed.                                              *)
HangupReturns == endStep # "no" ~> endStep = "no" \/ ~Defined \/ StopsInVain

(* The server is told of a call that was ended, although the listener uses *)
(* the same thread and resets the flag that interrupts it, unless the      *)
(* server never finishes a signal that it has begun to send.  What it does *)
(* with the hang-up, and whether it answers, does not matter.              *)
HangupTold ==
  \A c \in Calls :
    []<>(task[c] # "reading")
      => ((\E i \in 1 .. Len(queue[c]) : queue[c][i] = "hangup")
            ~> task[c] \in {"told", "shut"} \/ ~Defined \/ StopsInVain)
=============================================================================
