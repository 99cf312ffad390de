--------------------------- MODULE SignalManager ---------------------------
(***************************************************************************)
(* The signalling of calls: a SignalManager per call, an executor with one *)
(* thread that listens and queues itself again, until another thread       *)
(* queues the hang-up and interrupts it.                                   *)
(***************************************************************************)
EXTENDS Sequences

(* What the executor's thread does: nothing, listens, reads a signal,      *)
(* works on it, waits for the service to end the call on the remote        *)
(* hang-up or on an error of the socket, has reset the flag, hangs up, has *)
(* told the server and waits for its answer, or has been shut down.        *)
Doing == {"nothing", "listen", "reading", "handled", "disconnected", "broken",
          "requeue", "hangup", "told", "shut"}

VARIABLES
  task,          \* what the thread of a call's executor does
  queue,         \* tasks that wait for the thread
  interrupted,   \* the flag
  signalManager  \* CallManager.signalManager is set

signalVars == <<task, queue, interrupted, signalManager>>

SignalsInit(calls) ==
  /\ task          = [c \in calls |-> "nothing"]
  /\ queue         = [c \in calls |-> <<>>]
  /\ interrupted   = [c \in calls |-> FALSE]
  /\ signalManager = [c \in calls |-> FALSE]

Execute(c, runnable) == queue' = [queue EXCEPT ![c] = Append(@, runnable)]
Turn(c, doing)       == task'  = [task  EXCEPT ![c] = doing]

ProcessSignals(c) ==
  /\ ~signalManager[c]
  /\ signalManager' = [signalManager EXCEPT ![c] = TRUE]
  /\ Execute(c, "listen")
  /\ UNCHANGED <<task, interrupted>>

RunTask(c) ==
  /\ task[c] = "nothing" /\ queue[c] # <<>>
  /\ Turn(c, Head(queue[c]))
  /\ queue' = [queue EXCEPT ![c] = Tail(@)]
  /\ UNCHANGED <<interrupted, signalManager>>

(* waitForSignal comes back every 1500 ms, so that the flag is seen.       *)
StopListening(c) ==
  /\ task[c] = "listen" /\ interrupted[c]
  /\ Turn(c, "handled")
  /\ UNCHANGED <<queue, interrupted, signalManager>>

(* The server has begun to send a signal; the flag is looked at once more, *)
(* and then the rest is read without a timeout.                            *)
BeginSignal(c) ==
  /\ task[c] = "listen" /\ ~interrupted[c]
  /\ Turn(c, "reading")
  /\ UNCHANGED <<queue, interrupted, signalManager>>

(* The signal was read: a hang-up, or another that needs no thread of the  *)
(* service to end the call now; or the socket failed.                      *)
Signal(c, next) ==
  /\ task[c] \in {"reading", "listen"}
  /\ task[c] = "listen" => next = "broken"
  /\ Turn(c, next)
  /\ UNCHANGED <<queue, interrupted, signalManager>>

(* The listener has ended the call: after a hang-up it answers, which may  *)
(* fail, and goes on; after an error it does not.                          *)
AfterDisconnect(c) ==
  /\ \/ /\ task[c] = "disconnected"
        /\ Turn(c, "handled") \/ Turn(c, "broken")
     \/ task[c] = "broken" /\ Turn(c, "nothing")
  /\ UNCHANGED <<queue, interrupted, signalManager>>

ResetInterrupted(c) ==
  /\ task[c] = "handled"
  /\ Turn(c, "requeue")
  /\ interrupted' = [interrupted EXCEPT ![c] = FALSE]
  /\ UNCHANGED <<queue, signalManager>>

Requeue(c) ==
  /\ task[c] = "requeue"
  /\ Turn(c, "nothing")
  /\ Execute(c, "listen")
  /\ UNCHANGED <<interrupted, signalManager>>

(* setHangup sends its signal, or fails to, and waits for the answer,      *)
(* without a timeout either.                                               *)
SendHangup(c) ==
  /\ task[c] = "hangup"
  /\ Turn(c, "told")
  /\ UNCHANGED <<queue, interrupted, signalManager>>

(* The answer, then close and shutdownNow, which drops what is queued.     *)
HangupAnswered(c) ==
  /\ task[c] = "told"
  /\ Turn(c, "shut")
  /\ queue' = [queue EXCEPT ![c] = <<>>]
  /\ UNCHANGED <<interrupted, signalManager>>

QueueHangup(c) ==
  /\ Execute(c, "hangup")
  /\ UNCHANGED <<task, interrupted, signalManager>>

Interrupt(c) ==
  /\ interrupted' = [interrupted EXCEPT ![c] = TRUE]
  /\ UNCHANGED <<task, queue, signalManager>>

Listener(c) ==
  \/ RunTask(c) \/ StopListening(c)
  \/ ResetInterrupted(c) \/ Requeue(c) \/ SendHangup(c)

SignalsTypeOK(calls) ==
  /\ task          \in [calls -> Doing]
  /\ queue         \in [calls -> Seq({"listen", "hangup"})]
  /\ interrupted   \in [calls -> BOOLEAN]
  /\ signalManager \in [calls -> BOOLEAN]
=============================================================================
