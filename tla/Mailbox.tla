------------------------------- MODULE Mailbox -------------------------------
(***************************************************************************)
(* What the phone promises for the messages that are sent to it: each is   *)
(* opened once, one at a time, and what was opened is shown unless the     *)
(* process dies first, which takes at most one message each time.  Those   *)
(* that nothing excuses are opened in the order in which they were sent.   *)
(* What cannot be opened is shown as it is, as often as it comes.          *)
(***************************************************************************)
EXTENDS Naturals, Sequences

CONSTANT Unreadable   \* messages that cannot be opened

VARIABLES
  arrived,  \* how many were sent; messages are 1, 2, 3, ...
  excused,  \* those that may be opened out of turn
  opened,   \* those that were opened
  inHand,   \* the one about to be shown
  shown,    \* the rows of the inbox, in order
  deaths    \* how often the process died

vars == <<arrived, excused, opened, inHand, shown, deaths>>

Init == /\ arrived = 0 /\ deaths = 0 /\ shown = <<>>
        /\ opened = {} /\ inHand = {}

Arrive == /\ arrived' = arrived + 1
          /\ UNCHANGED <<excused, opened, inHand, shown, deaths>>

Excuse == /\ excused \subseteq excused'
          /\ UNCHANGED <<arrived, opened, inHand, shown, deaths>>

Open == /\ inHand = {}
        /\ \E e \in 1 .. arrived :
             /\ e \notin Unreadable \cup opened
             /\ e \notin excused => \A d \in opened \ excused : d < e
             /\ opened' = opened \cup {e} /\ inHand' = {e}
        /\ UNCHANGED <<arrived, excused, shown, deaths>>

TakeUnreadable == /\ inHand = {}
                  /\ \E e \in 1 .. arrived : e \in Unreadable /\ inHand' = {e}
                  /\ UNCHANGED <<arrived, excused, opened, shown, deaths>>

Show == /\ \E e \in inHand : shown' = Append(shown, e)
        /\ inHand' = {}
        /\ UNCHANGED <<arrived, excused, opened, deaths>>

Die == /\ inHand' = {} /\ deaths' = deaths + 1
       /\ UNCHANGED <<arrived, excused, opened, shown>>

Next == Arrive \/ Excuse \/ Open \/ TakeUnreadable \/ Show \/ Die

Spec == Init /\ [][Next]_vars
=============================================================================
