------------------------------ MODULE JobQueue ------------------------------
(***************************************************************************)
(* What the send and the receive path ask of the JobManager for a job that *)
(* is stored: it runs again, after every failure and every death of the    *)
(* process, until it is finished, and never after that.  Of the jobs with  *)
(* one group id one runs at a time, and of those with one group and one    *)
(* kind, which wait for the same requirements, always the oldest.          *)
(***************************************************************************)
EXTENDS Naturals

VARIABLES
  jobs,     \* the jobs not finished, as [id, kind, group]
  running,  \* those a thread has
  lastId    \* the last id given

Init == jobs = {} /\ running = {} /\ lastId = 0

SameLine(j, k) == j.group # "none" /\ j.group = k.group /\ j.kind = k.kind

Store == /\ \E j \in jobs' : /\ j.id = lastId' /\ j.id > lastId
                             /\ jobs' = jobs \cup {j}
         /\ UNCHANGED running

(* A job that is not persistent takes an id.                               *)
PassOver == lastId' > lastId /\ UNCHANGED <<jobs, running>>

Begin == /\ \E j \in jobs \ running :
              /\ \A k \in running : j.group = "none" \/ j.group # k.group
              /\ \A k \in jobs : SameLine(j, k) => j.id <= k.id
              /\ running' = running \cup {j}
         /\ UNCHANGED <<jobs, lastId>>

PutBack == /\ \E j \in running : running' = running \ {j}
           /\ UNCHANGED <<jobs, lastId>>

Finish == /\ \E j \in running : running' = running \ {j} /\ jobs' = jobs \ {j}
          /\ UNCHANGED lastId

Die == running' = {} /\ UNCHANGED <<jobs, lastId>>

Next == Store \/ PassOver \/ Begin \/ PutBack \/ Finish \/ Die

Spec == Init /\ [][Next]_<<jobs, running, lastId>>
=============================================================================
