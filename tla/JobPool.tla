------------------------------ MODULE JobPool ------------------------------
(***************************************************************************)
(* What a pool of threads promises (src/server/thpool.h): jobs are started *)
(* in the order in which they were added, each once; a caller that waits   *)
(* gets on only when no job is queued or running; and a pool that is       *)
(* destroyed lets the running jobs finish and drops the queued ones.       *)
(***************************************************************************)
EXTENDS Sequences

CONSTANTS Jobs, Callers

VARIABLES
  queue,    \* the jobs added and not started, in order
  running,  \* the jobs started and not finished
  done,     \* the jobs finished
  waiting,  \* the callers that wait for all jobs to finish
  over      \* whether the pool has been destroyed

poolVars == <<queue, running, done, waiting, over>>
Queued == {queue[i] : i \in DOMAIN queue}

PoolInit ==
  /\ queue = << >> /\ running = {} /\ done = {} /\ waiting = {} /\ over = FALSE

Add(j) ==
  /\ ~over /\ j \notin Queued \cup running \cup done
  /\ queue' = Append(queue, j)
  /\ UNCHANGED <<running, done, waiting, over>>

Start ==
  /\ ~over /\ queue # << >>
  /\ running' = running \cup {Head(queue)}
  /\ queue' = Tail(queue)
  /\ UNCHANGED <<done, waiting, over>>

Finish(j) ==
  /\ ~over /\ j \in running
  /\ running' = running \ {j}
  /\ done' = done \cup {j}
  /\ UNCHANGED <<queue, waiting, over>>

Wait(c) ==
  /\ c \notin waiting /\ waiting' = waiting \cup {c}
  /\ UNCHANGED <<queue, running, done, over>>

Return(c) ==
  /\ c \in waiting /\ queue = << >> /\ running = {}
  /\ waiting' = waiting \ {c}
  /\ UNCHANGED <<queue, running, done, over>>

Destroy ==
  /\ running = {} /\ waiting = {}
  /\ over' = TRUE /\ queue' = << >>
  /\ UNCHANGED <<running, done, waiting>>

PoolNext ==
  \/ \E j \in Jobs : Add(j) \/ Finish(j)
  \/ \E c \in Callers : Wait(c) \/ Return(c)
  \/ Start \/ Destroy

PoolSpec == PoolInit /\ [][PoolNext]_poolVars
=============================================================================
