------------------------------- MODULE ThPool -------------------------------
(***************************************************************************)
(* The pool of threads, src/server/thpool.c: worker threads that take jobs *)
(* from a queue, and the callers that add jobs, wait for them, pause,      *)
(* resume and destroy the pool.                                            *)
(*                                                                         *)
(* A critical section is one step, but for those of rwmutex, inside which  *)
(* the semaphore is posted: there the lock is held between two steps.      *)
(* thpool_wait reads jobqueue.len without rwmutex, and thpool_destroy and  *)
(* the loops of the threads read their counters and flags without a lock.  *)
(* A sleeper of a condition variable is "asleep" until a signal, or        *)
(* nothing at all, makes it "wait" for its condition again.                *)
(*                                                                         *)
(* The two flags are static: other pools of the process write them too.    *)
(***************************************************************************)
EXTENDS Naturals, Sequences, FiniteSets

CONSTANTS
  Threads,     \* the threads of the pool (num_threads of them)
  Callers,     \* threads of the application that use it
  Waiters,     \* those of them that may call thpool_wait
  Jobs,        \* bound: the jobs that may be added, each once
  NoJob,       \* marks a thread without a job
  Nobody,      \* marks a lock nobody holds
  Calls,       \* which of "pause", "destroy" and "nest" (a job adds jobs) happen
  OtherPools   \* whether the process has other pools

ASSUME PoolAssumption ==
  /\ IsFiniteSet(Threads) /\ Threads # {}
  /\ NoJob \notin Jobs /\ Nobody \notin Threads \cup Callers
  /\ Threads \cap Callers = {} /\ Waiters \subseteq Callers
  /\ Calls \subseteq {"pause", "destroy", "nest"}
  /\ OtherPools \in BOOLEAN

VARIABLES
  pc,                   \* pc[t]: where thread t is in thread_do
  job,                  \* job[t]: the job it has pulled and not finished
  op,                   \* op[c]: where caller c is
  queue,                \* jobqueue, from front to rear
  rwmutex,              \* who holds jobqueue.rwmutex
  v,                    \* has_jobs->v, the binary semaphore
  num_threads_alive,
  num_threads_working,
  threads_keepalive,
  threads_on_hold,
  pending,              \* threads with a SIGUSR1 they have not handled
  held,                 \* threads inside thread_hold
  paused,               \* history: thpool_pause was called after thpool_resume
  life,                 \* the pool: "init", "up", "destroying" or "freed"
  added, done           \* history: jobs added, and finished

queueVars == <<queue, rwmutex, v, added>>
counts == <<num_threads_alive, num_threads_working>>
flags == <<threads_keepalive, threads_on_hold>>
signals == <<pending, held, paused>>
vars == <<pc, job, op, queueVars, counts, flags, signals, life, done>>

Working == {"pull", "post", "run", "jobpost", "leave"}
Alive == {"loop", "wait", "asleep", "woken", "enter", "exit"} \cup Working

(* thpool_init up to its wait for the threads, all of them created. *)
Init ==
  /\ pc = [t \in Threads |-> "start"] /\ job = [t \in Threads |-> NoJob]
  /\ op = [c \in Callers |-> "idle"]
  /\ queue = << >> /\ rwmutex = Nobody /\ v = 0
  /\ num_threads_alive = 0 /\ num_threads_working = 0
  /\ threads_keepalive = TRUE /\ threads_on_hold = FALSE
  /\ pending = {} /\ held = {} /\ paused = FALSE
  /\ life = "init" /\ added = {} /\ done = {}

(* thpool_init returns. *)
InitReturn ==
  /\ life = "init" /\ num_threads_alive = Cardinality(Threads)
  /\ life' = "up"
  /\ UNCHANGED <<pc, job, op, queueVars, counts, flags, signals, done>>
---------------------------------------------------------------------------
(* The condition variables: what a signal or a broadcast makes of the        *)
(* places f, of threads or of callers.                                       *)
Sleepers(f) == {x \in DOMAIN f : f[x] = "asleep"}

Signal_Nobody(f) == {f}

Signal(f) ==
  IF Sleepers(f) = {} THEN {f} ELSE {[f EXCEPT ![x] = "wait"] : x \in Sleepers(f)}

WakeAll_Nobody(f) == f

(* bsem_post_all *)
WakeAll(f) == [x \in DOMAIN f |-> IF f[x] = "asleep" THEN "wait" ELSE f[x]]

(* bsem_post, by somebody whose own step has made pc the places f.           *)
bsem_post(f) == v' = 1 /\ pc' \in Signal(f)

jobqueue_push_Front(who, j) ==
  /\ rwmutex = Nobody /\ j \notin added
  /\ rwmutex' = who
  /\ queue' = <<j>> \o queue /\ added' = added \cup {j}
  /\ UNCHANGED v

(* jobqueue_push up to its bsem_post ... *)
jobqueue_push(who, j) ==
  /\ rwmutex = Nobody /\ j \notin added
  /\ rwmutex' = who
  /\ queue' = Append(queue, j) /\ added' = added \cup {j}
  /\ UNCHANGED v

(* ... and from there on, as jobqueue_pull does too. *)
PostJob(who, f) ==
  /\ rwmutex = who /\ rwmutex' = Nobody
  /\ bsem_post(f)
  /\ UNCHANGED <<queue, added>>
---------------------------------------------------------------------------
(* thread_do. *)
Runs(t, place) == pc[t] = place /\ t \notin held
Goto(t, place) == pc' = [pc EXCEPT ![t] = place]

(* Started by thread_init: the handler of SIGUSR1 is installed first. *)
ThreadStart(t) ==
  /\ Runs(t, "start") /\ Goto(t, "loop")
  /\ num_threads_alive' = num_threads_alive + 1
  /\ UNCHANGED <<job, op, queueVars, num_threads_working, flags, signals, life, done>>

ThreadLoop(t) ==
  /\ Runs(t, "loop") /\ Goto(t, IF threads_keepalive THEN "wait" ELSE "exit")
  /\ UNCHANGED <<job, op, queueVars, counts, flags, signals, life, done>>

(* bsem_wait: the semaphore is up, or the thread goes to sleep. *)
BsemTake(t) ==
  /\ Runs(t, "wait") /\ v = 1
  /\ v' = 0 /\ Goto(t, "woken")
  /\ UNCHANGED <<job, op, queue, rwmutex, added, counts, flags, signals, life, done>>

BsemSleep(t) ==
  /\ Runs(t, "wait") /\ v = 0
  /\ Goto(t, "asleep")
  /\ UNCHANGED <<job, op, queueVars, counts, flags, signals, life, done>>

CheckKeepalive(t) ==
  /\ Runs(t, "woken") /\ Goto(t, IF threads_keepalive THEN "enter" ELSE "loop")
  /\ UNCHANGED <<job, op, queueVars, counts, flags, signals, life, done>>

(* Counted as working before it pulls: thpool_wait relies on it. *)
Enter(t) ==
  /\ Runs(t, "enter") /\ Goto(t, "pull")
  /\ num_threads_working' = num_threads_working + 1
  /\ UNCHANGED <<job, op, queueVars, num_threads_alive, flags, signals, life, done>>

PullNothing(t) ==
  /\ Runs(t, "pull") /\ rwmutex = Nobody /\ queue = << >>
  /\ Goto(t, "leave")
  /\ UNCHANGED <<job, op, queueVars, counts, flags, signals, life, done>>

PullJob_NoPost(t) ==
  /\ Runs(t, "pull") /\ rwmutex = Nobody /\ queue # << >>
  /\ job' = [job EXCEPT ![t] = Head(queue)] /\ queue' = Tail(queue)
  /\ Goto(t, "run") /\ UNCHANGED rwmutex
  /\ UNCHANGED <<op, v, added, counts, flags, signals, life, done>>

(* "more than one job in queue -> post it" *)
PullJob(t) ==
  /\ Runs(t, "pull") /\ rwmutex = Nobody /\ queue # << >>
  /\ job' = [job EXCEPT ![t] = Head(queue)] /\ queue' = Tail(queue)
  /\ IF Len(queue) = 1
     THEN Goto(t, "run") /\ UNCHANGED rwmutex
     ELSE Goto(t, "post") /\ rwmutex' = t
  /\ UNCHANGED <<op, v, added, counts, flags, signals, life, done>>

PullPost(t) ==
  /\ Runs(t, "post") /\ PostJob(t, [pc EXCEPT ![t] = "run"])
  /\ UNCHANGED <<job, op, counts, flags, signals, life, done>>

(* The job: it may add other jobs, and it ends. *)
JobAdds(t, j) ==
  /\ "nest" \in Calls /\ Runs(t, "run")
  /\ jobqueue_push(t, j) /\ Goto(t, "jobpost")
  /\ UNCHANGED <<job, op, counts, flags, signals, life, done>>

JobPosts(t) ==
  /\ Runs(t, "jobpost") /\ PostJob(t, [pc EXCEPT ![t] = "run"])
  /\ UNCHANGED <<job, op, counts, flags, signals, life, done>>

JobEnds(t) ==
  /\ Runs(t, "run") /\ Goto(t, "leave")
  /\ done' = done \cup {job[t]} /\ job' = [job EXCEPT ![t] = NoJob]
  /\ UNCHANGED <<op, queueVars, counts, flags, signals, life>>

Leave_NoSignal(t) ==
  /\ Runs(t, "leave") /\ Goto(t, "loop")
  /\ num_threads_working' = num_threads_working - 1
  /\ UNCHANGED <<op, job, queueVars, num_threads_alive, flags, signals, life, done>>

Leave(t) ==
  /\ Runs(t, "leave") /\ Goto(t, "loop")
  /\ num_threads_working' = num_threads_working - 1
  /\ IF num_threads_working = 1 THEN op' \in Signal(op) ELSE UNCHANGED op
  /\ UNCHANGED <<job, queueVars, num_threads_alive, flags, signals, life, done>>

(* The last access to the pool is the unlock after the decrement. *)
Exit(t) ==
  /\ Runs(t, "exit") /\ Goto(t, "unlock")
  /\ num_threads_alive' = num_threads_alive - 1
  /\ UNCHANGED <<job, op, queueVars, num_threads_working, flags, signals, life, done>>

ExitUnlock(t) ==
  /\ Runs(t, "unlock") /\ Goto(t, "dead")
  /\ UNCHANGED <<job, op, queueVars, counts, flags, signals, life, done>>
---------------------------------------------------------------------------
(* thread_hold, the handler of SIGUSR1, between any two steps of a thread.  *)
Hold(t) ==
  /\ t \in pending \ held /\ pc[t] # "dead"
  /\ pending' = pending \ {t} /\ held' = held \cup {t}
  /\ threads_on_hold' = TRUE
  /\ UNCHANGED <<pc, job, op, queueVars, counts, threads_keepalive, paused, life, done>>

Release(t) ==
  /\ t \in held /\ ~threads_on_hold
  /\ held' = held \ {t}
  /\ UNCHANGED <<pc, job, op, queueVars, counts, flags, pending, paused, life, done>>

(* pthread_cond_wait may return without a signal. *)
SpuriousThread(t) ==
  /\ Runs(t, "asleep") /\ Goto(t, "wait")
  /\ UNCHANGED <<job, op, queueVars, counts, flags, signals, life, done>>
---------------------------------------------------------------------------
(* The callers.  Nobody uses a pool before thpool_init has returned or once  *)
(* thpool_destroy is called.                                                 *)
Calling(c) == op[c] = "idle" /\ life = "up"
At(c, place) == op' = [op EXCEPT ![c] = place]

AddCall(c) ==
  /\ Calling(c) /\ added # Jobs /\ At(c, "add")
  /\ UNCHANGED <<pc, job, queueVars, counts, flags, signals, life, done>>

AddPush(c, j) ==
  /\ op[c] = "add" /\ jobqueue_push(c, j) /\ At(c, "post")
  /\ UNCHANGED <<pc, job, counts, flags, signals, life, done>>

AddPost(c) ==
  /\ op[c] = "post" /\ PostJob(c, pc) /\ At(c, "idle")
  /\ UNCHANGED <<job, counts, flags, signals, life, done>>

(* Every job of the bound was added meanwhile: this one is not.             *)
AddGivenUp(c) ==
  /\ op[c] = "add" /\ added = Jobs /\ At(c, "idle")
  /\ UNCHANGED <<pc, job, queueVars, counts, flags, signals, life, done>>

WaitCall(c) ==
  /\ c \in Waiters /\ Calling(c) /\ At(c, "wait")
  /\ UNCHANGED <<pc, job, queueVars, counts, flags, signals, life, done>>

JobsLeft_QueueOnly == queue # << >>
JobsLeft == queue # << >> \/ num_threads_working # 0

WaitSleep(c) ==
  /\ op[c] = "wait" /\ JobsLeft /\ At(c, "asleep")
  /\ UNCHANGED <<pc, job, queueVars, counts, flags, signals, life, done>>

WaitReturn(c) ==
  /\ op[c] = "wait" /\ ~JobsLeft /\ At(c, "idle")
  /\ UNCHANGED <<pc, job, queueVars, counts, flags, signals, life, done>>

SpuriousCaller(c) ==
  /\ op[c] = "asleep" /\ At(c, "wait")
  /\ UNCHANGED <<pc, job, queueVars, counts, flags, signals, life, done>>

(* One pthread_kill per thread; when they are handled is up to the threads.  *)
thpool_pause(c) ==
  /\ "pause" \in Calls /\ Calling(c)
  /\ num_threads_alive = Cardinality(Threads)
  /\ pending' = Threads /\ paused' = TRUE
  /\ UNCHANGED <<pc, job, op, queueVars, counts, flags, held, life, done>>

thpool_resume(c) ==
  /\ "pause" \in Calls /\ Calling(c)
  /\ threads_on_hold' = FALSE /\ paused' = FALSE
  /\ UNCHANGED <<pc, job, op, queueVars, counts, threads_keepalive, pending, held, life, done>>

(* thpool_destroy: both of its polling loops post until nobody is alive.     *)
DestroyCall(c) ==
  /\ "destroy" \in Calls /\ Calling(c) /\ \A d \in Callers : op[d] = "idle"
  /\ threads_keepalive' = FALSE
  /\ life' = "destroying" /\ At(c, "destroy")
  /\ UNCHANGED <<pc, job, queueVars, counts, threads_on_hold, signals, done>>

DestroyPost(c) ==
  /\ op[c] = "destroy" /\ num_threads_alive # 0
  /\ v' = 1 /\ pc' = WakeAll(pc)
  /\ UNCHANGED <<job, op, queue, rwmutex, added, counts, flags, signals, life, done>>

DestroyFree_WhenIdle(c) ==
  /\ op[c] = "destroy" /\ num_threads_working = 0
  /\ life' = "freed" /\ At(c, "idle")
  /\ queue' = << >> /\ v' = 0
  /\ UNCHANGED <<pc, job, rwmutex, added, counts, flags, signals, done>>

(* jobqueue_destroy and the frees. *)
DestroyFree(c) ==
  /\ op[c] = "destroy" /\ num_threads_alive = 0
  /\ life' = "freed" /\ At(c, "idle")
  /\ queue' = << >> /\ v' = 0
  /\ UNCHANGED <<pc, job, rwmutex, added, counts, flags, signals, done>>

(* thpool_destroy and thpool_init of another pool. *)
OtherDestroy ==
  /\ OtherPools /\ threads_keepalive' = FALSE
  /\ UNCHANGED <<pc, job, op, queueVars, counts, threads_on_hold, signals, life, done>>

OtherInit ==
  /\ OtherPools /\ threads_keepalive' = TRUE /\ threads_on_hold' = FALSE
  /\ UNCHANGED <<pc, job, op, queueVars, counts, signals, life, done>>
---------------------------------------------------------------------------
ThreadStep(t) ==
  \/ ThreadStart(t) \/ ThreadLoop(t) \/ BsemTake(t) \/ BsemSleep(t)
  \/ CheckKeepalive(t) \/ Enter(t) \/ PullNothing(t) \/ PullJob(t) \/ PullPost(t)
  \/ JobPosts(t) \/ JobEnds(t) \/ Leave(t) \/ Exit(t) \/ ExitUnlock(t)

CallerStep(c) ==
  \/ \E j \in Jobs : AddPush(c, j)
  \/ AddPost(c) \/ AddGivenUp(c) \/ WaitSleep(c) \/ WaitReturn(c)
  \/ DestroyPost(c) \/ DestroyFree(c)

Call(c) ==
  AddCall(c) \/ WaitCall(c) \/ thpool_pause(c) \/ thpool_resume(c) \/ DestroyCall(c)

Next ==
  \/ InitReturn \/ OtherDestroy \/ OtherInit
  \/ \E t \in Threads :
       \/ ThreadStep(t) \/ Hold(t) \/ Release(t) \/ SpuriousThread(t)
       \/ \E j \in Jobs : JobAdds(t, j)
  \/ \E c \in Callers : CallerStep(c) \/ Call(c) \/ SpuriousCaller(c)

Spec == Init /\ [][Next]_vars

(* Threads are scheduled, jobs end, signals are handled, held threads look   *)
(* at the flag every second, and a call that can go on does.                 *)
FairSpec ==
  /\ Spec /\ WF_vars(InitReturn)
  /\ \A t \in Threads : WF_vars(ThreadStep(t)) /\ WF_vars(Hold(t)) /\ WF_vars(Release(t))
  /\ \A c \in Callers : WF_vars(CallerStep(c))
---------------------------------------------------------------------------
(* The types of the state; a thread counts as alive and as working exactly   *)
(* between its increments and decrements of the two counters.                *)
TypeOK ==
  /\ pc \in [Threads -> Alive \cup {"start", "unlock", "dead"}]
  /\ job \in [Threads -> Jobs \cup {NoJob}]
  /\ op \in [Callers -> {"idle", "add", "post", "wait", "asleep", "destroy"}]
  /\ queue \in Seq(Jobs) /\ rwmutex \in Threads \cup Callers \cup {Nobody}
  /\ v \in {0, 1}
  /\ num_threads_alive = Cardinality({t \in Threads : pc[t] \in Alive})
  /\ num_threads_working = Cardinality({t \in Threads : pc[t] \in Working})
  /\ threads_keepalive \in BOOLEAN /\ threads_on_hold \in BOOLEAN
  /\ pending \subseteq Threads /\ held \subseteq Threads /\ paused \in BOOLEAN
  /\ life \in {"init", "up", "destroying", "freed"}
  /\ added \subseteq Jobs /\ done \subseteq Jobs

(* The pool keeps the promise of thpool.h.                                   *)
Pool == INSTANCE JobPool WITH
  running <- {job[t] : t \in Threads} \ {NoJob},
  waiting <- {c \in Callers : op[c] \in {"wait", "asleep"}},
  over    <- life = "freed"

ImplementsJobPool == Pool!PoolSpec

(* When thpool_wait returns every job added until then has been finished,    *)
(* although it reads the length of the queue without the lock of the queue.  *)
WaitMeansDone ==
  [][\A c \in Callers : op[c] = "wait" /\ op'[c] = "idle" => added = done]_vars

(* No wakeup is lost: while jobs are queued the semaphore is up, or a thread *)
(* that took it has yet to pull, or somebody is about to post it.            *)
JobsAnnounced ==
  queue # << >> =>
    \/ v = 1 \/ rwmutex # Nobody \/ ~threads_keepalive
    \/ \E t \in Threads : pc[t] \in {"woken", "enter", "pull"}

(* ... and while the semaphore is up the threads do not all sleep.           *)
SomebodyAwake ==
  v = 1 => \E t \in Threads : pc[t] # "asleep"

(* A caller sleeps in thpool_wait only while a thread is on its way to wake  *)
(* it: the last job cannot end unnoticed.                                    *)
WaiterRemembered ==
  \A c \in Callers :
    op[c] = "asleep" =>
      JobsLeft \/ \E d \in Callers : op[d] = "wait"

(* When the pool is freed no thread is inside it, up to its last unlock, and *)
(* no job is cut short.                                                      *)
FreedQuiet ==
  life = "freed" => \A t \in Threads : pc[t] \in {"unlock", "dead"} /\ job[t] = NoJob

(* Every job added is run, unless the pool is destroyed. *)
JobsRun == \A j \in Jobs : j \in added ~> (j \in done \/ life \in {"destroying", "freed"})

(* thpool_wait comes back, and thpool_destroy does. *)
WaitEnds == \A c \in Callers : op[c] = "wait" ~> op[c] = "idle"
DestroyEnds == life = "destroying" ~> life = "freed"
---------------------------------------------------------------------------
(* What thpool.h says and the code does not do. *)

(* thpool.h:99: "The threads return to their previous states once            *)
(* thpool_resume is called."                                                 *)
ResumeReleases == \A t \in Threads : <>[](~paused) => []<>(t \notin held)
=============================================================================
