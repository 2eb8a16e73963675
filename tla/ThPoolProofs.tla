---------------------------- MODULE ThPoolProofs ----------------------------
(***************************************************************************)
(* Theorems about ThPool, for any number of threads, callers and jobs.     *)
(*                                                                         *)
(* The counters of thpool.c are counted at other places than the jobs      *)
(* move: what thpool_wait and thpool_destroy conclude from them holds      *)
(* because a thread is counted from before it pulls a job until after it   *)
(* has finished it.  PoolInv says so; OnePlace adds that no job is in two  *)
(* places, and with it every step is one of JobPool.                       *)
(***************************************************************************)
EXTENDS ThPool, FiniteSetTheorems, SequenceTheorems, TLAPS

Places == Alive \cup {"start", "unlock", "dead"}
CallPlaces == {"idle", "add", "post", "wait", "asleep", "destroy"}
AliveThreads == {t \in Threads : pc[t] \in Alive}
WorkingThreads == {t \in Threads : pc[t] \in Working}
InQueue == {queue[k] : k \in DOMAIN queue}
Running == {job[t] : t \in Threads} \ {NoJob}

(* TypeOK but for the counters, ... *)
Shape ==
  /\ pc \in [Threads -> Places] /\ job \in [Threads -> Jobs \cup {NoJob}]
  /\ op \in [Callers -> CallPlaces]
  /\ queue \in Seq(Jobs) /\ rwmutex \in Threads \cup Callers \cup {Nobody}
  /\ v \in {0, 1}
  /\ threads_keepalive \in BOOLEAN /\ threads_on_hold \in BOOLEAN
  /\ pending \subseteq Threads /\ held \subseteq Threads /\ paused \in BOOLEAN
  /\ life \in {"init", "up", "destroying", "freed"}
  /\ added \subseteq Jobs /\ done \subseteq Jobs

(* ... and the counters. *)
Counts ==
  /\ num_threads_alive = Cardinality(AliveThreads)
  /\ num_threads_working = Cardinality(WorkingThreads)

(* A thread has a job exactly between its pull and the job's end. *)
JobsHeld == \A t \in Threads : job[t] # NoJob <=> pc[t] \in {"post", "run", "jobpost"}

(* Where the life of the pool excludes calls and threads. *)
Lives ==
  /\ \A c \in Callers : op[c] \notin {"idle", "destroy"} => life = "up"
  /\ \A c \in Callers : op[c] = "destroy" => life \in {"destroying", "freed"}
  /\ life # "init" => \A t \in Threads : pc[t] # "start"
  /\ life = "freed" => \A t \in Threads : pc[t] \in {"unlock", "dead"}

(* No job is lost: it is queued, running or done. *)
Accounted == life # "freed" => added = done \cup InQueue \cup Running

PoolInv == Shape /\ Counts /\ JobsHeld /\ Lives /\ Accounted
---------------------------------------------------------------------------
(* A signal moves at most one sleeper, and it moves it to "wait".            *)
LEMMA SignalMoves ==
  ASSUME NEW D, NEW P, "wait" \in P, NEW f \in [D -> P], NEW g \in Signal(f)
  PROVE  /\ g \in [D -> P]
         /\ \A x \in D : g[x] = f[x] \/ (f[x] = "asleep" /\ g[x] = "wait")
         /\ (\E x \in D : f[x] = "asleep") => \E x \in D : g[x] = "wait"
<1>1. DOMAIN f = D
  OBVIOUS
<1>2. CASE Sleepers(f) = {}
  <2>1. g = f
    BY <1>2 DEF Signal
  <2>. QED  BY <1>1, <1>2, <2>1 DEF Sleepers
<1>3. CASE Sleepers(f) # {}
  <2>1. PICK y \in Sleepers(f) : g = [f EXCEPT ![y] = "wait"]
    BY <1>3 DEF Signal
  <2>2. y \in D /\ f[y] = "asleep"
    BY <1>1, <2>1 DEF Sleepers
  <2>. QED  BY <2>1, <2>2
<1>. QED  BY <1>2, <1>3

(* The same, of the threads, ... *)
LEMMA ThreadSignal ==
  ASSUME NEW f \in [Threads -> Places], NEW g \in Signal(f)
  PROVE  /\ g \in [Threads -> Places]
         /\ \A t \in Threads : g[t] = f[t] \/ (f[t] = "asleep" /\ g[t] = "wait")
         /\ (\E t \in Threads : f[t] = "asleep") => \E t \in Threads : g[t] = "wait"
<1>1. "wait" \in Places
  BY DEF Places, Alive
<1>. QED  BY <1>1, SignalMoves

(* ... of the callers. *)
LEMMA CallerSignal ==
  ASSUME NEW f \in [Callers -> CallPlaces], NEW g \in Signal(f)
  PROVE  /\ g \in [Callers -> CallPlaces]
         /\ \A c \in Callers : g[c] = f[c] \/ (f[c] = "asleep" /\ g[c] = "wait")
         /\ (\E c \in Callers : f[c] = "asleep") => \E c \in Callers : g[c] = "wait"
<1>1. "wait" \in CallPlaces
  BY DEF CallPlaces
<1>. QED  BY <1>1, SignalMoves

(* A broadcast moves all the sleepers and nobody else. *)
LEMMA ThreadWake ==
  ASSUME NEW f \in [Threads -> Places]
  PROVE  /\ WakeAll(f) \in [Threads -> Places]
         /\ \A t \in Threads : WakeAll(f)[t] = IF f[t] = "asleep" THEN "wait" ELSE f[t]
<1>1. "wait" \in Places
  BY DEF Places, Alive
<1>. QED  BY <1>1 DEF WakeAll

(* What appending to a queue does to its elements, ... *)
LEMMA AppendElements ==
  ASSUME NEW S, NEW s \in Seq(S), NEW e \in S
  PROVE  {Append(s, e)[k] : k \in DOMAIN Append(s, e)} = {s[k] : k \in DOMAIN s} \cup {e}
<1>1. /\ Len(s) \in Nat /\ DOMAIN s = 1 .. Len(s)
      /\ Append(s, e) \in Seq(S) /\ Len(Append(s, e)) = Len(s) + 1
      /\ \A k \in 1 .. Len(s) : Append(s, e)[k] = s[k]
      /\ Append(s, e)[Len(s) + 1] = e
  BY LenProperties, AppendProperties
<1>2. DOMAIN Append(s, e) = 1 .. Len(s) + 1
  BY <1>1, LenProperties
<1>. QED  BY <1>1, <1>2

(* ... or taking its head away. *)
LEMMA TailElements ==
  ASSUME NEW S, NEW s \in Seq(S), s # << >>
  PROVE  {s[k] : k \in DOMAIN s} = {Tail(s)[k] : k \in DOMAIN Tail(s)} \cup {Head(s)}
<1>1. /\ Len(s) \in Nat /\ DOMAIN s = 1 .. Len(s) /\ Len(s) >= 1
      /\ Tail(s) \in Seq(S) /\ Len(Tail(s)) = Len(s) - 1
      /\ \A k \in 1 .. Len(s) - 1 : Tail(s)[k] = s[k + 1]
      /\ Head(s) = s[1]
  BY LenProperties, HeadTailProperties, EmptySeq
<1>2. DOMAIN Tail(s) = 1 .. Len(s) - 1
  BY <1>1, LenProperties
<1>. DEFINE T == {Tail(s)[k] : k \in DOMAIN Tail(s)}
<1>3. ASSUME NEW k \in 1 .. Len(s) PROVE s[k] \in T \cup {Head(s)}
  <2>1. CASE k = 1
    BY <1>1, <2>1
  <2>2. CASE k # 1
    <3>1. k - 1 \in 1 .. Len(s) - 1 /\ (k - 1) + 1 = k
      BY <1>1, <2>2
    <3>2. Tail(s)[k - 1] = s[k]
      BY <1>1, <3>1
    <3>. QED  BY <1>2, <3>1, <3>2
  <2>. QED  BY <2>1, <2>2
<1>4. ASSUME NEW k \in 1 .. Len(s) - 1 PROVE \E j \in 1 .. Len(s) : Tail(s)[k] = s[j]
  <2>1. k + 1 \in 1 .. Len(s)
    BY <1>1
  <2>. QED  BY <1>1, <2>1
<1>5. 1 \in 1 .. Len(s)
  BY <1>1
<1>. DEFINE E == {s[k] : k \in DOMAIN s}
<1>6. E \subseteq T \cup {Head(s)}
  BY <1>1, <1>3
<1>7. T \subseteq E
  BY <1>1, <1>2, <1>4
<1>8. Head(s) \in E
  BY <1>1, <1>5
<1>. QED  BY <1>6, <1>7, <1>8
---------------------------------------------------------------------------
(* Every action, by who takes it. *)
LEMMA Actions ==
  ASSUME [Next]_vars
  PROVE  \/ UNCHANGED vars
         \/ InitReturn \/ OtherDestroy \/ OtherInit
         \/ \E t \in Threads :
              \/ ThreadStart(t) \/ ThreadLoop(t) \/ BsemTake(t) \/ BsemSleep(t)
              \/ CheckKeepalive(t) \/ Enter(t) \/ PullNothing(t) \/ PullJob(t) \/ PullPost(t)
              \/ JobPosts(t) \/ JobEnds(t) \/ Leave(t) \/ Exit(t) \/ ExitUnlock(t)
              \/ Hold(t) \/ Release(t) \/ SpuriousThread(t)
              \/ \E j \in Jobs : JobAdds(t, j)
         \/ \E c \in Callers :
              \/ \E j \in Jobs : AddPush(c, j)
              \/ AddPost(c) \/ AddGivenUp(c) \/ WaitSleep(c) \/ WaitReturn(c)
              \/ DestroyPost(c) \/ DestroyFree(c)
              \/ AddCall(c) \/ WaitCall(c) \/ thpool_pause(c) \/ thpool_resume(c)
              \/ DestroyCall(c) \/ SpuriousCaller(c)
BY DEF Next, ThreadStep, CallerStep, Call

(* The actions that change neither the places of threads nor the queue.      *)
CallOnly(c) ==
  \/ AddGivenUp(c) \/ WaitSleep(c) \/ WaitReturn(c) \/ AddCall(c) \/ WaitCall(c)
  \/ SpuriousCaller(c)

(* Every step keeps the types, but for the counters. *)
LEMMA ShapeStep ==
  ASSUME PoolAssumption, Shape, JobsHeld, [Next]_vars PROVE Shape'
<1>. USE DEF queueVars, counts, flags, signals, Runs, Goto, At
<1>1. CASE UNCHANGED vars
  BY <1>1 DEF vars, Shape
<1>2. CASE InitReturn \/ OtherDestroy \/ OtherInit
  BY <1>2 DEF Shape, InitReturn, OtherDestroy, OtherInit
<1>3. ASSUME NEW t \in Threads,
             \/ ThreadStart(t) \/ ThreadLoop(t) \/ BsemTake(t) \/ BsemSleep(t)
             \/ CheckKeepalive(t) \/ Enter(t) \/ PullNothing(t) \/ Exit(t) \/ ExitUnlock(t)
             \/ Hold(t) \/ Release(t) \/ SpuriousThread(t)
      PROVE  Shape'
  <2>1. CASE ThreadStart(t) \/ ThreadLoop(t)
    BY <2>1 DEF Shape, Places, Alive, Working, ThreadStart, ThreadLoop
  <2>2. CASE BsemTake(t) \/ BsemSleep(t)
    BY <2>2 DEF Shape, Places, Alive, Working, BsemTake, BsemSleep
  <2>3. CASE CheckKeepalive(t) \/ Enter(t) \/ PullNothing(t)
    BY <2>3 DEF Shape, Places, Alive, Working, CheckKeepalive, Enter, PullNothing
  <2>4. CASE Exit(t) \/ ExitUnlock(t)
    BY <2>4 DEF Shape, Places, Alive, Working, Exit, ExitUnlock
  <2>5. CASE Hold(t) \/ Release(t) \/ SpuriousThread(t)
    BY <2>5 DEF Shape, Places, Alive, Working, Hold, Release, SpuriousThread
  <2> QED BY <1>3, <2>1, <2>2, <2>3, <2>4, <2>5
<1>4. ASSUME NEW t \in Threads, PullJob(t) PROVE Shape'
  BY <1>4, HeadTailProperties DEF Shape, Places, Alive, Working, PullJob
<1>5. ASSUME NEW t \in Threads, PullPost(t) \/ JobPosts(t) PROVE Shape'
  <2>1. pc \in [Threads -> Places] /\ "run" \in Places
    BY DEF Shape, Places, Alive, Working
  <2>2. [pc EXCEPT ![t] = "run"] \in [Threads -> Places]
    BY <2>1
  <2>3. pc' \in Signal([pc EXCEPT ![t] = "run"])
    BY <1>5 DEF PullPost, JobPosts, PostJob, bsem_post
  <2>4. pc' \in [Threads -> Places]
    BY <2>2, <2>3, ThreadSignal
  <2>. QED  BY <1>5, <2>4 DEF Shape, PullPost, JobPosts, PostJob, bsem_post
<1>6. ASSUME NEW t \in Threads, NEW j \in Jobs, JobAdds(t, j) PROVE Shape'
  BY <1>6, AppendProperties DEF Shape, Places, Alive, Working, JobAdds, jobqueue_push
<1>7. ASSUME NEW t \in Threads, JobEnds(t) PROVE Shape'
  BY <1>7 DEF Shape, Places, Alive, Working, JobEnds, JobsHeld
<1>8. ASSUME NEW t \in Threads, Leave(t) PROVE Shape'
  <2>1. op' \in Signal(op) \/ op' = op
    BY <1>8 DEF Leave
  <2>2. op' \in [Callers -> CallPlaces]
    BY <2>1, CallerSignal DEF Shape
  <2>. QED  BY <1>8, <2>2 DEF Shape, Places, Alive, Working, Leave
<1>9. ASSUME NEW c \in Callers,
             \/ CallOnly(c) \/ DestroyFree(c) \/ DestroyCall(c)
             \/ thpool_pause(c) \/ thpool_resume(c)
      PROVE  Shape'
  <2>. USE DEF Shape, CallPlaces
  <2>1. CASE CallOnly(c)
    BY <1>9, <2>1 DEF CallOnly, AddGivenUp, WaitSleep, WaitReturn, AddCall, WaitCall, SpuriousCaller
  <2>2. CASE DestroyFree(c)
    BY <2>2, EmptySeq DEF DestroyFree
  <2>3. CASE DestroyCall(c) \/ thpool_pause(c) \/ thpool_resume(c)
    BY <2>3 DEF DestroyCall, thpool_pause, thpool_resume
  <2>. QED  BY <1>9, <2>1, <2>2, <2>3
<1>10. ASSUME NEW c \in Callers, NEW j \in Jobs, AddPush(c, j) PROVE Shape'
  BY <1>10, AppendProperties DEF Shape, CallPlaces, AddPush, jobqueue_push
<1>11. ASSUME NEW c \in Callers, AddPost(c) PROVE Shape'
  <2>1. pc' \in Signal(pc)
    BY <1>11 DEF AddPost, PostJob, bsem_post
  <2>2. pc' \in [Threads -> Places]
    BY <2>1, ThreadSignal DEF Shape
  <2>. QED  BY <1>11, <2>2 DEF Shape, CallPlaces, AddPost, PostJob, bsem_post
<1>12. ASSUME NEW c \in Callers, DestroyPost(c) PROVE Shape'
  <2>1. WakeAll(pc) \in [Threads -> Places]
    BY ThreadWake DEF Shape
  <2>. QED  BY <1>12, <2>1 DEF Shape, DestroyPost
<1>. QED  BY <1>1, <1>2, <1>3, <1>4, <1>5, <1>6, <1>7, <1>8, <1>9, <1>10, <1>11, <1>12,
             Actions DEF CallOnly
---------------------------------------------------------------------------
(* A step that moves no thread between the counted places keeps the counts.  *)
SameClasses ==
  /\ \A t \in Threads : (pc'[t] \in Alive <=> pc[t] \in Alive)
                       /\ (pc'[t] \in Working <=> pc[t] \in Working)
  /\ UNCHANGED counts

(* ... whatever else it does. *)
LEMMA CountsKept ==
  ASSUME Counts, SameClasses PROVE Counts'
<1>1. AliveThreads' = AliveThreads
  BY DEF AliveThreads, SameClasses
<1>2. WorkingThreads' = WorkingThreads
  BY DEF WorkingThreads, SameClasses
<1>. QED  BY <1>1, <1>2 DEF Counts, SameClasses, counts

(* The sets that are counted are finite, and the counts are numbers. *)
LEMMA Countable ==
  ASSUME PoolAssumption
  PROVE  /\ IsFiniteSet(AliveThreads) /\ Cardinality(AliveThreads) \in Nat
         /\ IsFiniteSet(WorkingThreads) /\ Cardinality(WorkingThreads) \in Nat
<1>1. IsFiniteSet(Threads)
  BY DEF PoolAssumption
<1>2. AliveThreads \subseteq Threads /\ WorkingThreads \subseteq Threads
  BY DEF AliveThreads, WorkingThreads
<1>3. IsFiniteSet(AliveThreads) /\ IsFiniteSet(WorkingThreads)
  BY <1>1, <1>2, FS_Subset
<1>. QED  BY <1>3, FS_CardinalityType

(* Every step counts the threads it moves. *)
LEMMA CountsStep ==
  ASSUME PoolAssumption, Shape, Counts, [Next]_vars PROVE Counts'
<1>. USE DEF queueVars, counts, flags, signals, Runs, Goto
<1>1. CASE UNCHANGED <<pc, counts>>
  BY <1>1, CountsKept DEF SameClasses
<1>2. ASSUME NEW t \in Threads,
             \/ ThreadLoop(t) \/ BsemTake(t) \/ BsemSleep(t) \/ CheckKeepalive(t)
             \/ PullNothing(t) \/ PullJob(t) \/ JobEnds(t) \/ ExitUnlock(t)
             \/ SpuriousThread(t) \/ \E j \in Jobs : JobAdds(t, j)
      PROVE  Counts'
  <2>1. SameClasses
    BY <1>2 DEF Shape, Places, Alive, Working, SameClasses, ThreadLoop, BsemTake, BsemSleep,
                CheckKeepalive, PullNothing, PullJob, JobEnds, ExitUnlock, SpuriousThread, JobAdds
  <2>. QED  BY <2>1, CountsKept
<1>3. ASSUME NEW t \in Threads, PullPost(t) \/ JobPosts(t) PROVE Counts'
  <2>1. pc \in [Threads -> Places] /\ pc[t] \in {"post", "jobpost"}
    BY <1>3 DEF Shape, PullPost, JobPosts
  <2>2. [pc EXCEPT ![t] = "run"] \in [Threads -> Places]
    BY <2>1 DEF Places, Alive, Working
  <2>3. pc' \in Signal([pc EXCEPT ![t] = "run"]) /\ UNCHANGED counts
    BY <1>3 DEF PullPost, JobPosts, PostJob, bsem_post
  <2>4. \A u \in Threads :
               \/ pc'[u] = [pc EXCEPT ![t] = "run"][u]
               \/ ([pc EXCEPT ![t] = "run"][u] = "asleep" /\ pc'[u] = "wait")
    BY <2>2, <2>3, ThreadSignal
  <2>5. SameClasses
    BY <2>1, <2>3, <2>4 DEF SameClasses, Alive, Working
  <2>. QED  BY <2>5, CountsKept
<1>4. ASSUME NEW c \in Callers, AddPost(c) \/ DestroyPost(c) PROVE Counts'
  <2>1. pc \in [Threads -> Places] /\ UNCHANGED counts
    BY <1>4 DEF Shape, AddPost, DestroyPost
  <2>2. \A t \in Threads : pc'[t] = pc[t] \/ (pc[t] = "asleep" /\ pc'[t] = "wait")
    <3>1. CASE AddPost(c)
      BY <2>1, <3>1, ThreadSignal DEF AddPost, PostJob, bsem_post
    <3>2. CASE DestroyPost(c)
      BY <2>1, <3>2, ThreadWake DEF DestroyPost
    <3>. QED  BY <1>4, <3>1, <3>2
  <2>3. SameClasses
    BY <2>1, <2>2 DEF SameClasses, Alive, Working
  <2>. QED  BY <2>3, CountsKept
<1>5. ASSUME NEW t \in Threads, ThreadStart(t) PROVE Counts'
  <2>1. /\ AliveThreads' = AliveThreads \cup {t} /\ t \notin AliveThreads
        /\ WorkingThreads' = WorkingThreads
    BY <1>5 DEF Shape, ThreadStart, AliveThreads, WorkingThreads, Alive, Working
  <2>2. Cardinality(AliveThreads') = Cardinality(AliveThreads) + 1
    BY <2>1, Countable, FS_AddElement
  <2>. QED  BY <1>5, <2>1, <2>2 DEF Counts, ThreadStart
<1>6. ASSUME NEW t \in Threads, Enter(t) PROVE Counts'
  <2>1. /\ WorkingThreads' = WorkingThreads \cup {t} /\ t \notin WorkingThreads
        /\ AliveThreads' = AliveThreads
    BY <1>6 DEF Shape, Enter, AliveThreads, WorkingThreads, Alive, Working
  <2>2. Cardinality(WorkingThreads') = Cardinality(WorkingThreads) + 1
    BY <2>1, Countable, FS_AddElement
  <2>. QED  BY <1>6, <2>1, <2>2 DEF Counts, Enter
<1>7. ASSUME NEW t \in Threads, Leave(t) PROVE Counts'
  <2>1. /\ WorkingThreads' = WorkingThreads \ {t} /\ t \in WorkingThreads
        /\ AliveThreads' = AliveThreads
    BY <1>7 DEF Shape, Leave, AliveThreads, WorkingThreads, Alive, Working
  <2>2. Cardinality(WorkingThreads') = Cardinality(WorkingThreads) - 1
    BY <2>1, Countable, FS_RemoveElement
  <2>. QED  BY <1>7, <2>1, <2>2 DEF Counts, Leave
<1>8. ASSUME NEW t \in Threads, Exit(t) PROVE Counts'
  <2>1. /\ AliveThreads' = AliveThreads \ {t} /\ t \in AliveThreads
        /\ WorkingThreads' = WorkingThreads
    BY <1>8 DEF Shape, Exit, AliveThreads, WorkingThreads, Alive, Working
  <2>2. Cardinality(AliveThreads') = Cardinality(AliveThreads) - 1
    BY <2>1, Countable, FS_RemoveElement
  <2>. QED  BY <1>8, <2>1, <2>2 DEF Counts, Exit
<1>9. ASSUME NEW c \in Callers, CallOnly(c) \/ DestroyFree(c) \/ DestroyCall(c)
             \/ thpool_pause(c) \/ thpool_resume(c) \/ (\E j \in Jobs : AddPush(c, j))
      PROVE  Counts'
  BY <1>9, <1>1 DEF CallOnly, AddGivenUp, WaitSleep, WaitReturn, AddCall, WaitCall, SpuriousCaller,
                    DestroyFree, DestroyCall, thpool_pause, thpool_resume, AddPush
<1>10. ASSUME UNCHANGED vars \/ InitReturn \/ OtherDestroy \/ OtherInit
              \/ \E t \in Threads : Hold(t) \/ Release(t)
       PROVE  Counts'
  BY <1>10, <1>1 DEF vars, InitReturn, OtherDestroy, OtherInit, Hold, Release
<1>. QED  BY <1>2, <1>3, <1>4, <1>5, <1>6, <1>7, <1>8, <1>9, <1>10, Actions DEF CallOnly
---------------------------------------------------------------------------
(* Where the threads are after a step that posts the semaphore. *)
LEMMA PostMoves ==
  ASSUME Shape, NEW t \in Threads, PullPost(t) \/ JobPosts(t)
  PROVE  /\ pc[t] \in {"post", "jobpost"} /\ pc'[t] = "run"
         /\ \A u \in Threads \ {t} : pc'[u] = pc[u] \/ (pc[u] = "asleep" /\ pc'[u] = "wait")
         /\ \E u \in Threads : pc'[u] # "asleep"
<1>1. pc \in [Threads -> Places] /\ pc[t] \in {"post", "jobpost"}
  BY DEF Shape, PullPost, JobPosts, Runs
<1>. DEFINE f == [pc EXCEPT ![t] = "run"]
<1>2. f \in [Threads -> Places]
  BY <1>1 DEF Places, Alive, Working
<1>3. pc' \in Signal(f)
  BY DEF PullPost, JobPosts, PostJob, bsem_post
<1>4. \A u \in Threads : pc'[u] = f[u] \/ (f[u] = "asleep" /\ pc'[u] = "wait")
  <2>. HIDE DEF f
  <2>. QED  BY <1>2, <1>3, ThreadSignal
<1>5. f[t] = "run" /\ \A u \in Threads \ {t} : f[u] = pc[u]
  BY <1>1
<1>6. pc'[t] = "run"
  <2>. HIDE DEF f
  <2>. QED  BY <1>4, <1>5
<1>. QED  BY <1>1, <1>4, <1>5, <1>6

(* A caller's post wakes threads and moves no other. *)
LEMMA CallerPostMoves ==
  ASSUME Shape, NEW c \in Callers, AddPost(c) \/ DestroyPost(c)
  PROVE  \A t \in Threads : pc'[t] = pc[t] \/ (pc[t] = "asleep" /\ pc'[t] = "wait")
<1>1. CASE AddPost(c)
  BY <1>1, ThreadSignal DEF Shape, AddPost, PostJob, bsem_post
<1>2. CASE DestroyPost(c)
  BY <1>2, ThreadWake DEF Shape, DestroyPost
<1>. QED  BY <1>1, <1>2

(* Every step moves a thread and its job together. *)
LEMMA JobsHeldStep ==
  ASSUME PoolAssumption, Shape, JobsHeld, [Next]_vars PROVE JobsHeld'
<1>. USE DEF Runs, Goto
<1>1. CASE UNCHANGED <<pc, job>>
  BY <1>1 DEF JobsHeld
<1>2. ASSUME NEW t \in Threads,
             \/ ThreadStart(t) \/ ThreadLoop(t) \/ BsemTake(t) \/ BsemSleep(t)
             \/ CheckKeepalive(t) \/ Enter(t) \/ PullNothing(t) \/ Leave(t) \/ Exit(t)
             \/ ExitUnlock(t) \/ SpuriousThread(t) \/ \E j \in Jobs : JobAdds(t, j)
      PROVE  JobsHeld'
  BY <1>2 DEF Shape, JobsHeld, ThreadStart, ThreadLoop, BsemTake, BsemSleep, CheckKeepalive,
              Enter, PullNothing, Leave, Exit, ExitUnlock, SpuriousThread, JobAdds
<1>3. ASSUME NEW t \in Threads, PullJob(t) PROVE JobsHeld'
  <2>1. Head(queue) \in Jobs /\ NoJob \notin Jobs
    BY <1>3, HeadTailProperties DEF PoolAssumption, Shape, PullJob
  <2>. QED  BY <1>3, <2>1 DEF Shape, JobsHeld, PullJob
<1>4. ASSUME NEW t \in Threads, PullPost(t) \/ JobPosts(t) PROVE JobsHeld'
  <2>1. UNCHANGED job
    BY <1>4 DEF PullPost, JobPosts
  <2>. QED  BY <1>4, <2>1, PostMoves DEF JobsHeld
<1>5. ASSUME NEW t \in Threads, JobEnds(t) PROVE JobsHeld'
  BY <1>5 DEF Shape, JobsHeld, JobEnds
<1>6. ASSUME NEW c \in Callers, AddPost(c) \/ DestroyPost(c) PROVE JobsHeld'
  <2>1. UNCHANGED job
    BY <1>6 DEF AddPost, DestroyPost
  <2>. QED  BY <1>6, <2>1, CallerPostMoves DEF JobsHeld
<1>7. ASSUME NEW c \in Callers, CallOnly(c) \/ DestroyFree(c) \/ DestroyCall(c)
             \/ thpool_pause(c) \/ thpool_resume(c) \/ (\E j \in Jobs : AddPush(c, j))
      PROVE  JobsHeld'
  BY <1>7, <1>1 DEF CallOnly, AddGivenUp, WaitSleep, WaitReturn, AddCall, WaitCall, SpuriousCaller,
                    DestroyFree, DestroyCall, thpool_pause, thpool_resume, AddPush
<1>8. ASSUME UNCHANGED vars \/ InitReturn \/ OtherDestroy \/ OtherInit
              \/ \E t \in Threads : Hold(t) \/ Release(t)
       PROVE  JobsHeld'
  BY <1>8, <1>1 DEF vars, InitReturn, OtherDestroy, OtherInit, Hold, Release
<1>. QED  BY <1>2, <1>3, <1>4, <1>5, <1>6, <1>7, <1>8, Actions DEF CallOnly
---------------------------------------------------------------------------
(* The counters tell where the threads are. *)
LEMMA CountsTell ==
  ASSUME PoolAssumption, Counts
  PROVE  /\ num_threads_alive = 0 => \A t \in Threads : pc[t] \notin Alive
         /\ num_threads_alive = Cardinality(Threads) => \A t \in Threads : pc[t] \in Alive
         /\ num_threads_working = 0 <=> \A t \in Threads : pc[t] \notin Working
<1>1. AliveThreads \in SUBSET Threads /\ IsFiniteSet(Threads)
  BY DEF AliveThreads, PoolAssumption
<1>2. num_threads_alive = 0 => AliveThreads = {}
  BY Countable, FS_EmptySet DEF Counts
<1>3. num_threads_working = 0 <=> WorkingThreads = {}
  BY Countable, FS_EmptySet DEF Counts
<1>4. num_threads_alive = Cardinality(Threads) => AliveThreads = Threads
  BY <1>1, FS_Subset DEF Counts
<1>. QED  BY <1>2, <1>3, <1>4 DEF AliveThreads, WorkingThreads

(* Every step respects the life of the pool. *)
LEMMA LivesStep ==
  ASSUME PoolAssumption, Shape, Counts, Lives, [Next]_vars PROVE Lives'
<1>. USE DEF Runs, Goto, At, Calling
<1>1. CASE UNCHANGED <<pc, op, life>>
  BY <1>1 DEF Lives
<1>2. ASSUME NEW t \in Threads,
             \/ ThreadStart(t) \/ ThreadLoop(t) \/ BsemTake(t) \/ BsemSleep(t)
             \/ CheckKeepalive(t) \/ Enter(t) \/ PullNothing(t) \/ PullJob(t) \/ JobEnds(t)
             \/ Exit(t) \/ ExitUnlock(t) \/ SpuriousThread(t) \/ \E j \in Jobs : JobAdds(t, j)
      PROVE  Lives'
  BY <1>2 DEF Shape, Lives, ThreadStart, ThreadLoop, BsemTake, BsemSleep, CheckKeepalive,
              Enter, PullNothing, PullJob, JobEnds, Exit, ExitUnlock, SpuriousThread, JobAdds
<1>3. ASSUME NEW t \in Threads, PullPost(t) \/ JobPosts(t) PROVE Lives'
  <2>1. UNCHANGED <<op, life>>
    BY <1>3 DEF PullPost, JobPosts
  <2>. QED  BY <1>3, <2>1, PostMoves DEF Lives
<1>4. ASSUME NEW t \in Threads, Leave(t) PROVE Lives'
  <2>1. op' \in Signal(op) \/ op' = op
    BY <1>4 DEF Leave
  <2>2. \A c \in Callers : op'[c] = op[c] \/ (op[c] = "asleep" /\ op'[c] = "wait")
    BY <2>1, CallerSignal DEF Shape
  <2>. QED  BY <1>4, <2>2 DEF Shape, Lives, Leave
<1>5. ASSUME NEW c \in Callers, AddPost(c) PROVE Lives'
  <2>1. UNCHANGED life /\ op' = [op EXCEPT ![c] = "idle"]
    BY <1>5 DEF AddPost
  <2>. QED  BY <1>5, <2>1, CallerPostMoves DEF Shape, Lives
<1>6. ASSUME NEW c \in Callers, DestroyPost(c) PROVE Lives'
  <2>1. UNCHANGED <<life, op>>
    BY <1>6 DEF DestroyPost
  <2>. QED  BY <1>6, <2>1, CallerPostMoves DEF Lives
<1>7. ASSUME NEW c \in Callers, CallOnly(c) \/ (\E j \in Jobs : AddPush(c, j)) PROVE Lives'
  BY <1>7 DEF Shape, Lives, CallOnly, AddGivenUp, WaitSleep, WaitReturn, AddCall, WaitCall,
              SpuriousCaller, AddPush
<1>8. ASSUME NEW c \in Callers, DestroyCall(c) \/ thpool_pause(c) \/ thpool_resume(c)
      PROVE  Lives'
  BY <1>8 DEF Shape, Lives, DestroyCall, thpool_pause, thpool_resume
<1>9. ASSUME NEW c \in Callers, DestroyFree(c) PROVE Lives'
  <2>1. life # "init" /\ \A t \in Threads : pc[t] # "start"
    BY <1>9 DEF DestroyFree, Lives
  <2>2. \A t \in Threads : pc[t] \in {"unlock", "dead"}
    BY <1>9, <2>1, CountsTell DEF DestroyFree, Shape, Places
  <2>. QED  BY <1>9, <2>1, <2>2 DEF DestroyFree, Shape, Lives
<1>10. CASE InitReturn
  <2>1. \A t \in Threads : pc[t] # "start"
    BY <1>10, CountsTell DEF InitReturn, Alive, Working
  <2>. QED  BY <1>10, <2>1 DEF InitReturn, Lives
<1>11. ASSUME UNCHANGED vars \/ OtherDestroy \/ OtherInit \/ \E t \in Threads : Hold(t) \/ Release(t)
       PROVE  Lives'
  BY <1>11, <1>1 DEF vars, OtherDestroy, OtherInit, Hold, Release
<1>. QED  BY <1>2, <1>3, <1>4, <1>5, <1>6, <1>7, <1>8, <1>9, <1>10, <1>11, Actions DEF CallOnly
---------------------------------------------------------------------------
(* A job is added to the queue, ... *)
LEMMA PushAccounted ==
  ASSUME Shape, Accounted, NEW j \in Jobs, NEW who, jobqueue_push(who, j),
         UNCHANGED <<job, done, life>>
  PROVE  Accounted'
<1>1. queue' = Append(queue, j) /\ added' = added \cup {j} /\ queue \in Seq(Jobs)
  BY DEF jobqueue_push, Shape
<1>2. InQueue' = InQueue \cup {j}
  BY <1>1, AppendElements DEF InQueue
<1>3. Running' = Running
  BY DEF Running
<1>. QED  BY <1>1, <1>2, <1>3 DEF Accounted

(* ... pulled from it, ... *)
LEMMA PullAccounted ==
  ASSUME PoolAssumption, Shape, JobsHeld, Accounted, NEW t \in Threads, PullJob(t)
  PROVE  Accounted'
<1>1. /\ queue \in Seq(Jobs) /\ queue # << >> /\ queue' = Tail(queue)
      /\ job' = [job EXCEPT ![t] = Head(queue)] /\ UNCHANGED <<added, done, life>>
      /\ job \in [Threads -> Jobs \cup {NoJob}] /\ job[t] = NoJob
  BY DEF PullJob, Runs, Shape, JobsHeld
<1>2. InQueue = InQueue' \cup {Head(queue)}
  BY <1>1, TailElements DEF InQueue
<1>3. Head(queue) # NoJob
  BY <1>1, HeadTailProperties DEF PoolAssumption
<1>4. Running' \subseteq Running \cup {Head(queue)}
  BY <1>1 DEF Running
<1>5. Running \cup {Head(queue)} \subseteq Running'
  <2>1. Head(queue) \in Running'
    BY <1>1, <1>3 DEF Running
  <2>2. ASSUME NEW u \in Threads, job[u] # NoJob PROVE job[u] \in Running'
    BY <1>1, <2>2 DEF Running
  <2>. QED  BY <2>1, <2>2 DEF Running
<1>. QED  BY <1>1, <1>2, <1>4, <1>5 DEF Accounted

(* ... and finished. *)
LEMMA EndAccounted ==
  ASSUME Shape, JobsHeld, Accounted, NEW t \in Threads, JobEnds(t)
  PROVE  Accounted'
<1>1. /\ job \in [Threads -> Jobs \cup {NoJob}] /\ job[t] # NoJob
      /\ job' = [job EXCEPT ![t] = NoJob] /\ done' = done \cup {job[t]}
      /\ UNCHANGED <<queue, added, life>>
  BY DEF JobEnds, Runs, Shape, JobsHeld, queueVars
<1>2. InQueue' = InQueue
  BY <1>1 DEF InQueue
<1>3. Running' \subseteq Running /\ job[t] \in Running
  BY <1>1 DEF Running
<1>4. ASSUME NEW u \in Threads, job[u] # NoJob PROVE job[u] \in Running' \cup {job[t]}
  BY <1>1, <1>4 DEF Running
<1>5. Running \subseteq Running' \cup {job[t]}
  BY <1>4 DEF Running
<1>. QED  BY <1>1, <1>2, <1>3, <1>5 DEF Accounted

(* Every step accounts for the jobs. *)
LEMMA AccountedStep ==
  ASSUME PoolAssumption, Shape, JobsHeld, Accounted, [Next]_vars PROVE Accounted'
<1>. USE DEF queueVars, signals, flags, counts
<1>1. ASSUME UNCHANGED <<queue, job, added, done>>, life = "freed" => life' = "freed"
      PROVE  Accounted'
  BY <1>1 DEF Accounted, InQueue, Running
<1>2. ASSUME NEW t \in Threads,
             \/ ThreadStart(t) \/ ThreadLoop(t) \/ BsemTake(t) \/ BsemSleep(t)
             \/ CheckKeepalive(t) \/ Enter(t) \/ PullNothing(t) \/ PullPost(t) \/ JobPosts(t)
             \/ Leave(t) \/ Exit(t) \/ ExitUnlock(t) \/ Hold(t) \/ Release(t)
             \/ SpuriousThread(t)
      PROVE  Accounted'
  BY <1>2, <1>1 DEF ThreadStart, ThreadLoop, BsemTake, BsemSleep, CheckKeepalive, Enter,
              PullNothing, PullPost, JobPosts, PostJob, Leave, Exit, ExitUnlock, Hold, Release,
              SpuriousThread
<1>3. ASSUME NEW t \in Threads, PullJob(t) \/ JobEnds(t) PROVE Accounted'
  BY <1>3, PullAccounted, EndAccounted
<1>4. ASSUME NEW t \in Threads, NEW j \in Jobs, JobAdds(t, j) PROVE Accounted'
  BY <1>4, PushAccounted DEF JobAdds
<1>5. ASSUME NEW c \in Callers, NEW j \in Jobs, AddPush(c, j) PROVE Accounted'
  BY <1>5, PushAccounted DEF AddPush
<1>6. ASSUME NEW c \in Callers,
             CallOnly(c) \/ AddPost(c) \/ DestroyPost(c) \/ thpool_pause(c) \/ thpool_resume(c)
      PROVE  Accounted'
  BY <1>6, <1>1 DEF CallOnly, AddGivenUp, WaitSleep, WaitReturn, AddCall, WaitCall, SpuriousCaller,
                    AddPost, PostJob, DestroyPost, thpool_pause, thpool_resume
<1>7. ASSUME NEW c \in Callers, DestroyFree(c) PROVE Accounted'
  BY <1>7 DEF DestroyFree, Accounted
<1>8. ASSUME NEW c \in Callers, DestroyCall(c) PROVE Accounted'
  BY <1>8, <1>1 DEF DestroyCall, Calling
<1>9. ASSUME UNCHANGED vars \/ InitReturn \/ OtherDestroy \/ OtherInit PROVE Accounted'
  BY <1>9, <1>1 DEF vars, InitReturn, OtherDestroy, OtherInit
<1>. QED  BY <1>2, <1>3, <1>4, <1>5, <1>6, <1>7, <1>8, <1>9, Actions DEF CallOnly
---------------------------------------------------------------------------
(* PoolInv holds at first, ... *)
LEMMA InitHolds ==
  ASSUME PoolAssumption, Init PROVE PoolInv
<1>1. Shape
  BY EmptySeq DEF Init, Shape, Places, CallPlaces
<1>2. AliveThreads = {} /\ WorkingThreads = {}
  BY DEF Init, AliveThreads, WorkingThreads, Alive, Working
<1>3. Counts
  BY <1>2, FS_EmptySet DEF Init, Counts
<1>4. JobsHeld
  BY DEF Init, JobsHeld
<1>5. Lives
  BY DEF Init, Lives
<1>6. InQueue = {}
  BY LenProperties, EmptySeq DEF Init, InQueue
<1>7. Running = {}
  BY DEF Init, Running
<1>8. Accounted
  BY <1>6, <1>7 DEF Init, Accounted
<1>. QED  BY <1>1, <1>3, <1>4, <1>5, <1>8 DEF PoolInv

(* ... and after every step. *)
LEMMA StepHolds ==
  ASSUME PoolAssumption, PoolInv, [Next]_vars PROVE PoolInv'
BY ShapeStep, CountsStep, JobsHeldStep, LivesStep, AccountedStep DEF PoolInv

(* PoolInv holds always, ... *)
THEOREM PoolInvariant == Spec => []PoolInv
<1>1. PoolInv /\ [Next]_vars => PoolInv'
  BY StepHolds, PoolAssumption
<1>2. Init => PoolInv
  BY InitHolds, PoolAssumption
<1>. QED  BY <1>1, <1>2, PTL DEF Spec

(* ... so the counters of thpool.c count the threads that are alive and that *)
(* work, whatever is paused, added or destroyed meanwhile.                   *)
THEOREM PoolTypeCorrect == Spec => []TypeOK
<1>1. PoolInv => TypeOK
  BY DEF PoolInv, Shape, Counts, Places, CallPlaces, AliveThreads, WorkingThreads, TypeOK
<1>. QED  BY <1>1, PoolInvariant, PTL

(* thpool_destroy frees the pool when no thread is inside it any more: all   *)
(* of them have been alive and are not, and none has a job.                  *)
THEOREM FreedIsQuiet == Spec => []FreedQuiet
<1>1. PoolInv => FreedQuiet
  BY DEF PoolInv, JobsHeld, Lives, FreedQuiet
<1>. QED  BY <1>1, PoolInvariant, PTL

(* Who stops waiting has seen no job. *)
LEMMA ReturnSees ==
  ASSUME PoolInv, [Next]_vars, NEW c \in Callers, op[c] = "wait", op'[c] = "idle"
  PROVE  ~JobsLeft
<1>. USE DEF At, Calling
<1>1. Shape
  BY DEF PoolInv
<1>2. CASE UNCHANGED op
  BY <1>2
<1>3. ASSUME NEW t \in Threads, Leave(t) PROVE FALSE
  <2>1. op' \in Signal(op) \/ op' = op
    BY <1>3 DEF Leave
  <2>2. op'[c] = op[c] \/ (op[c] = "asleep" /\ op'[c] = "wait")
    BY <1>1, <2>1, CallerSignal DEF Shape
  <2>. QED  BY <2>2
<1>4. ASSUME NEW t \in Threads,
             \/ ThreadStart(t) \/ ThreadLoop(t) \/ BsemTake(t) \/ BsemSleep(t)
             \/ CheckKeepalive(t) \/ Enter(t) \/ PullNothing(t) \/ PullJob(t) \/ PullPost(t)
             \/ JobPosts(t) \/ JobEnds(t) \/ Exit(t) \/ ExitUnlock(t)
             \/ Hold(t) \/ Release(t) \/ SpuriousThread(t)
             \/ \E j \in Jobs : JobAdds(t, j)
      PROVE  FALSE
  BY <1>4, <1>2 DEF ThreadStart, ThreadLoop, BsemTake, BsemSleep, CheckKeepalive, Enter,
              PullNothing, PullJob, PullPost, JobPosts, JobEnds, Exit, ExitUnlock, Hold, Release,
              SpuriousThread, JobAdds
<1>5. ASSUME NEW d \in Callers, WaitReturn(d) PROVE ~JobsLeft
  BY <1>5 DEF WaitReturn
<1>6. ASSUME NEW d \in Callers,
             \/ \E j \in Jobs : AddPush(d, j)
             \/ AddPost(d) \/ AddGivenUp(d) \/ WaitSleep(d) \/ DestroyPost(d) \/ DestroyFree(d)
             \/ AddCall(d) \/ WaitCall(d) \/ thpool_pause(d) \/ thpool_resume(d)
             \/ DestroyCall(d) \/ SpuriousCaller(d)
      PROVE  FALSE
  BY <1>1, <1>6, <1>2 DEF Shape, AddPush, AddPost, AddGivenUp, WaitSleep, DestroyPost, DestroyFree,
              AddCall, WaitCall, thpool_pause, thpool_resume, DestroyCall, SpuriousCaller
<1>7. CASE UNCHANGED vars \/ InitReturn \/ OtherDestroy \/ OtherInit
  BY <1>7, <1>2 DEF vars, InitReturn, OtherDestroy, OtherInit
<1>. QED  BY <1>3, <1>4, <1>5, <1>6, <1>7, Actions

(* thpool_wait returns when the queue is empty and the counter of working    *)
(* threads is 0: then every job that was added has been finished.            *)
THEOREM WaitIsDone == Spec => WaitMeansDone
<1>1. ASSUME PoolInv, [Next]_vars, NEW c \in Callers, op[c] = "wait", op'[c] = "idle"
      PROVE  added = done
  <2>1. queue = << >> /\ num_threads_working = 0
    BY <1>1, ReturnSees DEF JobsLeft
  <2>2. \A t \in Threads : job[t] = NoJob
    BY <1>1, <2>1, CountsTell, PoolAssumption DEF PoolInv, JobsHeld, Working
  <2>3. InQueue = {} /\ Running = {}
    BY <2>1, <2>2, LenProperties, EmptySeq DEF InQueue, Running
  <2>4. life # "freed"
    BY <1>1 DEF PoolInv, Lives
  <2>. QED  BY <1>1, <2>3, <2>4 DEF PoolInv, Accounted
<1>2. PoolInv /\ [Next]_vars =>
        [\A c \in Callers : op[c] = "wait" /\ op'[c] = "idle" => added = done]_vars
  BY <1>1
<1>. QED  BY <1>2, PoolInvariant, PTL DEF Spec, WaitMeansDone
---------------------------------------------------------------------------
(* JobsAnnounced needs only the shape of the state: what takes the semaphore *)
(* pulls or gives up the pool, and what pulls posts it again.                *)
LEMMA AnnouncedStep ==
  ASSUME PoolAssumption, ~OtherPools, Shape, JobsAnnounced, [Next]_vars PROVE JobsAnnounced'
<1>. USE DEF queueVars, signals, flags, counts, Runs, Goto
<1>1. ASSUME UNCHANGED <<pc, queueVars, threads_keepalive>> PROVE JobsAnnounced'
  BY <1>1 DEF JobsAnnounced
<1>2. ASSUME NEW t \in Threads,
             \/ ThreadStart(t) \/ ThreadLoop(t) \/ BsemTake(t) \/ BsemSleep(t)
             \/ CheckKeepalive(t) \/ Enter(t) \/ PullNothing(t)
             \/ JobEnds(t) \/ Leave(t) \/ Exit(t) \/ ExitUnlock(t) \/ SpuriousThread(t)
      PROVE  JobsAnnounced'
  BY <1>2 DEF Shape, JobsAnnounced, ThreadStart, ThreadLoop, BsemTake, BsemSleep, CheckKeepalive,
              Enter, PullNothing, JobEnds, Leave, Exit, ExitUnlock, SpuriousThread
<1>3. ASSUME NEW t \in Threads, PullJob(t) PROVE JobsAnnounced'
  <2>1. CASE Len(queue) = 1
    <3>1. Tail(queue) = << >>
      BY <1>3, <2>1, HeadTailProperties, EmptySeq DEF Shape, PullJob
    <3>. QED  BY <1>3, <3>1 DEF PullJob, JobsAnnounced
  <2>2. CASE Len(queue) # 1
    BY <1>3, <2>2 DEF PoolAssumption, PullJob, JobsAnnounced
  <2>. QED  BY <2>1, <2>2
<1>4. ASSUME NEW t \in Threads, PullPost(t) \/ JobPosts(t) PROVE JobsAnnounced'
  BY <1>4 DEF PullPost, JobPosts, PostJob, bsem_post, JobsAnnounced
<1>5. ASSUME NEW t \in Threads, NEW j \in Jobs, JobAdds(t, j) PROVE JobsAnnounced'
  BY <1>5 DEF PoolAssumption, JobAdds, jobqueue_push, JobsAnnounced
<1>6. ASSUME NEW c \in Callers, NEW j \in Jobs, AddPush(c, j) PROVE JobsAnnounced'
  BY <1>6 DEF PoolAssumption, AddPush, jobqueue_push, JobsAnnounced
<1>7. ASSUME NEW c \in Callers, AddPost(c) \/ DestroyPost(c) PROVE JobsAnnounced'
  BY <1>7 DEF AddPost, DestroyPost, PostJob, bsem_post, JobsAnnounced
<1>8. ASSUME NEW c \in Callers, DestroyFree(c) \/ DestroyCall(c) PROVE JobsAnnounced'
  BY <1>8 DEF DestroyFree, DestroyCall, JobsAnnounced
<1>9. ASSUME NEW c \in Callers, CallOnly(c) \/ thpool_pause(c) \/ thpool_resume(c)
      PROVE  JobsAnnounced'
  BY <1>9, <1>1 DEF CallOnly, AddGivenUp, WaitSleep, WaitReturn, AddCall, WaitCall, SpuriousCaller,
                    thpool_pause, thpool_resume
<1>10. ASSUME \/ UNCHANGED vars \/ InitReturn \/ OtherDestroy \/ OtherInit
              \/ \E t \in Threads : Hold(t) \/ Release(t)
       PROVE  JobsAnnounced'
  BY <1>10, <1>1 DEF vars, InitReturn, OtherDestroy, OtherInit, Hold, Release
<1>. QED  BY <1>2, <1>3, <1>4, <1>5, <1>6, <1>7, <1>8, <1>9, <1>10, Actions DEF CallOnly

(* In a process with one pool no job is queued without an announcement, for  *)
(* any number of threads and callers: a posted semaphore, or somebody who is *)
(* going to post it or to look at the queue.                                 *)
THEOREM Announced ==
  ASSUME ~OtherPools PROVE Spec => []JobsAnnounced
<1>1. Init => JobsAnnounced
  BY DEF Init, JobsAnnounced
<1>2. PoolInv /\ JobsAnnounced /\ [Next]_vars => JobsAnnounced'
  BY AnnouncedStep, PoolAssumption DEF PoolInv
<1>. QED  BY <1>1, <1>2, PoolInvariant, PTL DEF Spec

(* Who posts the semaphore wakes a sleeper, and nobody falls asleep before   *)
(* it is taken. *)
LEMMA AwakeStep ==
  ASSUME PoolAssumption, Shape, SomebodyAwake, [Next]_vars PROVE SomebodyAwake'
<1>. USE DEF queueVars, Runs, Goto
<1>1. ASSUME UNCHANGED <<pc, v>> PROVE SomebodyAwake'
  BY <1>1 DEF SomebodyAwake
<1>2. ASSUME NEW t \in Threads,
             \/ ThreadStart(t) \/ ThreadLoop(t) \/ BsemTake(t) \/ BsemSleep(t)
             \/ CheckKeepalive(t) \/ Enter(t) \/ PullNothing(t) \/ PullJob(t)
             \/ JobEnds(t) \/ Leave(t) \/ Exit(t) \/ ExitUnlock(t) \/ SpuriousThread(t)
             \/ \E j \in Jobs : JobAdds(t, j)
      PROVE  SomebodyAwake'
  <2>1. v' = 1 => pc'[t] # "asleep"
    BY <1>2 DEF Shape, ThreadStart, ThreadLoop, BsemTake, BsemSleep, CheckKeepalive, Enter,
                PullNothing, PullJob, JobEnds, Leave, Exit, ExitUnlock, SpuriousThread,
                JobAdds, jobqueue_push
  <2>. QED  BY <2>1 DEF SomebodyAwake
<1>3. ASSUME NEW t \in Threads, PullPost(t) \/ JobPosts(t) PROVE SomebodyAwake'
  BY <1>3, PostMoves DEF SomebodyAwake
<1>4. ASSUME NEW c \in Callers, AddPost(c) \/ DestroyPost(c) PROVE SomebodyAwake'
  <2>1. PICK t \in Threads : TRUE
    BY DEF PoolAssumption
  <2>2. CASE AddPost(c)
    <3>1. (\E u \in Threads : pc[u] = "asleep") => \E u \in Threads : pc'[u] = "wait"
      BY <2>2, ThreadSignal DEF Shape, AddPost, PostJob, bsem_post
    <3>2. pc'[t] = pc[t] \/ pc'[t] = "wait"
      BY <1>4, CallerPostMoves
    <3>. QED  BY <3>1, <3>2 DEF SomebodyAwake
  <2>3. CASE DestroyPost(c)
    <3>1. pc'[t] # "asleep"
      BY <2>3, ThreadWake DEF Shape, DestroyPost
    <3>. QED  BY <3>1 DEF SomebodyAwake
  <2>. QED  BY <1>4, <2>2, <2>3
<1>5. ASSUME NEW c \in Callers, DestroyFree(c) PROVE SomebodyAwake'
  BY <1>5 DEF DestroyFree, SomebodyAwake
<1>6. ASSUME NEW c \in Callers, CallOnly(c) \/ DestroyCall(c) \/ thpool_pause(c)
             \/ thpool_resume(c) \/ (\E j \in Jobs : AddPush(c, j))
      PROVE  SomebodyAwake'
  BY <1>6, <1>1 DEF CallOnly, AddGivenUp, WaitSleep, WaitReturn, AddCall, WaitCall, SpuriousCaller,
                    DestroyCall, thpool_pause, thpool_resume, AddPush, jobqueue_push
<1>7. ASSUME \/ UNCHANGED vars \/ InitReturn \/ OtherDestroy \/ OtherInit
             \/ \E t \in Threads : Hold(t) \/ Release(t)
      PROVE  SomebodyAwake'
  BY <1>7, <1>1 DEF vars, InitReturn, OtherDestroy, OtherInit, Hold, Release
<1>. QED  BY <1>2, <1>3, <1>4, <1>5, <1>6, <1>7, Actions DEF CallOnly

(* While the semaphore is up the threads do not all sleep, whoever posted it *)
(* and however many there are.                                               *)
THEOREM Awake == Spec => []SomebodyAwake
<1>1. Init => SomebodyAwake
  BY DEF Init, SomebodyAwake
<1>2. PoolInv /\ SomebodyAwake /\ [Next]_vars => SomebodyAwake'
  BY AwakeStep, PoolAssumption DEF PoolInv
<1>. QED  BY <1>1, <1>2, PoolInvariant, PTL DEF Spec
---------------------------------------------------------------------------
(* A caller that is asleep in thpool_wait, when no other may call it: jobs   *)
(* are left.  With two of them the one signal of thread_do may go to the     *)
(* other one, which is why the theorem has its assumption.                   *)
OnlyWaiters == \A c \in Callers : op[c] \in {"wait", "asleep"} => c \in Waiters

SleeperInv == OnlyWaiters /\ WaiterRemembered

(* Only callers that may wait ever do. *)
LEMMA OnlyWaitersStep ==
  ASSUME PoolAssumption, Shape, OnlyWaiters, [Next]_vars PROVE OnlyWaiters'
<1>. USE DEF At, Calling
<1>1. ASSUME UNCHANGED op PROVE OnlyWaiters'
  BY <1>1 DEF OnlyWaiters
<1>2. ASSUME NEW t \in Threads, Leave(t) PROVE OnlyWaiters'
  <2>1. op' \in Signal(op) \/ op' = op
    BY <1>2 DEF Leave
  <2>2. \A c \in Callers : op'[c] = op[c] \/ (op[c] = "asleep" /\ op'[c] = "wait")
    BY <2>1, CallerSignal DEF Shape
  <2>. QED  BY <2>2 DEF OnlyWaiters
<1>3. ASSUME NEW t \in Threads,
             \/ ThreadStart(t) \/ ThreadLoop(t) \/ BsemTake(t) \/ BsemSleep(t)
             \/ CheckKeepalive(t) \/ Enter(t) \/ PullNothing(t) \/ PullJob(t) \/ PullPost(t)
             \/ JobPosts(t) \/ JobEnds(t) \/ Exit(t) \/ ExitUnlock(t)
             \/ Hold(t) \/ Release(t) \/ SpuriousThread(t)
             \/ \E j \in Jobs : JobAdds(t, j)
      PROVE  OnlyWaiters'
  BY <1>3, <1>1 DEF ThreadStart, ThreadLoop, BsemTake, BsemSleep, CheckKeepalive, Enter,
              PullNothing, PullJob, PullPost, JobPosts, JobEnds, Exit, ExitUnlock, Hold, Release,
              SpuriousThread, JobAdds
<1>4. ASSUME NEW c \in Callers,
             \/ \E j \in Jobs : AddPush(c, j)
             \/ AddPost(c) \/ AddGivenUp(c) \/ WaitSleep(c) \/ WaitReturn(c) \/ DestroyPost(c)
             \/ DestroyFree(c) \/ AddCall(c) \/ WaitCall(c) \/ thpool_pause(c)
             \/ thpool_resume(c) \/ DestroyCall(c) \/ SpuriousCaller(c)
      PROVE  OnlyWaiters'
  BY <1>4 DEF Shape, OnlyWaiters, AddPush, AddPost, AddGivenUp, WaitSleep, WaitReturn,
              DestroyPost, DestroyFree, AddCall, WaitCall, thpool_pause, thpool_resume,
              DestroyCall, SpuriousCaller
<1>5. ASSUME UNCHANGED vars \/ InitReturn \/ OtherDestroy \/ OtherInit PROVE OnlyWaiters'
  BY <1>5, <1>1 DEF vars, InitReturn, OtherDestroy, OtherInit
<1>. QED  BY <1>2, <1>3, <1>4, <1>5, Actions

(* Every step that finishes the last job, or takes it, remembers the sleeper. *)
LEMMA RememberedStep ==
  ASSUME PoolAssumption, PoolInv, PoolInv', OnlyWaiters, WaiterRemembered, [Next]_vars,
         \A c, d \in Waiters : c = d
  PROVE  WaiterRemembered'
<1>. USE DEF At, Calling, queueVars, counts
<1>1. Shape /\ Shape'
  BY DEF PoolInv
<1>2. num_threads_working \in Nat
  BY Countable DEF PoolInv, Counts
<1>3. ASSUME UNCHANGED op, JobsLeft => JobsLeft' PROVE WaiterRemembered'
  BY <1>3 DEF WaiterRemembered
<1>4. ASSUME NEW t \in Threads, Leave(t) PROVE WaiterRemembered'
  <2>1. CASE num_threads_working = 1
    <3>1. op' \in Signal(op)
      BY <1>4, <2>1 DEF Leave
    <3>2. /\ \A c \in Callers : op'[c] = op[c] \/ (op[c] = "asleep" /\ op'[c] = "wait")
          /\ (\E c \in Callers : op[c] = "asleep") => \E c \in Callers : op'[c] = "wait"
      BY <1>1, <3>1, CallerSignal DEF Shape
    <3>. QED  BY <3>2 DEF WaiterRemembered
  <2>2. CASE num_threads_working # 1
    <3>1. num_threads_working # 0
      BY <1>4, CountsTell DEF PoolInv, Leave, Runs, Working
    <3>2. num_threads_working' # 0
      BY <1>2, <1>4, <2>2, <3>1 DEF Leave
    <3>. QED  BY <1>4, <2>2, <3>2 DEF Leave, WaiterRemembered, JobsLeft
  <2>. QED  BY <2>1, <2>2
<1>5. ASSUME NEW t \in Threads, PullJob(t) PROVE WaiterRemembered'
  <2>1. num_threads_working # 0
    BY <1>5, CountsTell DEF PoolInv, PullJob, Runs, Working
  <2>. QED  BY <1>5, <2>1, <1>3 DEF PullJob, JobsLeft
<1>6. ASSUME NEW t \in Threads, Enter(t) PROVE WaiterRemembered'
  BY <1>2, <1>6, <1>3 DEF Enter, JobsLeft
<1>7. ASSUME NEW t \in Threads,
             \/ ThreadStart(t) \/ ThreadLoop(t) \/ BsemTake(t) \/ BsemSleep(t)
             \/ CheckKeepalive(t) \/ PullNothing(t) \/ PullPost(t)
             \/ JobPosts(t) \/ JobEnds(t) \/ Exit(t) \/ ExitUnlock(t)
             \/ Hold(t) \/ Release(t) \/ SpuriousThread(t)
      PROVE  WaiterRemembered'
  BY <1>7, <1>3 DEF ThreadStart, ThreadLoop, BsemTake, BsemSleep, CheckKeepalive,
              PullNothing, PullPost, JobPosts, PostJob, JobEnds, Exit, ExitUnlock, Hold, Release,
              SpuriousThread, JobsLeft
<1>8. ASSUME NEW t \in Threads, NEW j \in Jobs, JobAdds(t, j) PROVE WaiterRemembered'
  <2>1. num_threads_working # 0
    BY <1>8, CountsTell DEF PoolInv, JobAdds, Runs, Working
  <2>. QED  BY <1>8, <2>1, <1>3 DEF JobAdds, JobsLeft
<1>9. ASSUME NEW c \in Callers, NEW j \in Jobs, AddPush(c, j) PROVE WaiterRemembered'
  <2>1. JobsLeft'
    BY <1>1, <1>9, AppendProperties, EmptySeq DEF Shape, AddPush, jobqueue_push, JobsLeft
  <2>. QED  BY <2>1 DEF WaiterRemembered
<1>10. ASSUME NEW c \in Callers,
             \/ AddPost(c) \/ AddGivenUp(c) \/ AddCall(c) \/ WaitCall(c)
             \/ thpool_pause(c) \/ thpool_resume(c) \/ SpuriousCaller(c) \/ DestroyPost(c)
       PROVE  WaiterRemembered'
  BY <1>1, <1>10 DEF Shape, WaiterRemembered, JobsLeft, PostJob, AddPost, AddGivenUp, AddCall,
             WaitCall, thpool_pause, thpool_resume, SpuriousCaller, DestroyPost
<1>11. ASSUME NEW c \in Callers, WaitSleep(c) PROVE WaiterRemembered'
  BY <1>11 DEF WaitSleep, WaiterRemembered, JobsLeft
<1>12. ASSUME NEW c \in Callers, WaitReturn(c) PROVE WaiterRemembered'
  <2>1. c \in Waiters /\ \A d \in Callers : op[d] = "asleep" => d = c
    BY <1>12 DEF WaitReturn, OnlyWaiters
  <2>2. \A d \in Callers : op'[d] # "asleep"
    BY <1>1, <1>12, <2>1 DEF Shape, WaitReturn
  <2>. QED  BY <2>2 DEF WaiterRemembered
<1>13. ASSUME NEW c \in Callers, DestroyFree(c) \/ DestroyCall(c) PROVE WaiterRemembered'
  <2>1. \A d \in Callers : op[d] # "asleep"
    BY <1>13 DEF PoolInv, Lives, DestroyFree, DestroyCall
  <2>2. \A d \in Callers : op'[d] # "asleep"
    BY <1>1, <1>13, <2>1 DEF Shape, DestroyFree, DestroyCall
  <2>. QED  BY <2>2 DEF WaiterRemembered
<1>14. ASSUME UNCHANGED vars \/ InitReturn \/ OtherDestroy \/ OtherInit PROVE WaiterRemembered'
  BY <1>14, <1>3 DEF vars, InitReturn, OtherDestroy, OtherInit, JobsLeft
<1>. QED  BY <1>4, <1>5, <1>6, <1>7, <1>8, <1>9, <1>10, <1>11, <1>12, <1>13, <1>14, Actions

(* The last job cannot end unnoticed: while the only caller that may wait is *)
(* asleep, the queue is not empty or a thread counts as working.             *)
THEOREM Remembered ==
  ASSUME \A c, d \in Waiters : c = d PROVE Spec => []WaiterRemembered
<1>1. Init => SleeperInv
  BY DEF Init, SleeperInv, OnlyWaiters, WaiterRemembered
<1>2. PoolInv /\ PoolInv' /\ SleeperInv /\ [Next]_vars => SleeperInv'
  BY OnlyWaitersStep, RememberedStep, PoolAssumption DEF PoolInv, SleeperInv
<1>3. SleeperInv => WaiterRemembered
  BY DEF SleeperInv
<1>. QED  BY <1>1, <1>2, <1>3, PoolInvariant, PTL DEF Spec
---------------------------------------------------------------------------
(* Every job is in one place: once in the queue, or with one thread. *)
OnePlace ==
  /\ \A i, k \in DOMAIN queue : queue[i] = queue[k] => i = k
  /\ \A t, u \in Threads : job[t] = job[u] /\ job[t] # NoJob => t = u
  /\ \A k \in DOMAIN queue : queue[k] \notin Running

(* A job not yet added can be appended to the queue, ...                     *)
LEMMA PushOnePlace ==
  ASSUME Shape, Accounted, OnePlace, life # "freed", NEW j \in Jobs, NEW who,
         jobqueue_push(who, j), UNCHANGED job
  PROVE  OnePlace'
<1>1. j \notin added /\ queue' = Append(queue, j) /\ queue \in Seq(Jobs)
  BY DEF jobqueue_push, Shape
<1>2. j \notin InQueue /\ j \notin Running /\ Running' = Running
  BY <1>1 DEF Accounted, Running
<1>3. /\ Len(queue) \in Nat /\ DOMAIN queue = 1 .. Len(queue)
      /\ DOMAIN queue' = 1 .. Len(queue) + 1
      /\ \A k \in 1 .. Len(queue) : queue'[k] = queue[k]
      /\ queue'[Len(queue) + 1] = j
  BY <1>1, LenProperties, AppendProperties
<1>4. \A k \in DOMAIN queue : queue[k] # j
  BY <1>2 DEF InQueue
<1>5. \A k \in DOMAIN queue' : k = Len(queue) + 1 \/ k \in DOMAIN queue
  BY <1>3
<1>6. \A i, k \in DOMAIN queue' : queue'[i] = queue'[k] => i = k
  BY <1>3, <1>4, <1>5 DEF OnePlace
<1>7. \A k \in DOMAIN queue' : queue'[k] \notin Running'
  BY <1>2, <1>3, <1>5 DEF OnePlace
<1>. QED  BY <1>6, <1>7 DEF OnePlace

(* ... and the front of the queue can be run. *)
LEMMA PullOnePlace ==
  ASSUME PoolAssumption, Shape, JobsHeld, OnePlace, NEW t \in Threads, PullJob(t)
  PROVE  OnePlace'
<1>1. /\ queue \in Seq(Jobs) /\ queue # << >> /\ queue' = Tail(queue)
      /\ job' = [job EXCEPT ![t] = Head(queue)]
      /\ job \in [Threads -> Jobs \cup {NoJob}] /\ job[t] = NoJob
  BY DEF PullJob, Runs, Shape, JobsHeld
<1>2. /\ Len(queue) \in Nat /\ DOMAIN queue = 1 .. Len(queue) /\ Len(queue) >= 1
      /\ DOMAIN queue' = 1 .. Len(queue) - 1
      /\ \A k \in 1 .. Len(queue) - 1 : queue'[k] = queue[k + 1]
      /\ Head(queue) = queue[1]
  BY <1>1, LenProperties, HeadTailProperties, EmptySeq
<1>3. \A k \in DOMAIN queue' : /\ k + 1 \in DOMAIN queue /\ k + 1 # 1
                              /\ queue'[k] = queue[k + 1]
  BY <1>2
<1>4. 1 \in DOMAIN queue
  BY <1>2
<1>5. \A i, k \in DOMAIN queue' : queue'[i] = queue'[k] => i = k
  <2>1. \A i, k \in DOMAIN queue' : queue'[i] = queue'[k] => i + 1 = k + 1
    BY <1>3 DEF OnePlace
  <2>. QED  BY <1>2, <2>1
<1>6. ASSUME NEW k \in DOMAIN queue' PROVE queue'[k] \notin Running'
  <2>1. queue'[k] # Head(queue) /\ queue'[k] \notin Running
    BY <1>2, <1>3, <1>4, <1>6 DEF OnePlace
  <2>2. Running' \subseteq Running \cup {Head(queue)}
    BY <1>1 DEF Running
  <2>. QED  BY <2>1, <2>2
<1>7. \A u \in Threads : job[u] # Head(queue) \/ job[u] = NoJob
  BY <1>2, <1>4 DEF OnePlace, Running
<1>8. \A u, w \in Threads : job'[u] = job'[w] /\ job'[u] # NoJob => u = w
  BY <1>1, <1>7 DEF OnePlace
<1>. QED  BY <1>5, <1>6, <1>8 DEF OnePlace

(* Every step keeps every job in one place. *)
LEMMA OnePlaceStep ==
  ASSUME PoolAssumption, PoolInv, OnePlace, [Next]_vars PROVE OnePlace'
<1>. USE DEF queueVars, signals, flags, counts
<1>0. Shape /\ JobsHeld /\ Lives /\ Accounted
  BY DEF PoolInv
<1>1. ASSUME UNCHANGED <<queue, job>> PROVE OnePlace'
  BY <1>1 DEF OnePlace, Running
<1>2. ASSUME NEW t \in Threads,
             \/ ThreadStart(t) \/ ThreadLoop(t) \/ BsemTake(t) \/ BsemSleep(t)
             \/ CheckKeepalive(t) \/ Enter(t) \/ PullNothing(t) \/ PullPost(t) \/ JobPosts(t)
             \/ Leave(t) \/ Exit(t) \/ ExitUnlock(t) \/ Hold(t) \/ Release(t)
             \/ SpuriousThread(t)
      PROVE  OnePlace'
  BY <1>2, <1>1 DEF ThreadStart, ThreadLoop, BsemTake, BsemSleep, CheckKeepalive, Enter,
              PullNothing, PullPost, JobPosts, PostJob, Leave, Exit, ExitUnlock, Hold, Release,
              SpuriousThread
<1>3. ASSUME NEW t \in Threads, PullJob(t) PROVE OnePlace'
  BY <1>0, <1>3, PullOnePlace
<1>4. ASSUME NEW t \in Threads, JobEnds(t) PROVE OnePlace'
  <2>1. Running' \subseteq Running
    BY <1>0, <1>4 DEF JobEnds, Shape, Running
  <2>. QED  BY <1>0, <1>4, <2>1 DEF JobEnds, Shape, OnePlace
<1>5. ASSUME NEW t \in Threads, NEW j \in Jobs, JobAdds(t, j) PROVE OnePlace'
  <2>1. life # "freed"
    BY <1>0, <1>5 DEF JobAdds, Runs, Lives
  <2>. QED  BY <1>0, <1>5, <2>1, PushOnePlace DEF JobAdds
<1>6. ASSUME NEW c \in Callers, NEW j \in Jobs, AddPush(c, j) PROVE OnePlace'
  <2>1. life # "freed"
    BY <1>0, <1>6 DEF AddPush, Lives
  <2>. QED  BY <1>0, <1>6, <2>1, PushOnePlace DEF AddPush
<1>7. ASSUME NEW c \in Callers,
             \/ CallOnly(c) \/ AddPost(c) \/ DestroyPost(c) \/ DestroyCall(c)
             \/ thpool_pause(c) \/ thpool_resume(c)
      PROVE  OnePlace'
  BY <1>7, <1>1 DEF CallOnly, AddGivenUp, WaitSleep, WaitReturn, AddCall, WaitCall, SpuriousCaller,
                    AddPost, PostJob, DestroyPost, DestroyCall, thpool_pause, thpool_resume
<1>8. ASSUME NEW c \in Callers, DestroyFree(c) PROVE OnePlace'
  <2>1. DOMAIN queue' = {} /\ UNCHANGED job
    BY <1>8, LenProperties, EmptySeq DEF DestroyFree
  <2>. QED  BY <2>1 DEF OnePlace
<1>9. ASSUME UNCHANGED vars \/ InitReturn \/ OtherDestroy \/ OtherInit PROVE OnePlace'
  BY <1>9, <1>1 DEF vars, InitReturn, OtherDestroy, OtherInit
<1>. QED  BY <1>2, <1>3, <1>4, <1>5, <1>6, <1>7, <1>8, <1>9, Actions DEF CallOnly
---------------------------------------------------------------------------
(* The state of JobPool that a state of ThPool stands for. *)
Waiting == {c \in Callers : op[c] \in {"wait", "asleep"}}
Over == life = "freed"

(* When none of it changes the step stutters. *)
LEMMA StateKept ==
  ASSUME UNCHANGED <<queue, Running, done, Waiting, Over>> PROVE UNCHANGED Pool!poolVars
BY DEF Pool!poolVars, Running, Waiting, Over

(* Every step is a step of JobPool, or changes nothing of its state. *)
LEMMA PoolStep ==
  ASSUME PoolAssumption, PoolInv, OnePlace, [Next]_vars
  PROVE  Pool!PoolNext \/ UNCHANGED Pool!poolVars
<1>. USE DEF queueVars, signals, flags, counts, At, Calling
<1>0. Shape /\ JobsHeld /\ Lives /\ Accounted
  BY DEF PoolInv
<1>1. ASSUME UNCHANGED <<queue, job, done, life, op>> PROVE UNCHANGED Pool!poolVars
  BY <1>1, StateKept DEF Running, Waiting, Over
<1>2. ASSUME NEW t \in Threads,
             \/ ThreadStart(t) \/ ThreadLoop(t) \/ BsemTake(t) \/ BsemSleep(t)
             \/ CheckKeepalive(t) \/ Enter(t) \/ PullNothing(t) \/ PullPost(t) \/ JobPosts(t)
             \/ Exit(t) \/ ExitUnlock(t) \/ Hold(t) \/ Release(t) \/ SpuriousThread(t)
      PROVE  UNCHANGED Pool!poolVars
  BY <1>2, <1>1 DEF ThreadStart, ThreadLoop, BsemTake, BsemSleep, CheckKeepalive, Enter,
              PullNothing, PullPost, JobPosts, PostJob, Exit, ExitUnlock, Hold, Release,
              SpuriousThread
<1>3. ASSUME NEW t \in Threads, Leave(t) PROVE UNCHANGED Pool!poolVars
  <2>1. op' \in Signal(op) \/ op' = op
    BY <1>3 DEF Leave
  <2>2. \A c \in Callers : op'[c] = op[c] \/ (op[c] = "asleep" /\ op'[c] = "wait")
    BY <1>0, <2>1, CallerSignal DEF Shape
  <2>3. Waiting' = Waiting
    BY <2>2 DEF Waiting
  <2>. QED  BY <1>3, <2>3, StateKept DEF Leave, Running, Over
<1>4. ASSUME NEW t \in Threads, PullJob(t) PROVE Pool!Start
  <2>1. /\ queue \in Seq(Jobs) /\ queue # << >> /\ queue' = Tail(queue)
        /\ job' = [job EXCEPT ![t] = Head(queue)] /\ UNCHANGED <<done, life, op>>
        /\ job \in [Threads -> Jobs \cup {NoJob}] /\ job[t] = NoJob /\ life # "freed"
    BY <1>0, <1>4 DEF PullJob, Runs, Shape, JobsHeld, Lives
  <2>2. Head(queue) # NoJob
    BY <2>1, HeadTailProperties DEF PoolAssumption
  <2>3. Running' = Running \cup {Head(queue)}
    <3>1. Running' \subseteq Running \cup {Head(queue)}
      BY <2>1 DEF Running
    <3>2. Head(queue) \in Running'
      BY <2>1, <2>2 DEF Running
    <3>3. ASSUME NEW u \in Threads, job[u] # NoJob PROVE job[u] \in Running'
      BY <2>1, <3>3 DEF Running
    <3>. QED  BY <3>1, <3>2, <3>3 DEF Running
  <2>. QED  BY <2>1, <2>3 DEF Pool!Start, Running
<1>5. ASSUME NEW t \in Threads, JobEnds(t) PROVE \E j \in Jobs : Pool!Finish(j)
  <2>1. /\ job \in [Threads -> Jobs \cup {NoJob}] /\ job[t] # NoJob
        /\ job' = [job EXCEPT ![t] = NoJob] /\ done' = done \cup {job[t]}
        /\ UNCHANGED <<queue, life, op>> /\ life # "freed"
    BY <1>0, <1>5 DEF JobEnds, Runs, Shape, JobsHeld, Lives
  <2>2. job[t] \in Jobs /\ job[t] \in Running
    BY <2>1 DEF Running
  <2>3. \A u \in Threads : job[u] = job[t] => u = t
    BY <2>1 DEF OnePlace
  <2>4. Running' \subseteq Running \ {job[t]}
    BY <2>1, <2>3 DEF Running
  <2>5. ASSUME NEW u \in Threads, job[u] # NoJob, job[u] # job[t] PROVE job[u] \in Running'
    BY <2>1, <2>5 DEF Running
  <2>6. Running \ {job[t]} \subseteq Running'
    BY <2>5 DEF Running
  <2>7. Running' = Running \ {job[t]}
    BY <2>4, <2>6
  <2>. QED  BY <2>1, <2>2, <2>7 DEF Pool!Finish, Running
<1>6. ASSUME NEW j \in Jobs, NEW who, jobqueue_push(who, j),
             UNCHANGED <<job, done, life, Waiting>>, life # "freed"
      PROVE  Pool!Add(j)
  <2>1. j \notin added /\ queue' = Append(queue, j)
    BY <1>6 DEF jobqueue_push
  <2>2. j \notin InQueue /\ j \notin Running /\ j \notin done
    BY <1>0, <1>6, <2>1 DEF Accounted
  <2>. QED  BY <1>6, <2>1, <2>2 DEF Pool!Add, Pool!Queued, InQueue, Running, Waiting
<1>7. ASSUME NEW t \in Threads, NEW j \in Jobs, JobAdds(t, j) PROVE Pool!Add(j)
  <2>1. life # "freed"
    BY <1>0, <1>7 DEF JobAdds, Runs, Lives
  <2>. QED  BY <1>7, <2>1, <1>6 DEF JobAdds, Waiting
<1>8. ASSUME NEW c \in Callers, NEW j \in Jobs, AddPush(c, j) PROVE Pool!Add(j)
  <2>1. life # "freed"
    BY <1>0, <1>8 DEF AddPush, Lives
  <2>2. Waiting' = Waiting
    BY <1>0, <1>8 DEF AddPush, Shape, Waiting
  <2>. QED  BY <1>8, <2>1, <2>2, <1>6 DEF AddPush
<1>9. ASSUME NEW c \in Callers,
             \/ AddPost(c) \/ AddGivenUp(c) \/ AddCall(c) \/ WaitSleep(c) \/ SpuriousCaller(c)
             \/ DestroyPost(c) \/ DestroyCall(c) \/ thpool_pause(c) \/ thpool_resume(c)
      PROVE  UNCHANGED Pool!poolVars
  <2>1. Waiting' = Waiting
    BY <1>0, <1>9 DEF Shape, Waiting, AddPost, AddGivenUp, AddCall, WaitSleep, SpuriousCaller,
                      DestroyPost, DestroyCall, thpool_pause, thpool_resume
  <2>2. UNCHANGED <<queue, job, done>> /\ Over' = Over
    BY <1>9 DEF Over, AddPost, PostJob, AddGivenUp, AddCall, WaitSleep, SpuriousCaller,
                DestroyPost, DestroyCall, thpool_pause, thpool_resume
  <2>. QED  BY <2>1, <2>2, StateKept DEF Running
<1>10. ASSUME NEW c \in Callers, WaitCall(c) PROVE Pool!Wait(c)
  <2>1. c \notin Waiting /\ Waiting' = Waiting \cup {c}
    BY <1>0, <1>10 DEF WaitCall, Shape, Waiting
  <2>. QED  BY <1>10, <2>1 DEF WaitCall, Pool!Wait, Waiting
<1>11. ASSUME NEW c \in Callers, WaitReturn(c) PROVE Pool!Return(c)
  <2>1. c \in Waiting /\ Waiting' = Waiting \ {c}
    BY <1>0, <1>11 DEF WaitReturn, Shape, Waiting
  <2>2. queue = << >> /\ num_threads_working = 0
    BY <1>11 DEF WaitReturn, JobsLeft
  <2>3. Running = {}
    BY <1>0, <2>2, CountsTell DEF PoolInv, JobsHeld, Working, Running
  <2>. QED  BY <1>11, <2>1, <2>2, <2>3 DEF WaitReturn, Pool!Return, Waiting, Running
<1>12. ASSUME NEW c \in Callers, DestroyFree(c) PROVE Pool!Destroy
  <2>1. Waiting = {} /\ Waiting' = {}
    BY <1>0, <1>12 DEF DestroyFree, Shape, Lives, Waiting
  <2>2. Running = {}
    BY <1>0, <1>12, CountsTell DEF PoolInv, DestroyFree, JobsHeld, Alive, Working, Running
  <2>. QED  BY <1>12, <2>1, <2>2 DEF DestroyFree, Pool!Destroy, Waiting, Running
<1>13. ASSUME UNCHANGED vars \/ InitReturn \/ OtherDestroy \/ OtherInit
       PROVE  UNCHANGED Pool!poolVars
  <2>1. UNCHANGED <<queue, job, done, op>> /\ Over' = Over
    BY <1>13 DEF vars, InitReturn, OtherDestroy, OtherInit, Over
  <2>. QED  BY <2>1, StateKept DEF Running, Waiting
<1>. QED  BY <1>2, <1>3, <1>4, <1>5, <1>7, <1>8, <1>9, <1>10, <1>11, <1>12, <1>13, Actions
          DEF Pool!PoolNext

(* The pool keeps the promise of thpool.h, for any number of threads,        *)
(* callers and jobs: jobs are started in order, each once, a waiting caller  *)
(* gets on only when none is queued or running, and a pool is destroyed      *)
(* between jobs.                                                             *)
THEOREM KeepsThePromise == Spec => ImplementsJobPool
<1>1. Init => OnePlace /\ Pool!PoolInit
  <2>1. ASSUME Init PROVE OnePlace
    BY <2>1, LenProperties, EmptySeq DEF Init, OnePlace
  <2>2. ASSUME Init PROVE Pool!PoolInit
    BY <2>2 DEF Init, Pool!PoolInit
  <2>. QED  BY <2>1, <2>2
<1>2. PoolInv /\ OnePlace /\ [Next]_vars => OnePlace'
  BY OnePlaceStep, PoolAssumption
<1>3. PoolInv /\ OnePlace /\ [Next]_vars => [Pool!PoolNext]_(Pool!poolVars)
  BY PoolStep, PoolAssumption
<1>. QED  BY <1>1, <1>2, <1>3, PoolInvariant, PTL DEF Spec, ImplementsJobPool, Pool!PoolSpec
=============================================================================
