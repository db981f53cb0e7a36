--------------------------- MODULE ConnectionPool ---------------------------
(***************************************************************************)
(* The pool of database connections and the requests that nest their use   *)
(* of it.  A service opens a transaction and, inside its callback, calls   *)
(* others that are not given its manager: they take connections of their   *)
(* own while the outer one is held.  The pool (pg-pool, max 10 by default, *)
(* no timeout) queues those who ask and serves them in order.              *)
(***************************************************************************)
EXTENDS Requests, Sequences

CONSTANT PoolSize

ASSUME PoolAssumption == PoolSize \in Nat

VARIABLES
  held,      \* how many connections each request holds
  at,        \* how far it has come in its course
  course,    \* what it is doing, or Null
  queue      \* those the pool keeps waiting

poolVars == <<held, at, course, queue>>

-----------------------------------------------------------------------------
(* The operations, as the number of connections each holds from query to   *)
(* query; a request waits wherever the number rises.                       *)
ExchangeCourse == <<1, 2, 1, 2, 3, 2, 1, 2, 1, 0>>
RefreshCourse  == <<1, 2, 1, 0, 1, 0>>
WrappedCourse  == <<1, 2, 1, 0, 1, 0, 1, 2, 1, 0, 1, 0>>
RevokeCourse   == <<1, 2, 1, 0>>

Course ==
  [exchange |-> ExchangeCourse, refresh |-> RefreshCourse,
   wrapped |-> WrappedCourse, revoke |-> RevokeCourse, query |-> <<1, 0>>]

(* The most connections an operation holds at a time.                      *)
Depth == 3

(* The connections in use, each named by its holder and its place there.   *)
InUse == {h \in Request \X (1 .. Depth) : h[2] <= held[h[1]]}

Free == Cardinality(InUse) < PoolSize

Waiting == {queue[i] : i \in 1 .. Len(queue)}
Target(p) == Course[course[p]][at[p] + 1]

PoolTypeOK ==
  /\ held \in [Request -> 0 .. Depth]
  /\ at \in [Request -> 0 .. 12]
  /\ course \in [Request -> DOMAIN Course \cup {Null}]
  /\ queue \in Seq(Request)

PoolInit ==
  /\ held = [p \in Request |-> 0]
  /\ at = [p \in Request |-> 0]
  /\ course = [p \in Request |-> Null]
  /\ queue = <<>>

-----------------------------------------------------------------------------
BeginCourse(p) ==
  /\ course[p] = Null
  /\ \E c \in DOMAIN Course : course' = [course EXCEPT ![p] = c]
  /\ UNCHANGED <<held, at, queue>>

Ready(p) == course[p] # Null /\ p \notin Waiting

(* Hold n connections, which completes one more step of the course.        *)
Hold(p, n) ==
  /\ held' = [held EXCEPT ![p] = n]
  /\ at' = [at EXCEPT ![p] = @ + 1]

(* One more connection: at once if there is one and nobody waits for it.   *)
Acquire(p) ==
  /\ Ready(p) /\ Target(p) > held[p]
  /\ IF Free /\ queue = <<>>
     THEN Hold(p, Target(p)) /\ UNCHANGED queue
     ELSE queue' = Append(queue, p) /\ UNCHANGED <<held, at>>
  /\ UNCHANGED course

(* The pool hands a free connection to the first in the queue.             *)
Serve ==
  /\ Free /\ queue # <<>>
  /\ Hold(Head(queue), Target(Head(queue)))
  /\ queue' = Tail(queue)
  /\ UNCHANGED course

EndCourse(p) ==
  /\ course' = [course EXCEPT ![p] = Null]
  /\ at' = [at EXCEPT ![p] = 0]

(* Mutant: the connection of an inner transaction is not returned.         *)
LeakInner(p) ==
  /\ Ready(p) /\ Target(p) < held[p]
  /\ held' = [held EXCEPT ![p] = IF Target(p) = 0 THEN 0 ELSE @]
  /\ IF at[p] + 1 = Len(Course[course[p]])
     THEN EndCourse(p)
     ELSE at' = [at EXCEPT ![p] = @ + 1] /\ UNCHANGED course
  /\ UNCHANGED queue

(* The innermost connection goes back; with the last one the work is done. *)
Release(p) ==
  /\ Ready(p) /\ Target(p) < held[p]
  /\ held' = [held EXCEPT ![p] = @ - 1]
  /\ IF at[p] + 1 = Len(Course[course[p]])
     THEN EndCourse(p)
     ELSE at' = [at EXCEPT ![p] = @ + 1] /\ UNCHANGED course
  /\ UNCHANGED queue

(* An error at any depth rolls everything back and returns the connections.*)
FailCourse(p) ==
  /\ Ready(p)
  /\ held' = [held EXCEPT ![p] = 0]
  /\ EndCourse(p)
  /\ UNCHANGED queue

PoolNext ==
  \/ \E p \in Request :
       BeginCourse(p) \/ Acquire(p) \/ Release(p) \/ FailCourse(p)
  \/ Serve

PoolSpec == PoolInit /\ [][PoolNext]_poolVars

(* A request goes on as long as it need not wait, and a free connection is *)
(* handed over: both are the event loop's doing.                           *)
PoolFairness ==
  /\ \A p \in Request : WF_poolVars(Acquire(p)) /\ WF_poolVars(Release(p))
  /\ WF_poolVars(Serve)

PoolFairSpec == PoolSpec /\ PoolFairness

-----------------------------------------------------------------------------
Holders == {p \in Request : held[p] > 0}

(* All connections are taken, somebody waits, and each request that holds  *)
(* any needs one more before it returns one.                               *)
Starved ==
  /\ queue # <<>> /\ ~ Free
  /\ \A p \in Holders : Target(p) > held[p]

(* Every request ends, though it may have to wait at each depth, unless the*)
(* pool comes to starve: the nesting can use it up, and has no timeout.    *)
CoursesEnd ==
  \A p \in Request : course[p] # Null ~> (course[p] = Null \/ Starved)
=============================================================================
