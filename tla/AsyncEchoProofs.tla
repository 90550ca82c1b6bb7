-------------------------- MODULE AsyncEchoProofs --------------------------
(***************************************************************************)
(* Theorems about AsyncEcho, for any number of requests: every one is      *)
(* answered once, and with callbacks main aborts for one reason only.      *)
(***************************************************************************)
EXTENDS AsyncEcho, SequenceTheorems, TLAPS

CallbackSteps == {"idle", "on_response", "sent", "on_sent"}
PollSteps == {"idle", "poll", "remote", "wake", "pending"}
Posts == [step : {"on_response", "on_sent", "poll"}, request : Requests \cup {None}]
Runs == [step : CallbackSteps \cup PollSteps, request : Requests \cup {None}]

(* The steps of a task on which the answer to its request depends. *)
OwnerSteps == {"on_response", "poll", "remote", "wake"}

Types ==
  /\ program \in {"callback", "poll"}
  /\ queue \in Seq(Posts)
  /\ running \in [Threads -> Runs]
  /\ result \in [Requests -> Requests \cup {None, Empty}]
  /\ mainPc \in {"post", "run", "exit", "abort"}

(* Each program runs its own tasks, and on_sent alone is for no request.    *)
StepsInv ==
  /\ \A i \in 1..Len(queue) :
       /\ queue[i].request = None <=> queue[i].step = "on_sent"
       /\ queue[i].step = "poll" <=> program = "poll"
  /\ \A t \in Threads :
       /\ running[t].request = None <=> running[t].step \in {"idle", "on_sent"}
       /\ running[t].step \in IF program = "callback" THEN CallbackSteps ELSE PollSteps

(* The futures: one that has been polled waits for the remote one. *)
FuturesInv ==
  /\ waiting \subseteq Requests
  /\ DOMAIN first = Requests
  /\ \A r \in Requests : r \in waiting \/ first[r]
  /\ \A t \in Threads : running[t].step = "remote" => running[t].request \in waiting

Queued(r) == \E i \in 1..Len(queue) : queue[i].request = r
Active(r) == \E t \in Threads : running[t].step \in OwnerSteps /\ running[t].request = r
Owned(r) == result[r] # None \/ Queued(r) \/ Active(r)

(* A request has one owner at most: a task in the queue, a task being run,  *)
(* or its answer.                                                           *)
QueuedOnce ==
  \A i, j \in 1..Len(queue) :
    queue[i].request # None /\ queue[i].request = queue[j].request => i = j
ActiveNotQueued ==
  \A t \in Threads : running[t].step \in OwnerSteps => ~Queued(running[t].request)
ActiveOnce ==
  \A t, u \in Threads :
    /\ running[t].step \in OwnerSteps /\ running[u].step \in OwnerSteps
    /\ running[t].request = running[u].request
    => t = u
AnsweredOnce == \A r \in Requests : result[r] # None => ~Queued(r) /\ ~Active(r)

OneOwner == QueuedOnce /\ ActiveNotQueued /\ ActiveOnce /\ AnsweredOnce

(* A task that still runs but has done its part leaves an owner behind.     *)
NoneLost ==
  /\ \A t \in Threads :
       running[t].step \in {"sent", "pending"} => Owned(running[t].request)
  /\ mainPc # "post" => \A r \in Requests : Owned(r)

OwnAnswer == program = "callback" => \A r \in Requests : result[r] \in {None, r}

(* The inductive invariant: EchoInv counts a task that waits for nothing    *)
(* any more as the owner of its request, which no step preserves.           *)
EchoIInv ==
  /\ Types /\ StepsInv /\ FuturesInv /\ OneOwner /\ NoneLost /\ OwnAnswer
  /\ AbortsOnlyEarly

LEMMA EchoInitInv == ASSUME Init PROVE EchoIInv
<1>1. queue \in Seq(Posts) /\ Len(queue) = 0
  BY EmptySeq DEF Init
<1>2. \A t \in Threads : running[t].step = "idle" /\ running[t].request = None
  BY DEF Init, Idle, Task
<1>3. Types
  BY <1>1 DEF Init, Types, Runs, Idle, Task, CallbackSteps, PollSteps
<1>4. StepsInv
  BY <1>1, <1>2 DEF Init, StepsInv, CallbackSteps, PollSteps
<1>5. FuturesInv
  <2>1. DOMAIN first = Requests /\ \A r \in Requests : first[r] = TRUE
    BY DEF Init
  <2> QED BY <1>2, <2>1 DEF Init, FuturesInv
<1>6. OneOwner
  BY <1>1, <1>2 DEF Init, OneOwner, QueuedOnce, ActiveNotQueued, ActiveOnce,
     AnsweredOnce, Queued, OwnerSteps
<1>7. NoneLost /\ OwnAnswer /\ AbortsOnlyEarly
  BY <1>2 DEF Init, NoneLost, OwnAnswer, AbortsOnlyEarly
<1> QED BY <1>3, <1>4, <1>5, <1>6, <1>7 DEF EchoIInv

(* A task that is posted. *)
LEMMA PostStep ==
  ASSUME queue \in Seq(Posts), NEW step, NEW r, Post(step, r),
         step \in {"on_response", "on_sent", "poll"}, r \in Requests \cup {None}
  PROVE  /\ queue' \in Seq(Posts) /\ Len(queue') = Len(queue) + 1
         /\ Len(queue) \in Nat
         /\ \A i \in 1..Len(queue) : queue'[i] = queue[i]
         /\ queue'[Len(queue) + 1].step = step
         /\ queue'[Len(queue) + 1].request = r
         /\ \A q : Queued(q)' <=> Queued(q) \/ q = r
<1> DEFINE x == Task(step, r)
<1>1. x \in Posts /\ x.step = step /\ x.request = r
  BY DEF Task, Posts
<1>2. queue' = Append(queue, x)
  BY DEF Post
<1> HIDE DEF x
<1>3. /\ queue' \in Seq(Posts) /\ Len(queue') = Len(queue) + 1
      /\ Len(queue) \in Nat
      /\ \A i \in 1..Len(queue) : queue'[i] = queue[i]
      /\ queue'[Len(queue) + 1] = x
  BY <1>1, <1>2, AppendProperties
<1>4. ASSUME NEW q PROVE Queued(q)' <=> Queued(q) \/ q = r
  BY <1>1, <1>3 DEF Queued
<1> QED BY <1>1, <1>3, <1>4

(* A thread that goes on to the next step of its task, or ends it. *)
LEMMA GoOnStep ==
  ASSUME Types, NEW t \in Threads, NEW step \in CallbackSteps \cup PollSteps,
         GoOn(t, step)
  PROVE  /\ running' \in [Threads -> Runs]
         /\ running'[t].step = step /\ running'[t].request = running[t].request
         /\ \A u \in Threads : u # t => running'[u] = running[u]
<1>1. running \in [Threads -> Runs]
  BY DEF Types
<1> QED BY <1>1 DEF GoOn, Runs

LEMMA DoneStep ==
  ASSUME Types, NEW t \in Threads, Done(t)
  PROVE  /\ running' \in [Threads -> Runs]
         /\ running'[t].step = "idle" /\ running'[t].request = None
         /\ \A u \in Threads : u # t => running'[u] = running[u]
<1>1. running \in [Threads -> Runs]
  BY DEF Types
<1>2. Idle \in Runs /\ Idle.step = "idle" /\ Idle.request = None
  BY DEF Idle, Task, Runs, CallbackSteps
<1> QED BY <1>1, <1>2 DEF Done

(* What a thread may be doing. *)
LEMMA ThreadTypes ==
  ASSUME EchoIInv, NEW t \in Threads
  PROVE  /\ running[t] \in Runs
         /\ running[t].request \in Requests \cup {None}
         /\ running[t].request = None <=> running[t].step \in {"idle", "on_sent"}
<1>1. running \in [Threads -> Runs]
  BY DEF EchoIInv, Types
<1>2. running[t].request = None <=> running[t].step \in {"idle", "on_sent"}
  BY DEF EchoIInv, StepsInv
<1> QED BY <1>1, <1>2 DEF Runs

(* main posts the call of r, of which nothing is known yet. *)
LEMMA PostedStep ==
  ASSUME EchoIInv, NEW r \in Requests,
         CallbackPostEcho(r) \/ PollPostEcho(r)
  PROVE  EchoIInv'
<1> USE RequestAssumption
<1>1. PICK step \in {"on_response", "poll"} :
        Post(step, r) /\ (step = "poll" <=> program = "poll")
  BY DEF CallbackPostEcho, PollPostEcho
<1>2. /\ UNCHANGED <<program, running, waiting, first, result, mainPc>>
      /\ mainPc = "post" /\ r \notin Posted
  BY DEF CallbackPostEcho, PollPostEcho
<1>3. queue \in Seq(Posts)
  BY DEF EchoIInv, Types
<1>4. /\ queue' \in Seq(Posts) /\ Len(queue') = Len(queue) + 1
      /\ Len(queue) \in Nat
      /\ \A i \in 1..Len(queue) : queue'[i] = queue[i]
      /\ queue'[Len(queue) + 1].step = step
      /\ queue'[Len(queue) + 1].request = r
      /\ \A q : Queued(q)' <=> Queued(q) \/ q = r
  BY <1>1, <1>3, PostStep
<1>5. /\ result[r] = None /\ ~Queued(r)
      /\ \A t \in Threads : running[t].request # r
  BY <1>2, <1>3 DEF Posted, Queued
<1>6. \A q : Active(q)' <=> Active(q)
  BY <1>2 DEF Active
<1>7. Types'
  BY <1>2, <1>4 DEF EchoIInv, Types
<1>8. StepsInv'
  <2>1. \A i \in 1..Len(queue') :
          /\ queue'[i].request = None <=> queue'[i].step = "on_sent"
          /\ queue'[i].step = "poll" <=> program = "poll"
    <3>1. \A i \in 1..Len(queue) :
            /\ queue[i].request = None <=> queue[i].step = "on_sent"
            /\ queue[i].step = "poll" <=> program = "poll"
      BY DEF EchoIInv, StepsInv
    <3> QED BY <1>1, <1>4, <3>1
  <2> QED BY <1>2, <2>1 DEF EchoIInv, StepsInv
<1>9. FuturesInv'
  BY <1>2 DEF EchoIInv, FuturesInv
<1>10. OneOwner'
  <2>1. QueuedOnce'
    <3>1. \A i \in 1..Len(queue) : queue[i].request # r
      BY <1>5 DEF Queued
    <3> QED BY <1>4, <3>1 DEF EchoIInv, OneOwner, QueuedOnce
  <2>2. ActiveNotQueued'
    BY <1>2, <1>4, <1>5 DEF EchoIInv, OneOwner, ActiveNotQueued
  <2>3. ActiveOnce'
    BY <1>2 DEF EchoIInv, OneOwner, ActiveOnce
  <2>4. AnsweredOnce'
    BY <1>2, <1>4, <1>5, <1>6 DEF EchoIInv, OneOwner, AnsweredOnce
  <2> QED BY <2>1, <2>2, <2>3, <2>4 DEF OneOwner
<1>11. NoneLost'
  BY <1>2, <1>4, <1>6 DEF EchoIInv, NoneLost, Owned
<1>12. OwnAnswer' /\ AbortsOnlyEarly'
  BY <1>2 DEF EchoIInv, OwnAnswer, AbortsOnlyEarly
<1> QED BY <1>7, <1>8, <1>9, <1>10, <1>11, <1>12 DEF EchoIInv

(* Every request that was posted has an owner. *)
LEMMA PostedOwned ==
  ASSUME EchoIInv, NEW r \in Posted
  PROVE  Owned(r)
<1>1. r \in Requests /\ r # None
  BY RequestAssumption DEF Posted
<1>2. CASE result[r] # None \/ \E i \in DOMAIN queue : queue[i].request = r
  BY <1>2 DEF Owned, Queued, EchoIInv, Types
<1>3. ASSUME NEW t \in Threads, running[t].request = r PROVE Owned(r)
  <2>1. running[t].step \in OwnerSteps \cup {"sent", "pending"}
    BY <1>1, <1>3, ThreadTypes DEF Runs, CallbackSteps, PollSteps, OwnerSteps
  <2>2. CASE running[t].step \in OwnerSteps
    BY <1>3, <2>2 DEF Owned, Active
  <2>3. CASE running[t].step \in {"sent", "pending"}
    BY <1>3, <2>3 DEF EchoIInv, NoneLost
  <2> QED BY <2>1, <2>2, <2>3
<1> QED BY <1>2, <1>3 DEF Posted

LEMMA RunUntilIdleStep ==
  ASSUME EchoIInv, RunUntilIdle
  PROVE  EchoIInv'
<1>1. UNCHANGED <<program, queue, running, waiting, first, result>> /\ mainPc' = "run"
  BY DEF RunUntilIdle
<1>2. \A r \in Requests : Owned(r)
  BY PostedOwned DEF RunUntilIdle
<1>3. \A r : Owned(r)' <=> Owned(r)
  BY <1>1 DEF Owned, Queued, Active
<1>4. Types' /\ StepsInv' /\ FuturesInv'
  BY <1>1 DEF EchoIInv, Types, StepsInv, FuturesInv
<1>5. OneOwner'
  BY <1>1 DEF EchoIInv, OneOwner, QueuedOnce, ActiveNotQueued, ActiveOnce,
     AnsweredOnce, Queued, Active
<1>6. NoneLost'
  BY <1>1, <1>2, <1>3 DEF EchoIInv, NoneLost
<1>7. OwnAnswer' /\ AbortsOnlyEarly'
  BY <1>1 DEF EchoIInv, OwnAnswer, AbortsOnlyEarly
<1> QED BY <1>4, <1>5, <1>6, <1>7 DEF EchoIInv

(* main's assertion. *)
LEMMA AssertStep ==
  ASSUME EchoIInv, Assert
  PROVE  EchoIInv'
<1> USE RequestAssumption
<1>1. /\ UNCHANGED <<program, queue, running, waiting, first, result>>
      /\ mainPc = "run" /\ running["main"] = Idle /\ queue = <<>>
      /\ mainPc' \in {"exit", "abort"}
      /\ mainPc' = "abort" => \E r \in Requests : result[r] # r
  BY DEF Assert
<1>2. Types' /\ StepsInv' /\ FuturesInv'
  BY <1>1 DEF EchoIInv, Types, StepsInv, FuturesInv
<1>3. OneOwner'
  BY <1>1 DEF EchoIInv, OneOwner, QueuedOnce, ActiveNotQueued, ActiveOnce,
     AnsweredOnce, Queued, Active
<1>4. NoneLost'
  <2>1. \A r : Owned(r)' <=> Owned(r)
    BY <1>1 DEF Owned, Queued, Active
  <2> QED BY <1>1, <2>1 DEF EchoIInv, NoneLost
<1>5. OwnAnswer'
  BY <1>1 DEF EchoIInv, OwnAnswer
<1>6. AbortsOnlyEarly'
  <2> SUFFICES ASSUME mainPc' = "abort", program = "callback"
               PROVE  \E r \in Requests :
                        result[r] = None /\ running["work"] = Task("on_response", r)
    BY <1>1 DEF AbortsOnlyEarly
  <2>1. PICK r \in Requests : result[r] # r
    BY <1>1
  <2>2. result[r] = None
    BY <2>1 DEF EchoIInv, OwnAnswer
  <2>3. Owned(r) /\ ~Queued(r)
    BY <1>1 DEF EchoIInv, NoneLost, Queued
  <2>4. PICK t \in Threads : running[t].step \in OwnerSteps /\ running[t].request = r
    BY <2>2, <2>3 DEF Owned, Active
  <2>5. running[t].step = "on_response"
    BY <2>4 DEF EchoIInv, StepsInv, CallbackSteps, OwnerSteps
  <2>6. t = "work"
    BY <1>1, <2>5 DEF Idle, Task, Threads
  <2>7. running[t] = Task("on_response", r)
    BY <2>4, <2>5, ThreadTypes DEF Runs, Task
  <2> QED BY <2>2, <2>6, <2>7
<1> QED BY <1>2, <1>3, <1>4, <1>5, <1>6 DEF EchoIInv

(* A thread takes the first task: its request goes on to have one owner.    *)
LEMMA TakeStep ==
  ASSUME EchoIInv, NEW t \in Threads, Take(t)
  PROVE  EchoIInv'
<1> USE RequestAssumption
<1>0. PICK x : x = queue[1]
  OBVIOUS
<1>1. /\ UNCHANGED <<program, waiting, first, result, mainPc>>
      /\ mainPc # "abort" /\ running[t] = Idle /\ queue # <<>>
      /\ running' = [running EXCEPT ![t] = Head(queue)]
      /\ queue' = Tail(queue)
  BY DEF Take, Alive
<1>2. queue \in Seq(Posts)
  BY DEF EchoIInv, Types
<1>3. /\ queue' \in Seq(Posts) /\ Len(queue') = Len(queue) - 1
      /\ \A i \in 1..Len(queue') : queue'[i] = queue[i + 1]
      /\ Head(queue) = x
  BY <1>0, <1>1, <1>2, HeadTailProperties
<1>4. Len(queue) \in Nat /\ Len(queue) > 0 /\ x \in Posts
  BY <1>0, <1>1, <1>2
<1>5. /\ running' \in [Threads -> Runs] /\ running'[t] = x
      /\ \A u \in Threads : u # t => running'[u] = running[u]
  <2>1. x \in Runs
    BY <1>4 DEF Posts, Runs, CallbackSteps, PollSteps
  <2>2. running \in [Threads -> Runs]
    BY DEF EchoIInv, Types
  <2> QED BY <1>1, <1>3, <2>1, <2>2
<1>6. running[t].step = "idle" /\ running[t].request = None
  BY <1>1 DEF Idle, Task
<1>7. /\ x.request = None <=> x.step = "on_sent"
      /\ x.step = "poll" <=> program = "poll"
      /\ x.step \in {"on_response", "on_sent", "poll"}
      /\ x.request \in Requests \cup {None}
  <2>1. 1 \in 1..Len(queue)
    BY <1>4
  <2> QED BY <1>0, <1>4, <2>1 DEF EchoIInv, StepsInv, Posts
<1>8. /\ \A q : Queued(q) <=> Queued(q)' \/ q = x.request
      /\ x.request # None => ~Queued(x.request)'
  <2>1. ASSUME NEW q, Queued(q) PROVE Queued(q)' \/ q = x.request
    <3>1. PICK i \in 1..Len(queue) : queue[i].request = q
      BY <2>1 DEF Queued
    <3>2. i = 1 \/ (i - 1 \in 1..Len(queue') /\ queue'[i - 1] = queue[i])
      BY <1>3, <1>4
    <3> QED BY <1>0, <3>1, <3>2 DEF Queued
  <2>2. ASSUME NEW q, Queued(q)' PROVE Queued(q)
    <3>1. PICK i \in 1..Len(queue') : queue'[i].request = q
      BY <2>2 DEF Queued
    <3>2. i + 1 \in 1..Len(queue) /\ queue'[i] = queue[i + 1]
      BY <1>3, <1>4
    <3> QED BY <3>1, <3>2 DEF Queued
  <2>3. Queued(x.request)
    BY <1>0, <1>4 DEF Queued
  <2>4. ASSUME x.request # None, Queued(x.request)' PROVE FALSE
    <3>1. PICK i \in 1..Len(queue') : queue'[i].request = x.request
      BY <2>4 DEF Queued
    <3>2. i + 1 \in 1..Len(queue) /\ 1 \in 1..Len(queue) /\ i + 1 # 1
      BY <1>3, <1>4
    <3>3. queue[i + 1].request = x.request /\ queue[1].request = x.request
      BY <1>0, <1>3, <3>1
    <3> QED BY <2>4, <3>2, <3>3 DEF EchoIInv, OneOwner, QueuedOnce
  <2> QED BY <2>1, <2>2, <2>3, <2>4
<1>9. \A q : Active(q)' <=> Active(q) \/ (q = x.request /\ x.request # None)
  BY <1>5, <1>6, <1>7 DEF Active, OwnerSteps
<1>10. Types'
  BY <1>1, <1>3, <1>5 DEF EchoIInv, Types
<1>11. StepsInv'
  <2>1. \A i \in 1..Len(queue') :
          /\ queue'[i].request = None <=> queue'[i].step = "on_sent"
          /\ queue'[i].step = "poll" <=> program = "poll"
    <3>1. \A i \in 1..Len(queue') : i + 1 \in 1..Len(queue)
      BY <1>3, <1>4
    <3> QED BY <1>3, <3>1 DEF EchoIInv, StepsInv
  <2>2. \A u \in Threads :
          /\ running'[u].request = None <=> running'[u].step \in {"idle", "on_sent"}
          /\ running'[u].step \in IF program = "callback" THEN CallbackSteps ELSE PollSteps
    <3>1. x.step \in IF program = "callback" THEN CallbackSteps ELSE PollSteps
      BY <1>7 DEF EchoIInv, Types, CallbackSteps, PollSteps
    <3>2. CASE x.step = "on_sent"
      BY <1>5, <1>7, <3>1, <3>2 DEF EchoIInv, StepsInv
    <3>3. CASE x.step # "on_sent"
      BY <1>5, <1>7, <3>1, <3>3 DEF EchoIInv, StepsInv
    <3> QED BY <3>2, <3>3
  <2> QED BY <1>1, <2>1, <2>2 DEF StepsInv
<1>12. FuturesInv'
  BY <1>1, <1>5, <1>7 DEF EchoIInv, FuturesInv
<1>13. OneOwner'
  <2>1. QueuedOnce'
    <3>1. \A i \in 1..Len(queue') : i + 1 \in 1..Len(queue) /\ i \in Int
      BY <1>3, <1>4
    <3>2. \A i, j \in 1..Len(queue') : i + 1 = j + 1 => i = j
      BY <3>1
    <3> QED BY <1>3, <3>1, <3>2 DEF EchoIInv, OneOwner, QueuedOnce
  <2>2. ActiveNotQueued'
    BY <1>5, <1>7, <1>8 DEF EchoIInv, OneOwner, ActiveNotQueued, OwnerSteps
  <2>3. ActiveOnce'
    <3>1. \A u \in Threads :
            u # t /\ running[u].step \in OwnerSteps => running[u].request # x.request
      BY <1>8 DEF EchoIInv, OneOwner, ActiveNotQueued
    <3> QED BY <1>5, <3>1 DEF EchoIInv, OneOwner, ActiveOnce
  <2>4. AnsweredOnce'
    BY <1>1, <1>8, <1>9 DEF EchoIInv, OneOwner, AnsweredOnce
  <2> QED BY <2>1, <2>2, <2>3, <2>4 DEF OneOwner
<1>14. NoneLost'
  <2>1. \A q : Owned(q) /\ q # None => Owned(q)'
    BY <1>1, <1>8, <1>9 DEF Owned
  <2>2. \A u \in Threads : running'[u].step \in {"sent", "pending"} =>
          /\ running[u].step \in {"sent", "pending"}
          /\ running'[u] = running[u] /\ running[u].request # None
    <3>1. \A u \in Threads :
            running[u].step \in {"sent", "pending"} => running[u].request # None
      BY ThreadTypes
    <3> QED BY <1>5, <1>7, <3>1
  <2> QED BY <1>1, <2>1, <2>2 DEF EchoIInv, NoneLost
<1>15. OwnAnswer' /\ AbortsOnlyEarly'
  BY <1>1 DEF EchoIInv, OwnAnswer, AbortsOnlyEarly
<1> QED BY <1>10, <1>11, <1>12, <1>13, <1>14, <1>15 DEF EchoIInv

(* A step of a task that leaves the queue alone, the answer of its request  *)
(* too, and its owner in place.                                             *)
LEMMA OwnerKept ==
  ASSUME EchoIInv, NEW t \in Threads, mainPc # "abort",
         NEW step \in CallbackSteps \cup PollSteps, GoOn(t, step),
         running[t].step \in OwnerSteps, step \in OwnerSteps,
         UNCHANGED <<program, queue, result, mainPc>>,
         FuturesInv',
         step \in IF program = "callback" THEN CallbackSteps ELSE PollSteps
  PROVE  EchoIInv'
<1>1. /\ running' \in [Threads -> Runs]
      /\ running'[t].step = step /\ running'[t].request = running[t].request
      /\ \A u \in Threads : u # t => running'[u] = running[u]
  BY GoOnStep DEF EchoIInv
<1>2. \A q : (Queued(q)' <=> Queued(q)) /\ (Active(q)' <=> Active(q))
  BY <1>1 DEF Queued, Active
<1>3. Types'
  BY <1>1 DEF EchoIInv, Types
<1>4. StepsInv'
  <2>1. running[t].request # None
    BY ThreadTypes DEF OwnerSteps
  <2>2. step \notin {"idle", "on_sent"}
    BY DEF OwnerSteps
  <2>3. \A u \in Threads :
          /\ running'[u].request = None <=> running'[u].step \in {"idle", "on_sent"}
          /\ running'[u].step \in IF program = "callback" THEN CallbackSteps ELSE PollSteps
    BY <1>1, <2>1, <2>2 DEF EchoIInv, StepsInv
  <2> QED BY <2>3 DEF EchoIInv, StepsInv
<1>5. OneOwner'
  <2>1. QueuedOnce'
    BY DEF EchoIInv, OneOwner, QueuedOnce
  <2>2. ActiveNotQueued'
    BY <1>1, <1>2 DEF EchoIInv, OneOwner, ActiveNotQueued
  <2>3. ActiveOnce'
    BY <1>1 DEF EchoIInv, OneOwner, ActiveOnce
  <2>4. AnsweredOnce'
    BY <1>2 DEF EchoIInv, OneOwner, AnsweredOnce
  <2> QED BY <2>1, <2>2, <2>3, <2>4 DEF OneOwner
<1>6. NoneLost'
  <2>1. \A q : Owned(q)' <=> Owned(q)
    BY <1>2 DEF Owned
  <2>2. step \notin {"sent", "pending"}
    BY DEF OwnerSteps
  <2> QED BY <1>1, <2>1, <2>2 DEF EchoIInv, NoneLost
<1>7. OwnAnswer' /\ AbortsOnlyEarly'
  BY DEF EchoIInv, OwnAnswer, AbortsOnlyEarly
<1> QED BY <1>3, <1>4, <1>5, <1>6, <1>7 DEF EchoIInv

LEMMA ProxyPollStep ==
  ASSUME EchoIInv, NEW t \in Threads, ProxyPoll(t)
  PROVE  EchoIInv'
<1>1. /\ running[t].step = "poll" /\ mainPc # "abort" /\ GoOn(t, "remote")
      /\ waiting' = waiting \cup {running[t].request}
      /\ UNCHANGED <<program, queue, first, result, mainPc>>
  BY DEF ProxyPoll, At, Alive
<1>2. running'[t].request = running[t].request
      /\ \A u \in Threads : u # t => running'[u] = running[u]
  BY <1>1, GoOnStep DEF EchoIInv, PollSteps
<1>3. running[t].request \in Requests
  BY <1>1, ThreadTypes
<1>4. FuturesInv'
  BY <1>1, <1>2, <1>3 DEF EchoIInv, FuturesInv
<1>5. program = "poll"
  BY <1>1 DEF EchoIInv, Types, StepsInv, CallbackSteps
<1> QED BY <1>1, <1>4, <1>5, OwnerKept DEF OwnerSteps, PollSteps

(* A step that ends a task that owns nothing. *)
LEMMA TaskEnds ==
  ASSUME EchoIInv, NEW t \in Threads, mainPc # "abort", Done(t),
         running[t].step \notin OwnerSteps,
         UNCHANGED <<program, queue, waiting, first, result, mainPc>>
  PROVE  EchoIInv'
<1>1. /\ running' \in [Threads -> Runs]
      /\ running'[t].step = "idle" /\ running'[t].request = None
      /\ \A u \in Threads : u # t => running'[u] = running[u]
  BY DoneStep DEF EchoIInv
<1>2. \A q : (Queued(q)' <=> Queued(q)) /\ (Active(q)' <=> Active(q))
  BY <1>1 DEF Queued, Active, OwnerSteps
<1>3. Types'
  BY <1>1 DEF EchoIInv, Types
<1>4. StepsInv'
  <2>1. \A u \in Threads :
          /\ running'[u].request = None <=> running'[u].step \in {"idle", "on_sent"}
          /\ running'[u].step \in IF program = "callback" THEN CallbackSteps ELSE PollSteps
    BY <1>1 DEF EchoIInv, StepsInv, CallbackSteps, PollSteps
  <2> QED BY <2>1 DEF EchoIInv, StepsInv
<1>5. FuturesInv'
  BY <1>1 DEF EchoIInv, FuturesInv
<1>6. OneOwner'
  <2>1. QueuedOnce'
    BY DEF EchoIInv, OneOwner, QueuedOnce
  <2>2. ActiveNotQueued'
    BY <1>1, <1>2 DEF EchoIInv, OneOwner, ActiveNotQueued, OwnerSteps
  <2>3. ActiveOnce'
    BY <1>1 DEF EchoIInv, OneOwner, ActiveOnce, OwnerSteps
  <2>4. AnsweredOnce'
    BY <1>2 DEF EchoIInv, OneOwner, AnsweredOnce
  <2> QED BY <2>1, <2>2, <2>3, <2>4 DEF OneOwner
<1>7. NoneLost'
  <2>1. \A q : Owned(q)' <=> Owned(q)
    BY <1>2 DEF Owned
  <2> QED BY <1>1, <2>1 DEF EchoIInv, NoneLost
<1>8. OwnAnswer' /\ AbortsOnlyEarly'
  BY DEF EchoIInv, OwnAnswer, AbortsOnlyEarly
<1> QED BY <1>3, <1>4, <1>5, <1>6, <1>7, <1>8 DEF EchoIInv

LEMMA OnSentStep ==
  ASSUME EchoIInv, NEW t \in Threads, OnSent(t) \/ Pending(t)
  PROVE  EchoIInv'
BY TaskEnds DEF OnSent, Pending, At, Alive, OwnerSteps

(* A step that answers the request of its task: the answer is the owner now.*)
LEMMA AnswerStep ==
  ASSUME EchoIInv, NEW t \in Threads, mainPc # "abort",
         running[t].step \in OwnerSteps,
         NEW r, r = running[t].request, NEW a \in {r, Empty},
         program = "callback" => a = r,
         result' = [result EXCEPT ![r] = a],
         UNCHANGED <<program, queue, waiting, first, mainPc>>,
         running' \in [Threads -> Runs],
         \A u \in Threads : u # t => running'[u] = running[u],
         \/ running'[t].step = "idle" /\ running'[t].request = None
         \/ running'[t].step = "sent" /\ running'[t].request = r /\ program = "callback"
  PROVE  EchoIInv'
<1> USE RequestAssumption
<1>1. r \in Requests /\ r # None /\ a # None
  BY ThreadTypes DEF OwnerSteps
<1>2. result \in [Requests -> Requests \cup {None, Empty}]
  BY DEF EchoIInv, Types
<1>3. result'[r] = a /\ \A q \in Requests : q # r => result'[q] = result[q]
  BY <1>1, <1>2
<1>4. running'[t].step \notin OwnerSteps /\ running'[t].step # "remote"
  BY DEF OwnerSteps
<1>5. /\ \A q : Queued(q)' <=> Queued(q)
      /\ \A q : q # r => (Active(q)' <=> Active(q))
      /\ ~Queued(r)
  BY <1>4 DEF Queued, Active, EchoIInv, OneOwner, ActiveNotQueued
<1>6. ~Active(r)'
  BY <1>4 DEF Active, EchoIInv, OneOwner, ActiveOnce
<1>7. Types'
  BY <1>1, <1>2 DEF EchoIInv, Types
<1>8. StepsInv'
  <2>1. \A u \in Threads :
          /\ running'[u].request = None <=> running'[u].step \in {"idle", "on_sent"}
          /\ running'[u].step \in IF program = "callback" THEN CallbackSteps ELSE PollSteps
    BY <1>1 DEF EchoIInv, StepsInv, CallbackSteps, PollSteps
  <2> QED BY <2>1 DEF EchoIInv, StepsInv
<1>9. FuturesInv'
  BY <1>4 DEF EchoIInv, FuturesInv
<1>10. OneOwner'
  <2>1. QueuedOnce'
    BY DEF EchoIInv, OneOwner, QueuedOnce
  <2>2. ActiveNotQueued'
    BY <1>4, <1>5 DEF EchoIInv, OneOwner, ActiveNotQueued
  <2>3. ActiveOnce'
    BY <1>4 DEF EchoIInv, OneOwner, ActiveOnce
  <2>4. AnsweredOnce'
    BY <1>3, <1>5, <1>6 DEF EchoIInv, OneOwner, AnsweredOnce
  <2> QED BY <2>1, <2>2, <2>3, <2>4 DEF OneOwner
<1>11. NoneLost'
  <2>1. \A q \in Requests : Owned(q) => Owned(q)'
    BY <1>1, <1>3, <1>5 DEF Owned
  <2>2. Owned(r)'
    BY <1>1, <1>3 DEF Owned
  <2>3. \A u \in Threads : running[u].step \in {"sent", "pending"} =>
          running[u].request \in Requests
    BY ThreadTypes
  <2> QED BY <2>1, <2>2, <2>3 DEF EchoIInv, NoneLost
<1>12. OwnAnswer'
  BY <1>3 DEF EchoIInv, OwnAnswer
<1>13. AbortsOnlyEarly'
  BY DEF AbortsOnlyEarly
<1> QED BY <1>7, <1>8, <1>9, <1>10, <1>11, <1>12, <1>13 DEF EchoIInv

LEMMA OnResponseStep ==
  ASSUME EchoIInv, NEW t \in Threads, OnResponse(t)
  PROVE  EchoIInv'
<1>0. PICK r : r = running[t].request
  OBVIOUS
<1>1. /\ running[t].step = "on_response" /\ mainPc # "abort" /\ GoOn(t, "sent")
      /\ result' = [result EXCEPT ![r] = r]
      /\ UNCHANGED <<program, queue, waiting, first, mainPc>>
  BY <1>0 DEF OnResponse, At, Alive
<1>2. /\ running' \in [Threads -> Runs]
      /\ running'[t].step = "sent" /\ running'[t].request = r
      /\ \A u \in Threads : u # t => running'[u] = running[u]
  BY <1>0, <1>1, GoOnStep DEF EchoIInv, CallbackSteps
<1>3. program = "callback"
  BY <1>1 DEF EchoIInv, Types, StepsInv, PollSteps
<1>4. running[t].step \in OwnerSteps
  BY <1>1 DEF OwnerSteps
<1> QED BY <1>0, <1>1, <1>2, <1>3, <1>4, AnswerStep

LEMMA RemotePollStep ==
  ASSUME EchoIInv, NEW t \in Threads, RemotePoll(t)
  PROVE  EchoIInv'
<1>0. PICK r : r = running[t].request
  OBVIOUS
<1>1. /\ running[t].step = "remote" /\ mainPc # "abort"
      /\ UNCHANGED <<program, queue, waiting, mainPc>>
  BY DEF RemotePoll, At, Alive
<1>2. program = "poll" /\ running[t].step \in OwnerSteps
      /\ r \in waiting /\ r \in Requests
  BY <1>0, <1>1, ThreadTypes
     DEF EchoIInv, Types, StepsInv, FuturesInv, CallbackSteps, OwnerSteps
<1>3. CASE first[r]
  <2>1. GoOn(t, "wake") /\ first' = [first EXCEPT ![r] = FALSE] /\ UNCHANGED result
    BY <1>0, <1>3 DEF RemotePoll
  <2>2. /\ running'[t].step = "wake"
        /\ \A u \in Threads : u # t => running'[u] = running[u]
    BY <2>1, GoOnStep DEF EchoIInv, PollSteps
  <2>3. FuturesInv'
    <3>1. DOMAIN first' = Requests
      BY <2>1 DEF EchoIInv, FuturesInv
    <3>2. \A q \in Requests : q # r => first'[q] = first[q]
      BY <2>1 DEF EchoIInv, FuturesInv
    <3>3. \A q \in Requests : q \in waiting' \/ first'[q]
      BY <1>1, <1>2, <3>2 DEF EchoIInv, FuturesInv
    <3> QED BY <1>1, <2>2, <3>1, <3>3 DEF EchoIInv, FuturesInv
  <2> QED BY <1>1, <1>2, <2>1, <2>3, OwnerKept DEF OwnerSteps, PollSteps
<1>4. CASE ~first[r]
  <2>1. Done(t) /\ result' = [result EXCEPT ![r] = Empty] /\ UNCHANGED first
    BY <1>0, <1>4 DEF RemotePoll
  <2>2. /\ running' \in [Threads -> Runs]
        /\ running'[t].step = "idle" /\ running'[t].request = None
        /\ \A u \in Threads : u # t => running'[u] = running[u]
    BY <2>1, DoneStep DEF EchoIInv
  <2> QED BY <1>0, <1>1, <1>2, <2>1, <2>2, AnswerStep
<1> QED BY <1>3, <1>4

(* A step that posts a task, and what becomes of the one that posts it. *)
LEMMA SendStep ==
  ASSUME EchoIInv, NEW t \in Threads, Send(t)
  PROVE  EchoIInv'
<1> USE RequestAssumption
<1>1. /\ running[t].step = "sent" /\ mainPc # "abort"
      /\ Post("on_sent", None) /\ Done(t)
      /\ UNCHANGED <<program, waiting, first, result, mainPc>>
  BY DEF Send, At, Alive
<1>2. program = "callback" /\ queue \in Seq(Posts)
  BY <1>1 DEF EchoIInv, Types, StepsInv, PollSteps
<1>3. /\ queue' \in Seq(Posts) /\ Len(queue') = Len(queue) + 1
      /\ Len(queue) \in Nat
      /\ \A i \in 1..Len(queue) : queue'[i] = queue[i]
      /\ queue'[Len(queue) + 1].step = "on_sent"
      /\ queue'[Len(queue) + 1].request = None
      /\ \A q : Queued(q)' <=> Queued(q) \/ q = None
  BY <1>1, <1>2, PostStep
<1>4. /\ running' \in [Threads -> Runs]
      /\ running'[t].step = "idle" /\ running'[t].request = None
      /\ \A u \in Threads : u # t => running'[u] = running[u]
  BY <1>1, DoneStep DEF EchoIInv
<1>5. \A q : Active(q)' <=> Active(q)
  BY <1>1, <1>4 DEF Active, OwnerSteps
<1>6. Types'
  BY <1>1, <1>3, <1>4 DEF EchoIInv, Types
<1>7. StepsInv'
  <2>1. \A i \in 1..Len(queue') :
          /\ queue'[i].request = None <=> queue'[i].step = "on_sent"
          /\ queue'[i].step = "poll" <=> program = "poll"
    <3>1. \A i \in 1..Len(queue) :
            /\ queue[i].request = None <=> queue[i].step = "on_sent"
            /\ queue[i].step = "poll" <=> program = "poll"
      BY DEF EchoIInv, StepsInv
    <3> QED BY <1>2, <1>3, <3>1
  <2>2. \A u \in Threads :
          /\ running'[u].request = None <=> running'[u].step \in {"idle", "on_sent"}
          /\ running'[u].step \in IF program = "callback" THEN CallbackSteps ELSE PollSteps
    BY <1>4 DEF EchoIInv, StepsInv, CallbackSteps, PollSteps
  <2> QED BY <1>1, <2>1, <2>2 DEF StepsInv
<1>8. FuturesInv'
  BY <1>1, <1>4 DEF EchoIInv, FuturesInv
<1>9. OneOwner'
  <2>1. QueuedOnce'
    BY <1>3 DEF EchoIInv, OneOwner, QueuedOnce
  <2>2. ActiveNotQueued'
    <3>1. \A u \in Threads : running[u].step \in OwnerSteps => running[u].request # None
      BY ThreadTypes DEF OwnerSteps
    <3> QED BY <1>3, <1>4, <3>1 DEF EchoIInv, OneOwner, ActiveNotQueued, OwnerSteps
  <2>3. ActiveOnce'
    BY <1>4 DEF EchoIInv, OneOwner, ActiveOnce, OwnerSteps
  <2>4. AnsweredOnce'
    BY <1>1, <1>3, <1>5 DEF EchoIInv, OneOwner, AnsweredOnce
  <2> QED BY <2>1, <2>2, <2>3, <2>4 DEF OneOwner
<1>10. NoneLost'
  <2>1. \A q : Owned(q) => Owned(q)'
    BY <1>1, <1>3, <1>5 DEF Owned
  <2> QED BY <1>1, <1>4, <2>1 DEF EchoIInv, NoneLost
<1>11. OwnAnswer' /\ AbortsOnlyEarly'
  BY <1>1 DEF EchoIInv, OwnAnswer, AbortsOnlyEarly
<1> QED BY <1>6, <1>7, <1>8, <1>9, <1>10, <1>11 DEF EchoIInv

LEMMA WakeStep ==
  ASSUME EchoIInv, NEW t \in Threads, Wake(t)
  PROVE  EchoIInv'
<1> USE RequestAssumption
<1>0. PICK r : r = running[t].request
  OBVIOUS
<1>1. /\ running[t].step = "wake" /\ mainPc # "abort"
      /\ Post("poll", r) /\ GoOn(t, "pending")
      /\ UNCHANGED <<program, waiting, first, result, mainPc>>
  BY <1>0 DEF Wake, At, Alive
<1>2. program = "poll" /\ queue \in Seq(Posts) /\ r \in Requests
      /\ running[t].step \in OwnerSteps
  BY <1>0, <1>1, ThreadTypes DEF EchoIInv, Types, StepsInv, CallbackSteps, OwnerSteps
<1>3. /\ queue' \in Seq(Posts) /\ Len(queue') = Len(queue) + 1
      /\ Len(queue) \in Nat
      /\ \A i \in 1..Len(queue) : queue'[i] = queue[i]
      /\ queue'[Len(queue) + 1].step = "poll"
      /\ queue'[Len(queue) + 1].request = r
      /\ \A q : Queued(q)' <=> Queued(q) \/ q = r
  BY <1>1, <1>2, PostStep
<1>4. /\ running' \in [Threads -> Runs]
      /\ running'[t].step = "pending" /\ running'[t].request = r
      /\ \A u \in Threads : u # t => running'[u] = running[u]
  BY <1>0, <1>1, GoOnStep DEF EchoIInv, PollSteps
<1>5. /\ \A q : Active(q)' => Active(q)
      /\ \A q : q # r /\ Active(q) => Active(q)'
      /\ ~Active(r)' /\ ~Queued(r) /\ result[r] = None
  <2>1. running'[t].step \notin OwnerSteps
    BY <1>4 DEF OwnerSteps
  <2>2. Active(r)
    BY <1>0, <1>2 DEF Active
  <2>3. ~Queued(r) /\ result[r] = None
    BY <1>0, <1>2, <2>2 DEF EchoIInv, OneOwner, ActiveNotQueued, AnsweredOnce
  <2>4. ~Active(r)'
    BY <1>0, <1>2, <1>4, <2>1 DEF Active, EchoIInv, OneOwner, ActiveOnce
  <2> QED BY <1>0, <1>4, <2>1, <2>3, <2>4 DEF Active
<1>6. Types'
  BY <1>1, <1>3, <1>4 DEF EchoIInv, Types
<1>7. StepsInv'
  <2>1. \A i \in 1..Len(queue') :
          /\ queue'[i].request = None <=> queue'[i].step = "on_sent"
          /\ queue'[i].step = "poll" <=> program = "poll"
    <3>1. \A i \in 1..Len(queue) :
            /\ queue[i].request = None <=> queue[i].step = "on_sent"
            /\ queue[i].step = "poll" <=> program = "poll"
      BY DEF EchoIInv, StepsInv
    <3> QED BY <1>2, <1>3, <3>1
  <2>2. \A u \in Threads :
          /\ running'[u].request = None <=> running'[u].step \in {"idle", "on_sent"}
          /\ running'[u].step \in IF program = "callback" THEN CallbackSteps ELSE PollSteps
    BY <1>2, <1>4 DEF EchoIInv, StepsInv, PollSteps
  <2> QED BY <1>1, <2>1, <2>2 DEF StepsInv
<1>8. FuturesInv'
  BY <1>1, <1>4 DEF EchoIInv, FuturesInv
<1>9. OneOwner'
  <2>1. QueuedOnce'
    <3>1. \A i \in 1..Len(queue) : queue[i].request # r
      BY <1>5 DEF Queued
    <3> QED BY <1>3, <3>1 DEF EchoIInv, OneOwner, QueuedOnce
  <2>2. ActiveNotQueued'
    <3>1. \A u \in Threads : running'[u].step \in OwnerSteps => running'[u].request # r
      BY <1>5 DEF Active
    <3> QED BY <1>3, <1>4, <3>1 DEF EchoIInv, OneOwner, ActiveNotQueued, OwnerSteps
  <2>3. ActiveOnce'
    BY <1>4 DEF EchoIInv, OneOwner, ActiveOnce, OwnerSteps
  <2>4. AnsweredOnce'
    BY <1>1, <1>3, <1>5 DEF EchoIInv, OneOwner, AnsweredOnce
  <2> QED BY <2>1, <2>2, <2>3, <2>4 DEF OneOwner
<1>10. NoneLost'
  <2>1. \A q : Owned(q) => Owned(q)'
    BY <1>1, <1>3, <1>5 DEF Owned
  <2>2. Owned(r)'
    BY <1>3 DEF Owned
  <2> QED BY <1>1, <1>4, <2>1, <2>2 DEF EchoIInv, NoneLost
<1>11. OwnAnswer' /\ AbortsOnlyEarly'
  BY <1>1 DEF EchoIInv, OwnAnswer, AbortsOnlyEarly
<1> QED BY <1>6, <1>7, <1>8, <1>9, <1>10, <1>11 DEF EchoIInv

LEMMA EchoStepInv ==
  ASSUME EchoIInv, [Next]_vars
  PROVE  EchoIInv'
<1>1. CASE Main
  BY <1>1, PostedStep, RunUntilIdleStep, AssertStep DEF Main
<1>2. ASSUME NEW t \in Threads, Thread(t) PROVE EchoIInv'
  BY <1>2, TakeStep, OnResponseStep, SendStep, OnSentStep, ProxyPollStep,
     RemotePollStep, WakeStep DEF Thread
<1>3. CASE UNCHANGED vars
  BY <1>3 DEF vars, EchoIInv, Types, StepsInv, FuturesInv, OneOwner, QueuedOnce,
     ActiveNotQueued, ActiveOnce, AnsweredOnce, NoneLost, Owned, Queued, Active,
     OwnAnswer, AbortsOnlyEarly
<1> QED BY <1>1, <1>2, <1>3 DEF Next

LEMMA EchoIInvImplies == ASSUME EchoIInv PROVE EchoInv
<1> USE RequestAssumption
<1>1. DOMAIN queue = 1..Len(queue)
  BY DEF EchoIInv, Types
<1>2. TypeOK
  <2>1. \A i \in DOMAIN queue :
          queue[i] \in [step : {"on_response", "on_sent", "poll"},
                       request : Requests \cup {None}]
    <3>1. queue \in Seq(Posts)
      BY DEF EchoIInv, Types
    <3>2. \A i \in 1..Len(queue) : queue[i] \in Posts
      BY <3>1, ElementOfSeq
    <3> QED BY <1>1, <3>2, Zenon DEF Posts
  <2>2. waiting \subseteq Requests /\ \A r \in Requests : r \in waiting \/ first[r]
    BY DEF EchoIInv, FuturesInv
  <2>3. result \in [Requests -> Requests \cup {None, Empty}]
        /\ mainPc \in {"post", "run", "exit", "abort"}
    BY DEF EchoIInv, Types
  <2> QED BY <2>1, <2>2, <2>3, Zenon DEF TypeOK
<1>3. NoEchoLost
  <2>1. \A r \in Requests : Owned(r) => r \in Posted
    BY <1>1 DEF Owned, Queued, Active, Posted
  <2> QED BY <2>1 DEF EchoIInv, NoneLost, NoEchoLost, Posted
<1>4. PolledNoMore
  BY <1>1 DEF EchoIInv, OneOwner, AnsweredOnce, Queued, Active, OwnerSteps, PolledNoMore
<1> QED BY <1>2, <1>3, <1>4 DEF EchoInv

-----------------------------------------------------------------------------
(* Any number of calls, on either program: none is lost, and none answered  *)
(* or polled again once it has its answer.                                  *)
THEOREM EveryEchoAnsweredOnce == Spec => []EchoInv
<1>1. Init => EchoIInv
  BY EchoInitInv
<1>2. EchoIInv /\ [Next]_vars => EchoIInv'
  BY EchoStepInv
<1>3. EchoIInv => EchoInv
  BY EchoIInvImplies
<1> QED BY <1>1, <1>2, <1>3, PTL DEF Spec

(* With callbacks main's assertion fails only when the work thread holds a  *)
(* response that it has not stored yet.                                     *)
THEOREM CallbackAbortsOnlyEarly == Spec => []AbortsOnlyEarly
<1>1. Init => EchoIInv
  BY EchoInitInv
<1>2. EchoIInv /\ [Next]_vars => EchoIInv'
  BY EchoStepInv
<1>3. EchoIInv => AbortsOnlyEarly
  BY DEF EchoIInv
<1> QED BY <1>1, <1>2, <1>3, PTL DEF Spec
=============================================================================
