------------------------------ MODULE AsyncEcho ------------------------------
(***************************************************************************)
(* pw_async_bench: an RPC that echoes its request, once built from         *)
(* callbacks and once from futures that are polled.  Both executables      *)
(* start a work thread that runs the dispatcher, post the call from main,  *)
(* and run the same dispatcher from main until its queue is empty; main    *)
(* then asserts the result.  Every access of the queue, of a future and of *)
(* a result is a step of the thread that makes it.  The dispatcher is      *)
(* external: a queue under a lock which it does not hold while a task      *)
(* runs.  main posts one request; here any number of them.                 *)
(***************************************************************************)
EXTENDS Sequences

CONSTANTS Requests, None

Empty == "empty string"

ASSUME RequestAssumption == None \notin Requests \cup {Empty}

VARIABLES
  program,     \* the executable: "callback" or "poll"
  queue,       \* the tasks posted to the dispatcher
  running,     \* running[t]: the task thread t runs and how far it is in it
  waiting,     \* the requests whose proxy future is in WaitingOnRemote
  first,       \* first[r]: is_first_time_ of the future of r
  result,      \* result[r]: what main finds in the storage of r
  mainPc       \* "post", "run", then "exit" or, if the assertion fails, "abort"

vars == <<program, queue, running, waiting, first, result, mainPc>>

Threads == {"main", "work"}
Task(step, r) == [step |-> step, request |-> r]
Idle == Task("idle", None)

Init ==
  /\ program \in {"callback", "poll"}
  /\ queue = <<>>
  /\ running = [t \in Threads |-> Idle]
  /\ waiting = {}
  /\ first = [r \in Requests |-> TRUE]
  /\ result = [r \in Requests |-> None]
  /\ mainPc = "post"

Alive == mainPc \notin {"exit", "abort"}
Posted ==
  {r \in Requests :
     \/ result[r] # None
     \/ \E i \in DOMAIN queue : queue[i].request = r
     \/ \E t \in Threads : running[t].request = r}

At(t, step) == Alive /\ running[t].step = step
GoOn(t, step) == running' = [running EXCEPT ![t].step = step]
Done(t) == running' = [running EXCEPT ![t] = Idle]
Post(step, r) == queue' = Append(queue, Task(step, r))

(* PostEcho: the proxy hands the request to RemoteEcho::Echo, which posts  *)
(* the response.                                                           *)
CallbackPostEcho(r) ==
  /\ program = "callback" /\ mainPc = "post" /\ r \notin Posted
  /\ Post("on_response", r)
  /\ UNCHANGED <<program, running, waiting, first, result, mainPc>>

(* PostEcho: a task that polls the proxy's future. *)
PollPostEcho(r) ==
  /\ program = "poll" /\ mainPc = "post" /\ r \notin Posted
  /\ Post("poll", r)
  /\ UNCHANGED <<program, running, waiting, first, result, mainPc>>

RunUntilIdle ==
  /\ mainPc = "post" /\ Posted = Requests
  /\ mainPc' = "run"
  /\ UNCHANGED <<program, queue, running, waiting, first, result>>

(* The dispatcher, on either thread. *)
Take(t) ==
  /\ Alive /\ running[t] = Idle /\ queue # <<>>
  /\ t = "main" => mainPc = "run"
  /\ running' = [running EXCEPT ![t] = Head(queue)]
  /\ queue' = Tail(queue)
  /\ UNCHANGED <<program, waiting, first, result, mainPc>>

-----------------------------------------------------------------------------
(* A plausible slip: the handler of another call is used. *)
MutantOnResponse(t) ==
  /\ At(t, "on_response")
  /\ \E r \in Requests : result' = [result EXCEPT ![r] = running[t].request]
  /\ GoOn(t, "sent")
  /\ UNCHANGED <<program, queue, waiting, first, mainPc>>

(* The callback that RemoteEcho was given: EchoResponder::Send hands the   *)
(* response to send_handler_, which stores it ...                          *)
OnResponse(t) ==
  /\ At(t, "on_response")
  /\ result' = [result EXCEPT ![running[t].request] = running[t].request]
  /\ GoOn(t, "sent")
  /\ UNCHANGED <<program, queue, waiting, first, mainPc>>

(* A plausible slip: Send posts itself. *)
MutantSend(t) ==
  /\ At(t, "sent")
  /\ Post("sent", None)
  /\ Done(t)
  /\ UNCHANGED <<program, waiting, first, result, mainPc>>

(* ... and posts on_sent, which does nothing. *)
Send(t) ==
  /\ At(t, "sent")
  /\ Post("on_sent", None)
  /\ Done(t)
  /\ UNCHANGED <<program, waiting, first, result, mainPc>>

OnSent(t) ==
  /\ At(t, "on_sent")
  /\ Done(t)
  /\ UNCHANGED <<program, queue, waiting, first, result, mainPc>>

-----------------------------------------------------------------------------
(* ProxyEchoImpl's future makes the call when it is first polled, and      *)
(* polls RemoteEcho's future.                                              *)
ProxyPoll(t) ==
  /\ At(t, "poll")
  /\ waiting' = waiting \cup {running[t].request}
  /\ GoOn(t, "remote")
  /\ UNCHANGED <<program, queue, first, result, mainPc>>

(* A plausible slip: the future does not note that it has been polled. *)
MutantRemotePoll(t) ==
  LET r == running[t].request IN
  /\ At(t, "remote")
  /\ IF first[r]
     THEN GoOn(t, "wake") /\ UNCHANGED result
     ELSE result' = [result EXCEPT ![r] = Empty] /\ Done(t)
  /\ UNCHANGED <<program, queue, waiting, first, mainPc>>

(* RemoteEcho's future is ready when it is polled again.  Its value_ was   *)
(* never given the request's.                                              *)
RemotePoll(t) ==
  LET r == running[t].request IN
  /\ At(t, "remote")
  /\ IF first[r]
     THEN /\ first' = [first EXCEPT ![r] = FALSE]
          /\ GoOn(t, "wake")
          /\ UNCHANGED result
     ELSE /\ result' = [result EXCEPT ![r] = Empty]
          /\ Done(t)
          /\ UNCHANGED first
  /\ UNCHANGED <<program, queue, waiting, mainPc>>

(* A plausible slip: Pending without a wake-up. *)
MutantWake(t) ==
  /\ At(t, "wake")
  /\ GoOn(t, "pending")
  /\ UNCHANGED <<program, queue, waiting, first, result, mainPc>>

(* waker.Wake() posts the task that is still running. *)
Wake(t) ==
  /\ At(t, "wake")
  /\ Post("poll", running[t].request)
  /\ GoOn(t, "pending")
  /\ UNCHANGED <<program, waiting, first, result, mainPc>>

(* A plausible slip: the task posts itself too when it sees Pending. *)
MutantPending(t) ==
  /\ At(t, "pending")
  /\ Post("poll", running[t].request)
  /\ Done(t)
  /\ UNCHANGED <<program, waiting, first, result, mainPc>>

(* Pending comes back to the task, which is done for now. *)
Pending(t) ==
  /\ At(t, "pending")
  /\ Done(t)
  /\ UNCHANGED <<program, queue, waiting, first, result, mainPc>>

-----------------------------------------------------------------------------
(* RunUntilIdle came back: main asserts that every result is there and     *)
(* holds the value sent.                                                   *)
Assert ==
  /\ mainPc = "run" /\ running["main"] = Idle /\ queue = <<>>
  /\ mainPc' = IF \A r \in Requests : result[r] = r THEN "exit" ELSE "abort"
  /\ UNCHANGED <<program, queue, running, waiting, first, result>>

Thread(t) ==
  Take(t) \/ OnResponse(t) \/ Send(t) \/ OnSent(t) \/ ProxyPoll(t) \/ RemotePoll(t)
    \/ Wake(t) \/ Pending(t)

Main ==
  \/ \E r \in Requests : CallbackPostEcho(r) \/ PollPostEcho(r)
  \/ RunUntilIdle \/ Assert

Next == Main \/ \E t \in Threads : Thread(t)

(* The operating system runs both threads. *)
Fairness == WF_vars(Main) /\ \A t \in Threads : WF_vars(Thread(t))

Spec == Init /\ [][Next]_vars /\ Fairness

-----------------------------------------------------------------------------
(* The variables keep their types, and only whole tasks are in the queue. *)
TypeOK ==
  /\ \A i \in DOMAIN queue :
       queue[i] \in [step : {"on_response", "on_sent", "poll"},
                    request : Requests \cup {None}]
  /\ result \in [Requests -> Requests \cup {None, Empty}]
  /\ waiting \subseteq Requests /\ \A r \in Requests : r \in waiting \/ first[r]
  /\ mainPc \in {"post", "run", "exit", "abort"}

(* No call is lost: from the moment it is posted it is answered, or a task  *)
(* of its own is in the queue or being run.  For the futures this is what   *)
(* poll_impl.h asks of Poll: Pending only with a wake-up arranged.          *)
NoEchoLost == mainPc # "post" => Posted = Requests

(* poll_impl.h: after Ready, Poll is no longer called; not even by the      *)
(* other thread, which may take the task while the first still runs it.     *)
PolledNoMore ==
  \A r \in Requests :
    program = "poll" /\ result[r] # None =>
      /\ \A i \in DOMAIN queue : queue[i].request # r
      /\ \A t \in Threads : running[t].step \in {"poll", "remote"} => running[t].request # r

(* A request has one answer: not none, and not two.                         *)
EchoInv == TypeOK /\ NoEchoLost /\ PolledNoMore

(* With callbacks main's assertion fails for one reason only: the work      *)
(* thread has taken the task of a call and not stored the response yet,     *)
(* when main finds the queue empty.                                         *)
AbortsOnlyEarly ==
  mainPc = "abort" /\ program = "callback" =>
    \E r \in Requests : result[r] = None /\ running["work"] = Task("on_response", r)

(* main gets past its assertion, or fails it: neither program hangs. *)
MainEnds == <>(mainPc \in {"exit", "abort"})
=============================================================================
