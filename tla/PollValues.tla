----------------------------- MODULE PollValues -----------------------------
(***************************************************************************)
(* pw_async_bench: the values of the polled echo.  Poll<T> is a bivariant  *)
(* of Ready<T> and Pending that a client makes, copies, moves, assigns and *)
(* destroys as it likes; ProxyEchoImpl's future is a bivariant of its two  *)
(* states which goes through a temporary into the task that polls it.      *)
(* AsyncEcho has the threads that run the tasks.                           *)
(***************************************************************************)
EXTENDS Bivariant, Sequences

CONSTANTS
  Polls,       \* the names of the client's Poll objects
  Results,     \* the values of T
  Requests     \* the calls of Echo

Response == "response"
Pending == "pending"

(* RemoteEcho's future: is_first_time_, and whether value_ was moved out. *)
FirstTime == "first time"
Again == "again"
Answered == "answered"

VARIABLES
  polls,       \* polls[p]: the bivariant<Ready<T>, Pending> called p
  meant,       \* meant[p]: what a plain variant in its place would hold
  temp,        \* temp[r]: state_ of the future that Echo(r) returns
  task,        \* task[r]: state_ of the future kept in the task of r
  calls        \* the requests given to RemoteEcho::Echo, in order

vars == <<polls, meant, temp, task, calls>>

Gone == "none"

Init ==
  /\ polls = [p \in Polls |-> Storage]
  /\ meant = [p \in Polls |-> Gone]
  /\ temp = [r \in Requests |-> Storage]
  /\ task = [r \in Requests |-> Storage]
  /\ calls = <<>>

Alive(o) == o.tag # "none"

(* polls[p] becomes o, which is to hold v. *)
Set(p, o, v) ==
  /\ polls' = [polls EXCEPT ![p] = o]
  /\ meant' = [meant EXCEPT ![p] = v]
  /\ UNCHANGED <<temp, task, calls>>

-----------------------------------------------------------------------------
(* A Poll from a value of T, in place or through a Ready<T>; from Pending. *)
NewReady(p) ==
  /\ ~Alive(polls[p])
  /\ \E v \in Results : Set(p, FromA(v), v)

NewPending(p) ==
  /\ ~Alive(polls[p])
  /\ Set(p, FromB(Pending), Pending)

Copy(p, q) ==
  /\ ~Alive(polls[p]) /\ Alive(polls[q])
  /\ Set(p, CopyConstruct(polls[q]), meant[q])

(* The value that a move takes away. *)
Left(v) == IF v = Pending THEN Pending ELSE Moved

Move(p, q) ==
  /\ ~Alive(polls[p]) /\ Alive(polls[q])
  /\ polls' = [polls EXCEPT ![p] = MoveConstruct(polls[q]), ![q] = MovedFrom(@)]
  /\ meant' = [meant EXCEPT ![p] = meant[q], ![q] = Left(@)]
  /\ UNCHANGED <<temp, task, calls>>

(* Assigning a value makes a bivariant of it, moves that one and ends it. *)
AssignTemporary(p, t, v) ==
  /\ Alive(polls[p])
  /\ Set(p, Misused(Assign(polls[p], t), Destroy(MovedFrom(t)).misused), v)

AssignReady(p) == \E v \in Results : AssignTemporary(p, FromA(v), v)
AssignPending(p) == AssignTemporary(p, FromB(Pending), Pending)

(* A copy of itself is left alone. *)
AssignCopy(p, q) ==
  /\ Alive(polls[p]) /\ Alive(polls[q])
  /\ Set(p, IF p = q THEN polls[p] ELSE Assign(polls[p], polls[q]), meant[q])

AssignMove(p, q) ==
  /\ p # q /\ Alive(polls[p]) /\ Alive(polls[q])
  /\ polls' = [polls EXCEPT ![p] = Assign(@, polls[q]), ![q] = MovedFrom(@)]
  /\ meant' = [meant EXCEPT ![p] = meant[q], ![q] = Left(@)]
  /\ UNCHANGED <<temp, task, calls>>

(* A move to itself is not looked out for: the member is moved to itself,   *)
(* which may or may not leave it its contents.                              *)
AssignSelf(p) ==
  /\ Alive(polls[p])
  /\ \/ Set(p, Assign(polls[p], polls[p]), meant[p])
     \/ Set(p, MovedFrom(Assign(polls[p], polls[p])), Left(meant[p]))

End(p) ==
  /\ Alive(polls[p])
  /\ Set(p, Destroy(polls[p]), Gone)

-----------------------------------------------------------------------------
(* impl.Echo(request): the future holds the request and the remote. *)
Echo(r) ==
  /\ ~Alive(temp[r]) /\ ~Alive(task[r])
  /\ temp' = [temp EXCEPT ![r] = FromA(r)]
  /\ UNCHANGED <<polls, meant, task, calls>>

(* PostEcho moves it into a TaskData ... *)
KeepInTask(r) ==
  /\ Alive(temp[r]) /\ ~Alive(task[r])
  /\ task' = [task EXCEPT ![r] = MoveConstruct(temp[r])]
  /\ temp' = [temp EXCEPT ![r] = MovedFrom(@)]
  /\ UNCHANGED <<polls, meant, calls>>

(* ... and the one that Echo returned ends.  The task is never freed. *)
EndOfEcho(r) ==
  /\ Alive(temp[r]) /\ Alive(task[r])
  /\ temp' = [temp EXCEPT ![r] = Destroy(@)]
  /\ UNCHANGED <<polls, meant, task, calls>>

(* The request is moved out of the first state, the call made, and the     *)
(* first state destroyed to make room for the second.                      *)
RemoteCall(o) == AssignB(MovedFrom(o), FirstTime)

Called(o) == IF is_a(o) THEN RemoteCall(o) ELSE o

(* The task's Poll, after which p holds what it returned.  Pending comes    *)
(* with a wake-up; after Ready the task polls no more.                      *)
PollTask(r, p) ==
  LET o == Called(task[r])
      first == value_b(o) = FirstTime
  IN /\ Alive(task[r]) /\ ~Alive(temp[r]) /\ ~Alive(polls[p])
     /\ value_b(task[r]) # Answered
     /\ calls' = IF is_a(task[r]) THEN Append(calls, value_a(task[r])) ELSE calls
     /\ task' = [task EXCEPT ![r] = AssignMember(o, "b", IF first THEN Again ELSE Answered)]
     /\ polls' = [polls EXCEPT ![p] = IF first THEN FromB(Pending) ELSE FromA(Response)]
     /\ meant' = [meant EXCEPT ![p] = IF first THEN Pending ELSE Response]
     /\ UNCHANGED temp

(* The task stores the value of a result that is ready. *)
TakeResult(p) ==
  /\ Alive(polls[p]) /\ is_a(polls[p])
  /\ Set(p, MovedFrom(polls[p]), Moved)

Next ==
  \/ \E p \in Polls : NewReady(p) \/ NewPending(p) \/ AssignReady(p) \/ AssignPending(p)
                        \/ AssignSelf(p) \/ TakeResult(p) \/ End(p)
  \/ \E p, q \in Polls : Copy(p, q) \/ Move(p, q) \/ AssignCopy(p, q) \/ AssignMove(p, q)
  \/ \E r \in Requests : Echo(r) \/ KeepInTask(r) \/ EndOfEcho(r)
  \/ \E r \in Requests, p \in Polls : PollTask(r, p)

Spec == Init /\ [][Next]_vars

-----------------------------------------------------------------------------
Objects == {polls[p] : p \in Polls} \cup {temp[r] : r \in Requests} \cup {task[r] : r \in Requests}

(* The variables keep their types. *)
TypeOK ==
  /\ \A o \in Objects : o.tag \in {"none", TAG_A, TAG_B}
  /\ calls \in Seq(Requests)

(* The member that the tag names is alive and no other, none once the       *)
(* object has gone, and none was ever made over another, read while dead or *)
(* left undestroyed, whatever the order of operations.                      *)
OneMemberAlive ==
  \A o \in Objects :
    /\ ~o.misused
    /\ o.a # Dead <=> is_a(o)
    /\ o.b # Dead <=> is_b(o)

(* A Poll is what a plain variant in its place would be, moves and          *)
(* assignments between the alternatives included.                           *)
HoldsWhatWasMeant ==
  \A p \in Polls :
    meant[p] = IF Alive(polls[p]) THEN polls[p][polls[p].tag] ELSE Gone

VariantsInv == TypeOK /\ OneMemberAlive /\ HoldsWhatWasMeant

(* The remote is called once for each request, with its contents, however   *)
(* the future was moved before and however often it is polled; the second   *)
(* state is entered by that call.                                           *)
CalledOnce ==
  \A r \in Requests :
    LET Made == {i \in DOMAIN calls : calls[i] = r}
    IN IF is_b(task[r]) THEN \E i \in Made : Made = {i} ELSE Made = {}
=============================================================================
