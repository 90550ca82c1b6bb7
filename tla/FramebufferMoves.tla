-------------------------- MODULE FramebufferMoves --------------------------
(***************************************************************************)
(* pw_framebuffer: a Framebuffer refers to a buffer of the pool and can    *)
(* only be moved.  Nothing but these moves keeps two parts of the program  *)
(* from drawing into one buffer: the pool does not look at what comes back *)
(* and takes its buffers in turn.  Here an application with two variables, *)
(* the display, a driver that writes at once (SPI) or one that keeps the   *)
(* framebuffer for its interrupt (the pixel pusher), and the pool.         *)
(***************************************************************************)
EXTENDS Naturals, FiniteSets, Sequences

CONSTANTS
  NumBuffers,  \* the buffers of the pool
  nullptr

VARIABLES
  driver,                 \* "direct" or "held"
  framebuffer_semaphore_,
  next_fb_idx_,
  at,                     \* at[l]: the Framebuffer in the variable or parameter l
  taken,                  \* the buffers the application has, oldest first
  lost                    \* how many it has dropped or assigned over

vars == <<driver, framebuffer_semaphore_, next_fb_idx_, at, taken, lost>>

Variables == {"framebuffer", "spare"}
Parameters == {"released", "written", "s_framebuffer", "fb", "returned"}
Places == Variables \cup Parameters

Default == [pixel_data_ |-> nullptr, pixel_format_ |-> "None"]
Framebuffer(data) == [pixel_data_ |-> data, pixel_format_ |-> "RGB565"]
is_valid(f) == f.pixel_data_ # nullptr

Init ==
  /\ driver \in {"direct", "held"}
  /\ framebuffer_semaphore_ = NumBuffers
  /\ next_fb_idx_ = 0
  /\ at = [l \in Places |-> Default]
  /\ taken = <<>>
  /\ lost = 0

-----------------------------------------------------------------------------
(* A plausible slip: the other keeps its pointer. *)
MutantMoveConstruct(fs, to, from) == [fs EXCEPT ![to] = fs[from]]

(* The parameter or variable `to` is made from `from`, which loses its data. *)
MoveConstruct(fs, to, from) == [fs EXCEPT ![to] = fs[from], ![from] = Default]

(* A plausible slip: the pointers change places. *)
MutantMoveAssign(fs, to, from) == [fs EXCEPT ![to] = fs[from], ![from] = fs[to]]

(* Assignment takes over the data and then clears the other, also when the  *)
(* other is itself.                                                         *)
MoveAssign(fs, to, from) == [[fs EXCEPT ![to] = fs[from]] EXCEPT ![from] = Default]

Without(s, d) == SelectSeq(s, LAMBDA e : e # d)

(* The application forgets what it has in its variable l. *)
Forget(l) ==
  /\ lost' = IF is_valid(at[l]) THEN lost + 1 ELSE lost
  /\ taken' = Without(taken, at[l].pixel_data_)

(* framebuffer = display.GetFramebuffer(): the next buffer in turn. *)
GetFramebuffer(l) ==
  /\ framebuffer_semaphore_ > 0
  /\ framebuffer_semaphore_' = framebuffer_semaphore_ - 1
  /\ next_fb_idx_' = (next_fb_idx_ + 1) % NumBuffers
  /\ at' = MoveAssign([at EXCEPT !["returned"] = Framebuffer(next_fb_idx_)], l, "returned")
  /\ lost' = IF is_valid(at[l]) THEN lost + 1 ELSE lost
  /\ taken' = Append(Without(taken, at[l].pixel_data_), next_fb_idx_)
  /\ UNCHANGED driver

(* l = std::move(m), the same variable included. *)
AssignVariable(l, m) ==
  /\ Forget(l)
  /\ at' = MoveAssign(at, l, m)
  /\ UNCHANGED <<driver, framebuffer_semaphore_, next_fb_idx_>>

(* l goes out of scope. *)
Drop(l) ==
  /\ is_valid(at[l])
  /\ Forget(l)
  /\ at' = [at EXCEPT ![l] = Default]
  /\ UNCHANGED <<driver, framebuffer_semaphore_, next_fb_idx_>>

-----------------------------------------------------------------------------
Calling == is_valid(at["released"]) \/ is_valid(at["written"])

(* display.ReleaseFramebuffer(std::move(l)).  Buffers are released in the   *)
(* order in which they were taken, as the pool requires.                    *)
CallReleaseFramebuffer(l) ==
  /\ is_valid(at[l]) /\ at[l].pixel_data_ = Head(taken)
  /\ at' = MoveConstruct(at, "released", l)
  /\ taken' = Tail(taken)
  /\ UNCHANGED <<driver, framebuffer_semaphore_, next_fb_idx_, lost>>

(* One without data is refused. *)
ReleaseFramebuffer ==
  /\ is_valid(at["released"])
  /\ at' = MoveConstruct(at, "written", "released")
  /\ UNCHANGED <<driver, framebuffer_semaphore_, next_fb_idx_, taken, lost>>

(* The pixel pusher waits for the last frame and keeps this one. *)
Keep ==
  /\ driver = "held" /\ is_valid(at["written"]) /\ ~is_valid(at["s_framebuffer"])
  /\ at' = MoveAssign(at, "s_framebuffer", "written")
  /\ UNCHANGED <<driver, framebuffer_semaphore_, next_fb_idx_, taken, lost>>

(* write_cb: the callback's parameter goes on to the pool, which counts it  *)
(* and lets it go.                                                          *)
WriteCallback(from) ==
  /\ is_valid(at[from])
  /\ at' = [MoveConstruct(MoveConstruct(at, "fb", from), "returned", "fb")
              EXCEPT !["returned"] = Default]
  /\ framebuffer_semaphore_' = framebuffer_semaphore_ + 1
  /\ UNCHANGED <<driver, next_fb_idx_, taken, lost>>

WriteRows == driver = "direct" /\ WriteCallback("written")
Interrupt == WriteCallback("s_framebuffer")

Application ==
  /\ ~Calling
  /\ \E l \in Variables :
       \/ GetFramebuffer(l) \/ Drop(l) \/ CallReleaseFramebuffer(l)
       \/ \E m \in Variables : AssignVariable(l, m)

Next == Application \/ ReleaseFramebuffer \/ Keep \/ WriteRows \/ Interrupt

Spec == Init /\ [][Next]_vars

-----------------------------------------------------------------------------
Valid == {l \in Places : is_valid(at[l])}

(* The variables keep their types. *)
TypeOK ==
  /\ framebuffer_semaphore_ \in 0 .. NumBuffers /\ lost \in 0 .. NumBuffers
  /\ next_fb_idx_ \in 0 .. NumBuffers - 1
  /\ at \in [Places -> {Default} \cup {Framebuffer(d) : d \in 0 .. NumBuffers - 1}]

(* No two Framebuffers refer to the same buffer, wherever in the program    *)
(* they are, though the pool gives its buffers out in turn and some were    *)
(* never brought back.                                                      *)
NeverShared ==
  \A l, m \in Valid : at[l].pixel_data_ = at[m].pixel_data_ => l = m

(* Each buffer is in the pool, in one place of the program, or the          *)
(* application itself has lost it: the moves through the display, the       *)
(* driver and the callback lose none, and nothing comes back twice.         *)
AllAccounted == framebuffer_semaphore_ + Cardinality(Valid) + lost = NumBuffers

MovesInv == TypeOK /\ NeverShared /\ AllAccounted
=============================================================================
