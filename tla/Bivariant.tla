------------------------------ MODULE Bivariant ------------------------------
(***************************************************************************)
(* pw_async_bench: bivariant<A, B>, a hand-made variant of two cases.  Its *)
(* members share their storage in a union, so that it must itself begin    *)
(* and end their lives, and its tag must always say which of the two is    *)
(* alive.  An object is its tag and the value of each member, dead or      *)
(* alive; it remembers whether a member was ever misused: made while one   *)
(* was alive, or read, assigned to or destroyed while it was dead.         *)
(***************************************************************************)

TAG_A == "a"
TAG_B == "b"
Dead == "dead"
Moved == "moved from"

(* The union before a constructor and after the destructor. *)
Storage == [tag |-> "none", a |-> Dead, b |-> Dead, misused |-> FALSE]

Misused(o, bad) == [o EXCEPT !.misused = @ \/ bad]

PlacementNew(o, m, v) ==
  [Misused(o, o.a # Dead \/ o.b # Dead \/ v = Dead) EXCEPT ![m] = v]

MakeA(o, v) == PlacementNew([o EXCEPT !.tag = TAG_A], "a", v)

(* A plausible slip: the tag is left as it was. *)
MutantMakeB(o, v) == PlacementNew(o, "b", v)

MakeB(o, v) == PlacementNew([o EXCEPT !.tag = TAG_B], "b", v)

EndMember(o, m) == [Misused(o, o[m] = Dead) EXCEPT ![m] = Dead]
AssignMember(o, m, v) == [Misused(o, o[m] = Dead \/ v = Dead) EXCEPT ![m] = v]

-----------------------------------------------------------------------------
is_a(o) == o.tag = TAG_A
is_b(o) == o.tag = TAG_B
value_a(o) == o.a
value_b(o) == o.b

(* The constructors from a value, in place or not. *)
FromA(v) == [Storage EXCEPT !.tag = TAG_A, !.a = v]
FromB(v) == [Storage EXCEPT !.tag = TAG_B, !.b = v]

CopyConstruct(other) ==
  IF is_a(other) THEN MakeA(Storage, value_a(other)) ELSE MakeB(Storage, value_b(other))

MoveConstruct(other) ==
  IF is_a(other) THEN MakeA(Storage, value_a(other)) ELSE MakeB(Storage, value_b(other))

(* What a move leaves behind: the member lives on, without its contents.    *)
(* An alternative B of this repository has none to lose.                    *)
MovedFrom(o) == IF is_a(o) THEN AssignMember(o, "a", Moved) ELSE o

(* operator= from a value of either type, copied or moved. *)
AssignA(o, v) ==
  IF is_a(o) THEN AssignMember(o, "a", v) ELSE MakeA(EndMember(o, "b"), v)

(* A plausible slip: the other member is not destroyed. *)
MutantAssignB(o, v) == IF is_b(o) THEN AssignMember(o, "b", v) ELSE MakeB(o, v)

AssignB(o, v) ==
  IF is_b(o) THEN AssignMember(o, "b", v) ELSE MakeB(EndMember(o, "a"), v)

(* operator= from another bivariant: an assignment of what the other holds. *)
Assign(o, other) ==
  IF is_a(other) THEN AssignA(o, value_a(other)) ELSE AssignB(o, value_b(other))

Destroy(o) == [EndMember(o, o.tag) EXCEPT !.tag = "none"]
=============================================================================
