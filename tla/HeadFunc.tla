------------------------------ MODULE HeadFunc ------------------------------
(***************************************************************************)
(* The functions a head set's merge operands are made of                    *)
(* (crates/storage/src/backends/regolith/merge/head_set.rs).                *)
(*                                                                         *)
(* A name of the set is absent, ahead (superseded before its own head       *)
(* arrived) or live at a priority.  A writer's entries for one name are     *)
(* composed into one function on these states, stored as the images of the  *)
(* three classes: each image keeps its state or sends it to a fixed one.    *)
(* The bytes of names, values and operands are left out: their encoding is  *)
(* a sorted list, and a decoded list is the function modelled here.         *)
(***************************************************************************)
EXTENDS Naturals

CONSTANT Priorities

ASSUME PrioritiesAssumption == Priorities \subseteq Nat

Absent == [tag |-> "absent", priority |-> 0]
Ahead == [tag |-> "ahead", priority |-> 0]
Live(p) == [tag |-> "live", priority |-> p]

State == {Absent, Ahead} \cup {Live(p) : p \in Priorities}

IsLive(s) == s.tag = "live"

(* Image::Keep; Image::To(s) is the state s itself. *)
Keep == [tag |-> "keep", priority |-> 0]

Image == State \cup {Keep}

Resolve(image, input) == IF image = Keep THEN input ELSE image

Func == [absent : Image, ahead : Image, live : Image]

IDENTITY == [absent |-> Keep, ahead |-> Keep, live |-> Keep]
SUPERSEDE == [absent |-> Keep, ahead |-> Keep, live |-> Absent]
SUPERSEDE_AHEAD == [absent |-> Ahead, ahead |-> Keep, live |-> Absent]
AddAt(p) == [absent |-> Live(p), ahead |-> Absent, live |-> Keep]

(* Func::apply *)
Apply(f, s) ==
    IF s = Absent THEN Resolve(f.absent, s)
    ELSE IF s = Ahead THEN Resolve(f.ahead, s)
    ELSE Resolve(f.live, s)

(* Func::canonical: sending absent to absent, or ahead to ahead, is leaving them. *)
Canonical(f) ==
    [absent |-> IF f.absent = Absent THEN Keep ELSE f.absent,
     ahead |-> IF f.ahead = Ahead THEN Keep ELSE f.ahead,
     live |-> f.live]

(* As if compositions were left in any spelling. *)
(* Func::then: the function that applies f, then g. *)
Then(f, g) ==
    LET chain(first, second) == IF first = Keep THEN second ELSE Apply(g, first)
    IN  Canonical([absent |-> chain(f.absent, g.absent),
                   ahead |-> chain(f.ahead, g.ahead),
                   live |-> chain(f.live, g.live)])

(* The three entries a writer has for a name (Write::add, supersede, supersede_ahead). *)
Entry == {SUPERSEDE, SUPERSEDE_AHEAD} \cup {AddAt(p) : p \in Priorities}
=============================================================================
