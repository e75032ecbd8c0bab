----------------------------- MODULE ReleaseShelf -----------------------------
(***************************************************************************)
(* What publication promises to the readers of Serving v2 releases: the    *)
(* pointer names a complete release and never an older one than before,    *)
(* and an object is deleted only when Keep newer releases are stored and    *)
(* the pointer names none of its release.                                  *)
(*                                                                         *)
(* ServingRelease, with promotions and retention runs in turn, implements  *)
(* this module; ServingAnswers reads from it.                              *)
(***************************************************************************)
EXTENDS Integers, FiniteSets

CONSTANTS
    Releases,  \* release_ids
    Keep       \* releases that retention leaves

VARIABLES
    objects,   \* remote keys under serving/releases/
    active     \* the release that serving/latest.json names

shelf == <<objects, active>>

NoRelease == 0

Parts == {"manifest", "surface"}

Complete(r) == {<<r, part>> : part \in Parts} \subseteq objects

Listed == {object[1] : object \in objects}

EmptyShelf == objects = {} /\ active = NoRelease

Upload(r, part) ==
    /\ r >= active
    /\ objects' = objects \cup {<<r, part>>}
    /\ UNCHANGED active

Point(r) ==
    /\ r >= active
    /\ Complete(r)
    /\ active' = r
    /\ UNCHANGED objects

Delete(object) ==
    /\ object[1] # active
    /\ Cardinality({q \in Listed : q > object[1]}) >= Keep
    /\ objects' = objects \ {object}
    /\ UNCHANGED active

NextShelf ==
    \/ \E r \in Releases : Point(r) \/ \E part \in Parts : Upload(r, part)
    \/ \E object \in objects : Delete(object)

SpecShelf == EmptyShelf /\ [][NextShelf]_shelf
=============================================================================
