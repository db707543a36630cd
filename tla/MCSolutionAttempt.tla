-------------------------- MODULE MCSolutionAttempt --------------------------
(***************************************************************************)
(* Two decision objects, the first with two solution classes, and two      *)
(* capsules: one the code accepts, one whose objects share a class, which  *)
(* it denies.                                                              *)
(***************************************************************************)
EXTENDS SolutionAttempt, TLC

CONSTANTS one, two, class_one, class_alternate, class_two,
          attempt_one, attempt_two, correction, third, s1, s2, s3, guard

MCObjects  == {one, two}
MCClasses  == {class_one, class_alternate, class_two}
MCAttempts == {attempt_one, attempt_two, correction, third}
MCGuards   == {guard}
MCSurfaces == {s1, s2, s3}
MCSurfaceLists == {<<s1, s2>>, <<s1>>, <<s3>>}

Declare(classes, first, attempt, surfaces) ==
  [solutionClasses |-> classes, initialClassId |-> first, initialAttemptId |-> attempt,
   mutationSurfaces |-> surfaces, guardIds |-> {guard}]

Accepted ==
  [o \in MCObjects |->
     IF o = one THEN Declare({class_one, class_alternate}, class_one, attempt_one, <<s1, s2>>)
                ELSE Declare({class_two}, class_two, attempt_two, <<s3>>)]

Shared == [Accepted EXCEPT ![two].solutionClasses = {class_one, class_two}]

MCCapsules == {Accepted, Shared}

(* Reviews and the attempts no capsule names are interchangeable.           *)
Symmetry == Permutations(Reviews) \cup Permutations({correction, third})
=============================================================================
