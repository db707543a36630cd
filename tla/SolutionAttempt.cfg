SPECIFICATION Spec
CONSTANTS
  one = one
  two = two
  class_one = class_one
  class_alternate = class_alternate
  class_two = class_two
  attempt_one = attempt_one
  attempt_two = attempt_two
  correction = correction
  third = third
  s1 = s1
  s2 = s2
  s3 = s3
  guard = guard
  Objects <- MCObjects
  Classes <- MCClasses
  Attempts <- MCAttempts
  Guards <- MCGuards
  Surfaces <- MCSurfaces
  SurfaceLists <- MCSurfaceLists
  Capsules <- MCCapsules
  Reviews = {r1, r2}
  PreSpawnOutcomes = {abandoned}
  PreAuthOutcomes = {spawn_failed}
  StartedOutcomes = {pass, revise}
  MaxEvents = 6
SYMMETRY Symmetry
INVARIANTS
  ClosedUnderValidation
  OutcomeTellsHowFar
PROPERTIES
  VerdictsStand
CHECK_DEADLOCK FALSE
