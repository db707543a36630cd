SPECIFICATION MCSpec
CONSTANTS
  o1 = o1
  o2 = o2
  kid = kid
  Owners <- MCOwners
  Kids <- MCKids
  Direct = direct
  NoOwner = nobody
INVARIANTS
  TypeOK
  AbsentIsGone
  StatusIsKept
  FlagGivenBack
  OrphansComeHome
PROPERTY
  LockIsReleased
