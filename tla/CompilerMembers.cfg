\* Chains of members through two structs.
CONSTANTS
  Sources <- MemberSources
  CodeSize = 7
  LiteralsSize = 6
  Height = 12
SPECIFICATION Spec
INVARIANT NestedMembersAsC
CHECK_DEADLOCK FALSE
