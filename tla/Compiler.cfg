\* Programs of every kind the properties of Reading are about.
CONSTANTS
  Sources <- AllSources
  CodeSize = 7
  LiteralsSize = 6
  Height = 12
SPECIFICATION Spec
INVARIANTS TypeOK SymbolsDefined PopsCovered TablesHold OperatorsAsC PointersAsC SizeofAsC MembersAsC
  StatementsAsC NamesAsC TargetsChecked
PROPERTIES Progress PrintSpec
CHECK_DEADLOCK FALSE
