SPECIFICATION Spec
CONSTANTS
  NumChnls = 2
  F1 = F1
  Filter <- MCFilter
  NoFilter = NoFilter
  Other = Other
INVARIANTS
  MeasuredIsReadable
PROPERTIES
  FiltersAsAsked
  SuccessIsTrue
