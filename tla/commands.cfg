SPECIFICATION Spec
CONSTANTS
  k1 = k1
  k2 = k2
  Keys = {k1, k2}
  None = None
  begins1 = begins1
  junk = junk
  Values <- MCValues
  LongMax = 3
  NumberOf <- MCNumberOf
  TextOf <- MCTextOf
  Concat <- MCConcat
INVARIANT CommandsTypeOK
INVARIANT OkMeansDone
INVARIANT OneOfThreeStores
INVARIANT RenameKeepsValue
