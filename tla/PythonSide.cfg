SPECIFICATION MCSpec
CONSTANTS
  letter = letter
  blank = blank
  eacute = eacute
  nul = nul
  k1 = k1
  k2 = k2
  k3 = k3
  v1 = v1
  v2 = v2
  none = none
  x = x
  y = y
  arr1 = arr1
  arr2 = arr2
  h = h
  i0 = i0
  c0 = c0
  z = z
  o1 = o1
  o2 = o2
  t1 = t1
  t2 = t2
  StoreKeys = {k1, k2, k3}
  Vals = {v1, v2}
  HASH_SLOTS = 2
  SlotOf <- SlotOfKey
  Blocks = {0, 1, 2}
  NoEntry = none
  Width = 2
  Chars = {letter, blank, eacute, nul}
  Blanks = {blank}
  Nul = nul
  Wide = {eacute}
  MaxText = 5
  Handles = {v1, v2}
  PyKeys = {k1, k2}
  Half = 2
  Default <- GetDefault
  PyObjects <- ObjectsOfAll
  Foreign <- ForeignValues
  Objects = {x, y}
  Arrays = {arr1, arr2}
  Raws = {h}
  Items = {i0}
  Caches = {c0}
  Outer = {z}
  Plain = {o1, o2}
  Tensors = {t1, t2}
  NullRef = none
  MaxDepth = 2
  MaxElems = 3
  ArraySize = 2
  Names = {k1, k2}
  MaxGiven = 3
  MaxSpread = 2
  Elems = {v1, v2}
  Bounds <- Ends
  Steps <- Strides
  MaxSize = 3
  MaxKey = 3
  Defaults = {x, y}
  Nanobinds = {arr1}
  MaxRefs = 2
INVARIANTS
  StoreIsMap
  ChainsHoldTaken
  BytesAreCharacters
  ActsLikeDict
  RefsExact
  NoReferenceLost
  LoadsAllOrNothing
  RoundTrip
  ArgumentsArrive
  TakenOnlyByMatch
  ActsLikeList
  VisitsOnce
  MapOutlivesViews
  OneOwner
CHECK_DEADLOCK FALSE
