SPECIFICATION Spec
CONSTANTS
  p = p
  q = q
  r = r
  lsft = lsft
  lctl = lctl
  A = A
  B = B
  VolUp = VolUp
  NoKey = NoKey
  NoBinding = NoBinding
  Inval = Inval
  Mods = {lsft, lctl}
  Keys = {A, B}
  ConsumerKeys = {VolUp}
  ReportSize = 1
  ConsumerSize = 1
  SeparateModRelease = FALSE
  Usages <- MCUsages
  Sources = {p, q, r}
  Positions = {p, q, r}
  LayerCount = 3
  Bindings <- MCBindings
  Assignable <- MCAssignable
  Builds <- MCBuilds
  MaxEdits = 1
INVARIANTS
  TypeOK
  LayersFollowKeys
  ReportsFollowKeys
  NothingStuck
  PairedByKeymap
PROPERTIES
  ReleaseFollowsPress
  FreshPress
