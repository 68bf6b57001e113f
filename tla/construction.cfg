CONSTANTS orders = orders Orders = Orders spaced = spaced collector = collector
  h1 = h1 h2 = h2
  Names <- MCNames Trim <- MCTrim Lower <- MCLower NoName = NoName
  Subscribers = {s1, s2} Handlers = {h1, h2} StructName <- MCStructName
  Configurations <- MCConfigurations Requests <- MCRequests
  Producer = Producer Presets <- MCPresets
SPECIFICATION Spec
SYMMETRY Symmetry
INVARIANTS TypeOK SubscriberIsServed ConfigurationDecides ClientsAreOwned InputsDecide ClientsGetTheirModes
CHECK_DEADLOCK FALSE
