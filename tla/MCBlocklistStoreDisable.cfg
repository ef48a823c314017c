SPECIFICATION Spec
CONSTANTS
  Sources = {s1}
  Bundled = Bundled
  Dataplane = Dataplane
  Background = {b1}
  MaxVersion = 2
  MaxAdmin = 3
INVARIANT DisabledBlocksNothing
