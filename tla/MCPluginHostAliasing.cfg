SPECIFICATION Spec
CONSTANTS
  Requests = {r1}
  PluginCount = 1
  Hooked = {1}
  Uses <- StampUses
  Nils = {TRUE, FALSE}
INVARIANT ErrorKeepsMetadata
