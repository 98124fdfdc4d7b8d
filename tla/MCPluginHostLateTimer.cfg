SPECIFICATION Spec
CONSTANTS
  Requests = {r1, r2}
  PluginCount = 1
  Hooked = {1}
  Uses = {}
  Nils = {FALSE}
INVARIANT InterruptedByOwnTimer
