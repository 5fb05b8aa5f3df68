SPECIFICATION Spec
CONSTANTS
  Builtins <- TwoBuiltins
  Names = {"rule", "signal"}
  Plugins = {"resolver", "signaling"}
  MaxCalls = 2
INVARIANT UnregisteredIsNotCalled
