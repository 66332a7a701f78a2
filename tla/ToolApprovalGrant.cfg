CONSTANTS
  a1 = a1
  a2 = a2
  a3 = a3
  k1 = k1
  NoCall = NoCall
  Calls <- MCCalls
  Keys = {k1}
  KeyOf <- MCKeyOf
  Policies = {"never", "on_failure", "on_request"}
SPECIFICATION Spec
PROPERTY GrantHonoured
