SPECIFICATION Spec
CONSTANTS
  Backends = {"openvr"}
  Stale = 4
  Keepalive = 2
  Late = 2
  Devices = {1, 2}
  Samples = {1, 2}
  NONE = NONE
  Changes = 6
PROPERTIES RoleResolves
