\* Run by hand: a counterexample to the property (README, section 6).
SPECIFICATION Spec
CONSTANTS
  smf1 = smf1
  smf2 = smf2
  upf = upf
  core = core
  edge = edge
  eth0 = eth0
  n4 = n4
  Pods <- MCPods
  Namespaces <- MCNamespaces
  Ifaces <- MCIfaces
  NsOf <- MCNsOf
  NameOf <- MCNameOf
  IfacesOf <- MCIfacesOf
  Eth0 <- MCEth0
PROPERTIES
  OnlyStaleStopped
