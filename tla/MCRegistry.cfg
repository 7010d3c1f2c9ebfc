CONSTANTS
  None = None
  Clusters = {c1, c2}
  Machines = {1, 2, 3}
  Groups = {g1}
  Campaigns = {k1}
  Runs = {r1, r2}
  Hosts = {"n1", "n2"}
  Products = {"A100", "odd"}
  CardType <- MCCardType
  Forms <- MCForms
  Sites <- PassSites
SPECIFICATION Spec
INVARIANTS  CountedOnce
CHECK_DEADLOCK FALSE
