SPECIFICATION Spec
CONSTANTS
  eu = eu
  us = us
  cn = cn
  US = US
  CN = CN
  XX = XX
  anna = anna
  bob = bob
  cam1 = cam1
  cam2 = cam2
  Cameras = {cam1, cam2}
  Homes = 2
  Layouts <- MCLayouts
  Centers = {eu, us, cn}
  ProbeOrder <- MCOrder
  Countries = {US, CN, XX}
  Routing <- MCRouting
  Accounts = {anna, bob}
  Home <- MCHome
  Gateways = {us}
  None = none
INVARIANTS
  PasswordNotSpread
  ProbeFindsAccount
  EntryIsOneLogin
  EmptyOnlyWhenNoneShown
