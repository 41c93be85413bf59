SPECIFICATION FairSpec
CONSTANTS
  Containers <- MCContainers
  Main = "main"
  NoTarget = "none"
  Scripts <- MCScripts
  Width = 4
  Height = 5
  Keys = {"w", "s", "e", "r", "q", "other"}
  MaxDepth = 5
  Start = 1
INVARIANTS
  TypeOK
  CurrentValid
  EndsOnlyOnBadContainer
  ScreenCurrent
  LabelsReadable
  WhatIsLitIsSelected
PROPERTIES
  KeysNoticed
  ImplementsMenu
