SPECIFICATION Spec
CONSTANTS
  Hands <- MCHands
  MaxLen = 2
  MaxEntry = 2
  MaxManifest = 5
  MaxChanges = 2
INVARIANTS
  PassMeansAsWritten
  GoodArchivesPass
  WhatComesBackIsWritten
CHECK_DEADLOCK FALSE
