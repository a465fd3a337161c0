------------------------------ MODULE MCDoctor ------------------------------
(***************************************************************************)
(* Two repositories: r1 private, allowed to nobody and named by `rad ls    *)
(* --private` alone, r2 public and the user's by its signed refs.          *)
(***************************************************************************)
EXTENDS Doctor

CONSTANTS r1, r2

MCPrivate == {r1}
MCOwn     == {}
MCAlone   == {r1}

View(own, hidden, undescribed, unchecked) ==
  [rad |-> TRUE, own |-> own, private |-> hidden, undescribed |-> undescribed,
   unchecked |-> unchecked]
MCSights == {
  View(TRUE, TRUE, {}, {}), View(TRUE, TRUE, {r1}, {}), View(TRUE, TRUE, {r2}, {r2}),
  View(TRUE, FALSE, {}, {}), View(FALSE, FALSE, {r1, r2}, {}), View(FALSE, TRUE, {}, {r1}),
  [rad |-> FALSE, own |-> FALSE, private |-> FALSE, undescribed |-> Repos, unchecked |-> {}]}

Fact(here, recorded, same_device, routing, opens, synced, any) ==
  [here |-> here, recorded |-> recorded, same_device |-> same_device, routing |-> routing,
   opens |-> opens, synced |-> synced, any |-> any]
MCFacts == {
  Fact(0, 0, "no", {r2}, TRUE, {r2}, TRUE), Fact(Stale, Stale, "yes", {r1, r2}, TRUE, {}, TRUE),
  Fact(0, -1, "unknown", {r1}, TRUE, {r2}, TRUE), Fact(-1, -1, "no", {}, TRUE, {}, FALSE),
  Fact(Stale + 1, NoAge, "no", {}, FALSE, {}, FALSE)}
=============================================================================
