----------------------------- MODULE MCCutover -----------------------------
(* Two overlapping invocations and two releases after a legacy deployment without
   universe-us; two operational tables written twice.  One trade and one filing, and three
   revisions of the trade, so that two of them can be approved together before the third; the
   third comes when the filing has been approved and no canonical ID of the second is left
   staged. *)
EXTENDS Cutover, TLC

NoUniverse == Services \ {"universe-us"}
Symmetry   == Permutations(Scripts) \cup Permutations(Releases)

ThirdLate == \A t \in Trades : rev[t] = MaxRev =>
  /\ \A f \in Filings : review[<<f, 1>>] # None /\ review[<<f, 1>>].batch > 0
  /\ crosswalk[<<t, MaxRev - 1>>] # "staged"
=============================================================================
