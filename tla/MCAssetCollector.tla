-------------------------- MODULE MCAssetCollector --------------------------
EXTENDS AssetCollector, TLC

\* Organisations are alike, and so are processes.
Alike == Permutations(Orgs) \cup Permutations(Workers)
=============================================================================
