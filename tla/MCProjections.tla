----------------------------- MODULE MCProjections -----------------------------
EXTENDS Projections
TwoDonors   == <<"d1", "d1", "d2">>
TwoProjects == <<"p1", "p2", "p2">>
AnyRebuild  == {"all", "project_stats", "donor_history", "global_stats"}
===============================================================================
