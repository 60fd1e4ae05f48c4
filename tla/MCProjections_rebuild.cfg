SPECIFICATION ProjSpec
CONSTANTS
  NEvents = 3
  DonorOf <- TwoDonors
  ProjectOf <- TwoProjects
  Rebuilders = {r1, r2}
  Rebuildable <- AnyRebuild
  MaxFailures = 1
INVARIANT ProjectionsAgree
 
CHECK_DEADLOCK FALSE
