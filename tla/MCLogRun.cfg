SPECIFICATION FairSpec
CONSTANTS
  Contents <- MCContents
  TooLong <- MCTooLong
  Price <- MCPrice
  Form <- MCForm
INVARIANTS TypeOK UpdatesAddUp NothingForgotten FewIdsCrash
PROPERTIES OldestFileFirst TaskEnds
\* The worker leaves when the run is over.
CHECK_DEADLOCK FALSE
