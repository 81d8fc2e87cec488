CONSTANTS
  \* evidence and ledgers
  None = None
  NSteps = 3
  Traces <- SomeTraces
  Verdicts <- SomeVerdicts
  MaxRetries = 2
  Benchmark = "this"
  Texts <- SomeTexts
  Operations <- TwoOperations
  Stored <- SomeEvents
  MaxEvents = 4
  \* the run
  Controlled <- OneControlled
  Natural <- OneNatural
  Sessions = {s1, s2}
  Nobody = Nobody
  Limit = 4
  MaxEdits = 2
  MaxFaults = 1
  \* judging
  Corpus <- SomeCorpus
  Pinned <- SomePinned
  Tests <- SomeTests
  Handings <- SomeHandings
  Runs <- SomeRuns
  \* review
  Samples <- TwoSamples
  Gold <- TwoGold
  Observed <- TwoObserved
  Observations <- SomeObservations
  Labels <- TwoLabels
  Reviewers = {"r", "q"}
  Draws <- TwoDraws
  Orders <- TwoOrders
  Drafts <- TwoDrafts
  \* metrics
  Taxonomies = {"logic", "boundary"}
  Rows <- SomeRows
  Confirmed <- SomeConfirmed
  MaxRows = 3
  \* selection
  NoTopic = NoTopic
  NoProblem = NoProblem
  Splits = {"validation", "test"}
  Topics = {"greedy", "dp"}
  Bands = {"low"}
  PerCell = 1
  Files = {"v", "t"}
  Listings <- SomeListings
  Acquired <- SomeAcquired
  ReviewSets <- SomeReviewSets
  Approved <- TheApproved

\* A trace has one report, a ledger is not extended without end, runs and
\* reviews end.
CHECK_DEADLOCK FALSE

SPECIFICATION MCSpec
SYMMETRY Alike
INVARIANTS
  SearchFindsUpstream
  FusionNeverFails
  UnattendedHasSupport
  ReviewedRootIsFirst
  AcceptsGrammar
  OneDraw
  EditIsNoticed
  ReviewsPrecedeConfig
  EligibleIsTrue
  OneInputIsShown
  AcceptedIsReviewed
  ReplaysAgree
  ReplicatesAreValid
  FormalCountsEverySample
  VerifiedIsReviewed
PROPERTIES
  QualifiedIsAllThatWasSent
