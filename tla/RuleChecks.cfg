SPECIFICATION Spec
CONSTANTS
  None = None
  MaxAddressBytes = 9
  MaxRequestBytes = 9
  MaxKeyBytes = 9
  MaxMoney = 3
  ProtocolVersion = "p1"
  RunnerVersion = "r1"
  Ecosystem = "zcash"
  Track = "track"
  TrackVersion = "t1"
  ContentVersion = "c1"
  Scenario = "scenario"
  ScenarioVersion = "s1"
  TestBundle = "bundle"
  MaxSource = 1
  MaxId = 8
  MaxKeyId = 4
  MinLines = 2
  MaxLines = 3
  ClipNote <- MCClipNote
  FileDomain <- MCFileDomain
  FileDenial <- MCFileDenial
  CodeWords <- MCCodeWords
  TestWords <- MCTestWords
  Domain <- MCDomain
  Denial <- MCDenial
  WorkspaceTests <- MCWorkspaceTests
  Specific <- MCSpecific
  GenericAnswers <- MCGenericAnswers
  GenericOutput <- MCGenericOutput
  Scaffold <- MCScaffold
  EvidenceTerms <- MCEvidenceTerms
  DenialTerms <- MCDenialTerms
  Networks <- MCNetworks
  ReceiverPolicies <- MCReceiverPolicies
  AddressInputs <- MCAddressInputs
  PaymentPolicies <- MCPaymentPolicies
  PaymentRequests <- MCPaymentRequests
  KeyInputs <- MCKeyInputs
  Fixtures <- MCFixtures
  Later <- MCLater
  Configs <- MCConfigs
  Jobs <- MCJobs
  Histories <- MCHistories
  Offered <- MCOffered
  Words <- MCWords
  LessonDrafts <- MCDrafts
  LessonPlaces <- MCPlaces
  Jitters <- MCJitters
  Scored <- MCScored
  Sessions <- MCSessions
  Befores <- MCBefores
  Objects <- MCObjects
  Afters <- MCAfters
  Quests <- MCQuests
  Contexts <- MCContexts
  RunRequests <- MCRunRequests
  Forms <- MCForms
INVARIANTS PaymentWithinPolicy LifecycleIsMonotone ResultIsForTheJob AnswersAreKept ScoresAgree SavedSessionStands ObjectIsRead QuestSurvivesCut PacketAgreesWithRun
