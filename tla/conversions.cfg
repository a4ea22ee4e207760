CONSTANTS
  Payloads <- MCPayloads
  SessionNumbers = {0, 300}
  MaxSubPackets = 2
  MaxPackets = 2
  Calls <- MCCalls
  Answers <- MCAnswers
  MaxSplit = 40
  MaxDepth = 4
  Types <- MCTypes
  Stored <- MCStored
  Typed <- MCTyped
  TextUids <- MCTextUids
  NameOf <- MCNameOf
  FeatureLists <- MCFeatureLists
  LengthBias = {0, 44}
  NoValue = NoValue
  Dynamic = Dynamic
  Asked <- MCUids
  Sought <- MCNames
  MaxSscs = 2
SPECIFICATION Spec
INVARIANTS
  RoundTrip CallArrives AnswersAreTrue Editable DescribesTheDrive NamesAgree ListsAgree
CHECK_DEADLOCK FALSE
