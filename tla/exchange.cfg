CONSTANTS
  bad = bad
  Nil = Nil
  NoCall = NoCall
  NoText = NoText
  Unserved = Unserved
  Unheard = Unheard
  Failed = Failed
  Int32Max = 3
  Int64Max = 9
  DepthLimit = 8
  Years = {0, 1, 1900, 2000, 2023, 2024, 9999}
  Months = {0, 1, 2, 3, 4, 12, 13}
  Days = {0, 1, 28, 29, 30, 31, 32}
  Minutes = {0, 60, 1439}
  Offsets <- MCOffsets
  Method = {"Models", "Hosts", "Pick", "Offer"}
  Calls <- MCCalls
  Answers <- MCAnswers
  StrangeFrames <- MCStrangeFrames
  StrangeReplies <- MCStrangeReplies
  Description <- MCDescription
  IsEmpty <- MCIsEmpty
  WriteArguments <- MCWriteArguments
  ReadArguments <- MCReadArguments
  WriteResult <- MCWriteResult
  ReadResult <- MCReadResult
  WriteFrame <- MCWriteFrame
  ReadFrame <- MCReadFrame
  WriteReply <- MCWriteReply
  ReadReply <- MCReadReply
  WriteError <- MCWriteError
  ReadError <- MCReadError
SPECIFICATION MCSpec
INVARIANTS
  TypeOK
  StampKeepsInstant
  RoundTrip
  AllowanceArrives
  OnlyWritableServed
  FailsForACause
PROPERTY
  CallKept
CHECK_DEADLOCK FALSE
