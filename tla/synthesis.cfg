SPECIFICATION FairSpec
CONSTANTS
  c1 = c1
  c2 = c2
  Calls = {c1, c2}
  Keys <- MCKeys
  Rank <- MCRank
  Les = 1
  Latency <- MCLatency
  ClientFormat <- MCFormat
  HttpCodes = {503}
  HttpStatus <- MCHttpStatus
  StreamCodes = {45000000}
  MaxLines <- MCMaxLines
INVARIANTS
  TypeOK
  AnswerWhole
  Accounted
  ScrapeBounded
PROPERTIES
  CountsCalls
  Nearing
  Finishes
