\* Three lines of an SSH server or of an FTP response; answers of DNS of up to
\* seven bytes, with one byte before the records, two bytes of fixed part, and
\* names of up to six bytes.
CONSTANTS
  Schemes = {"http", "https", "socks"}
  MaxCloses = 2
  QuestionEnd = 1
  FixedSize = 2
  MaxExpanded = 6
  Answers <- MCAnswers
  IdentLines = 3
  ReplyLines = 2
  Cases <- MCCases
  Lengths <- MCLengths
SPECIFICATION FairRunSpec
INVARIANTS
  HandedOverStaysOpen
  CheckLeavesNothing
  InsideBuffer
  SecureAsAgreed
  DnsExact
PROPERTIES
  ClosedOnce
  StepsOfWorker
  CheckEnds
