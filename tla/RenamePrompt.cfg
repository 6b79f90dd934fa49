\* An admin and another; one press beside the poller.
SPECIFICATION Spec
CONSTANTS
  Boss = boss
  Own = own
  Torres = torres
  User = {boss, u}
  Manager = {boss}
  Name = {own, torres}
  Given = {torres}
  Blank = Blank
  Nobody = Nobody
  Reported <- MCReported
  Press = {p}
  Poller = poller
INVARIANTS
  TypeOK
  NamesKept
  NameGoesToAsked
  PromptSurvives
