SPECIFICATION PipelineSpec
CONSTANTS
  \* the code has 65535, whose cube TLC cannot hold: soft edges are within 2 of 255
  AlphaScale = 255
  None = None
  Unlimited = Unlimited
  Automatic = Automatic
  Mistyped = Mistyped
  Configurations <- MCConfigurations
  Calls <- MCCalls
  PresetCalls <- MCPresetCalls
  Templates <- MCTemplates
  Revisions <- MCRevisions
  Answers <- MCAnswers
  PresetNames = {"p"}
  PresetClients = {c1, c2}
INVARIANTS
  ConfigurationSound
  ReportSound
  AdmittedIsServed
PROPERTY
  NegotiationSettles
\* a configuration that is refused ends the process
CHECK_DEADLOCK FALSE
