CONSTANTS
  Project <- MCProject
  Manuscript <- MCManuscript
  Source <- MCSource
  Profile <- MCProfile
  JuryDraft <- MCJuryDraft
  Hours <- MCHours
SPECIFICATION Spec
INVARIANTS
  ReadyPaperIsGrounded
  SoundPaperIsReady
  FrozenPackageIsCompliant
CHECK_DEADLOCK FALSE
