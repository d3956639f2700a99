SPECIFICATION Spec
INVARIANTS
  RunningImageComplete
  SelectedImageComplete
  ResumedAfterFailure
  HandleClosed
  CarouselRuns
