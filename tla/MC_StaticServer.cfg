CONSTANT MaxStarts <- MCMaxStarts
SPECIFICATION Spec
INVARIANT RunningMatchesSignal
PROPERTY StoppedServerReleasesPort
