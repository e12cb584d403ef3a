CONSTANT MaxStarts <- MCMaxStarts
SPECIFICATION Spec
INVARIANT RunningServerStoppable
