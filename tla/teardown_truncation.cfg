SPECIFICATION Spec
CONSTANT MaxBlocks = 1
INVARIANT CloseIsGraceful
