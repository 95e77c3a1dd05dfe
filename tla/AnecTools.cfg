SPECIFICATION Spec
CONSTANTS
  Files <- MCFiles
  Converted <- MCConverted
  Tools = {"convert", "file", "staged", "zero", "normalize", "probe", "chain", "sequential"}
INVARIANTS  KernelIsSource 
