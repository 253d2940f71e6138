\* Every outcome of parsing, of building and of the callbacks, for every kind of
\* input and of output.  It ends with a refused or a deleted channel.
CONSTANT Faulty <- FaultyMembers
SPECIFICATION Spec
INVARIANTS TypeOK ReadsAreAssigned NothingAbsentIsUsed GraphIsComplete
CHECK_DEADLOCK FALSE
