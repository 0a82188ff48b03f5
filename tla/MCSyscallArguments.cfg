\* One call.
CONSTANT MaxEntries = 1
SPECIFICATION EntrySpec
INVARIANT ArgumentsPassed
