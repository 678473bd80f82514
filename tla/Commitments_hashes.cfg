SPECIFICATION Spec
CONSTANTS
    Radix = 3
    Width <- MCWidth
    Kinds <- MCKinds
    Heads <- MCHeads
    Entries <- MCEntries
    ReadHeads <- MCReadHeads
    ReadEntries <- MCReadEntries
    MaxEntries <- MCMaxEntries
INVARIANTS LanguagesAgree GuestHashesCommit SignatureSpeaksForOne
\* Documents have a bounded length.
CHECK_DEADLOCK FALSE
