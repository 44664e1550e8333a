\* Every command line of up to five tokens, each of them a name or a word, with
\* no dash, one or two.  The parser stops at its end.
SPECIFICATION ArgSpec
CONSTANTS
    Word <- MCWord
    Empty = Empty
    Option <- MCOption
    Flag <- MCFlag
    Short <- MCShort
    MaxArgs = 5
INVARIANT
    AcceptsGrammar
CHECK_DEADLOCK FALSE
