------------------------ MODULE MCUserHistoryStorage ------------------------
EXTENDS UserHistoryStorage

Entries == Permutations(Entry)

=============================================================================
