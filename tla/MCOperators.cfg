SPECIFICATION TextSpec
INVARIANT SubnetMatchesPrefix
INVARIANT SortlistGrammar
INVARIANT DeadlineExpiresOnTime
