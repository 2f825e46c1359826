SPECIFICATION NameserverSpec
INVARIANT NameserverListGrammar
