------------------------------ MODULE MCTrie ------------------------------
EXTENDS Trie

CONSTANTS a, b

\* Keys that are prefixes of each other, siblings, and a key of its own.
MCChars == {a, b}

MCKeys == {<<>>, <<a>>, <<a, b>>, <<a, b, a>>, <<a, b, b>>, <<b>>}
=============================================================================
