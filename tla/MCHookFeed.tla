---------------------------- MODULE MCHookFeed ----------------------------
EXTENDS HookFeed

CONSTANTS h1, h2, s1, s2

\* One hook in each of two spaces.
MCHookSpace == [h \in {h1, h2} |-> IF h = h1 THEN s1 ELSE s2]
=============================================================================
