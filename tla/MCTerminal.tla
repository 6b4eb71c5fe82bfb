----------------------------- MODULE MCTerminal -----------------------------
EXTENDS Terminal

=============================================================================
