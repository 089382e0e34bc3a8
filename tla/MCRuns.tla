------------------------------- MODULE MCRuns -------------------------------
EXTENDS Runs

\* One line, of one character and a line end.
MCInput == <<9, 0>>

=============================================================================
