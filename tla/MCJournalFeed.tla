----------------------------- MODULE MCJournalFeed -----------------------------
(* Values TLC gives to the constants of JournalFeed.                        *)
EXTENDS JournalFeed

\* The first subscription asks for everything, every other for one run.
MCFilter == [s \in Subs |-> IF s = 1 THEN Runs ELSE {1}]
=============================================================================
