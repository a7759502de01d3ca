---------------------------- MODULE MCPassThePoop ----------------------------
(* Instances of PassThePoop for TLC.                                        *)
EXTENDS PassThePoop

\* The card nobody wants, one in between, and the card nobody can take.
MCRanks == {Ace, 5, King}

\* Three players with two lives each, in every edition, with and without blocks;
\* four players where three of a kind stand against one, and where a tie of two
\* leaves two to play on.
MCTables ==
  [players: {3}, lives: {2}, allowBlocks: BOOLEAN, edition: {"Standard", "Diarrhea", "Pairs"}]
  \cup {[players |-> 4, lives |-> 1, allowBlocks |-> FALSE, edition |-> e] :
          e \in {"Diarrhea", "Pairs"}}
=============================================================================
