----------------------------- MODULE MCChainLocks -----------------------------
(* Two branches from genesis.  The quorum locks the first block of branch 1,   *)
(* while branch 2 grows longer; in the run about the best CLSIG it locks both  *)
(* blocks of branch 1.  The first block of branch 1 may lack its trigger.      *)
EXTENDS ChainLocks

MCBlocks == {<<>>, <<1>>, <<2>>, <<2, 1>>}
MCLocks == {<<1>>}
MCUntriggered == {<<1>>}

TallBlocks == MCBlocks \cup {<<1, 1>>}
TwoLocks == {<<1>>, <<1, 1>>}
=============================================================================
