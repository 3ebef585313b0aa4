------------------------------ MODULE MCTrisDb ------------------------------
(***************************************************************************)
(* Instance of TrisDb for TLC: the two servers the code can run, and one   *)
(* triple, that is stored or not: enough for three data files of two saves *)
(* to disagree.                                                            *)
(***************************************************************************)
EXTENDS TrisDb

CONSTANTS tcp, uds, main_thread, a, star

MCServers == {tcp, uds}

MCCallers == {tcp, uds, main_thread}

(* A configuration with "unixsocket = no", the default.                    *)
MCOneServer == {tcp}

MCTwoCallers == {tcp, main_thread}

MCTerms == {a, star}

MCUniverse == {<<a, a, a>>}

(* What the multimaps hold decides nothing about the end of the process:   *)
(* DELETE and CLEAR lock, change and dirty an empty store all the same.    *)
MCNothing == {}
=============================================================================
