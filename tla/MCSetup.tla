------------------------------- MODULE MCSetup ------------------------------
(* Values for the runs of Setup.                                           *)
EXTENDS Setup

MCIgnore == {<<>>, <<"#", "a", "l", "b">>, <<".suis">>}
MCManifests == {{"package.json", "test script", "yarn.lock", "Makefile"}, {"package.json"}}
=============================================================================
