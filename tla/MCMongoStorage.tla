--------------------------- MODULE MCMongoStorage ---------------------------
(* Values of the constants of MongoStorage for TLC: one Web API instance    *)
(* (web) and one CLI run (cli); web2 is a second Web API instance.          *)
EXTENDS MongoStorage, TLC

CONSTANTS web, web2, cli, tWeb, tWeb2, tCli, kOld, kNew

MCProcOf == [t \in Threads |-> CASE t = tCli -> cli
                                 [] OTHER -> web]
MCProcOfTwoWeb == [t \in Threads |-> IF t = tWeb2 THEN web2 ELSE web]

MCOneKey  == [p \in Procs |-> kNew]
MCTwoKeys == [p \in Procs |-> IF p = cli THEN kOld ELSE kNew]

MCSymmetry == Permutations(Sections) \cup Permutations(Values)
=============================================================================
