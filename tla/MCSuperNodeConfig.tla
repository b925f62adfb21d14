-------------------------- MODULE MCSuperNodeConfig --------------------------
(***************************************************************************)
(* The settings of the model checks of SuperNodeConfig: every list of up   *)
(* to two chains out of Ethereum, Bitcoin and a chain the program does not *)
(* know, every combination of the three switches of the two known chains,  *)
(* and every outcome of the two dials, of the home directory and of the    *)
(* database.  Paths are set or empty together with the numbers.            *)
(***************************************************************************)
EXTENDS SuperNodeConfig, SequencesExt

Names == {"ethereum", "bitcoin"}

Switches == [server : BOOLEAN, sync : BOOLEAN, backFill : BOOLEAN]

\* The settings a file leaves empty, gives, and gives wrongly.
Given ==
    {[ipfsPath |-> "", path |-> "", workers |-> 0, frequency |-> 0, batchSize |-> 0],
     [ipfsPath |-> "/ipfs", path |-> "/p", workers |-> 4, frequency |-> 15, batchSize |-> 10],
     [ipfsPath |-> "/ipfs", path |-> "", workers |-> -1, frequency |-> -1, batchSize |-> -1]}

MCVipers ==
    { [chains |-> cs, on |-> on, dials |-> d, home |-> h, db |-> db,
       ipfsPath |-> g.ipfsPath, workers |-> g.workers, frequency |-> g.frequency,
       batchSize |-> g.batchSize,
       wsPath |-> [n \in Names |-> g.path], httpPath |-> [n \in Names |-> g.path],
       ipcPath |-> [n \in Names |-> IF n = "bitcoin" THEN "" ELSE g.path]] :
      cs \in BoundedSeq(Names \cup {"litecoin"}, 2) \ {<<>>},
      on \in [Names -> Switches],
      d \in [ws : BOOLEAN, http : BOOLEAN], h \in BOOLEAN, db \in BOOLEAN,
      g \in Given }

=============================================================================
