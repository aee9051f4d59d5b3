------------------------------ MODULE MCUptime ------------------------------
EXTENDS Uptime

\* The set changes with the height and with the branch; one block of a branch is
\* proposed by the one who stands in.
MCConsensus ==
    [b \in Heights \X Hashes |->
        [validators |-> IF b[1] = 1 /\ b[2] = 1 THEN <<"carl", "dora">> ELSE <<"ann", "bob">>,
         round      |-> IF b[1] = 1 THEN 0 ELSE 1]]
=============================================================================
