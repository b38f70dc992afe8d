-------------------------- MODULE MCServiceUpdate --------------------------
EXTENDS ServiceUpdate
MCBuild == [e \in Ensures |-> IF e = "e1" THEN "new" ELSE "newer"]
MCRevision == [k \in Configs |-> IF k = "k1" THEN 2 ELSE 3]
=============================================================================
