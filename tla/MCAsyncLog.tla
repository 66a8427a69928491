---------------------------- MODULE MCAsyncLog -----------------------------
(* An instance of AsyncLog for TLC.                                        *)
EXTENDS AsyncLog, TLC

CONSTANTS c1, c2, w1, w2
MCWorkerSets == {{w1}, {w1, w2}}
MCLogLevels == c1 :> 2 @@ c2 :> 4
MCMaxPosts(c, pool_threads) == IF c = c1 /\ pool_threads = {w1} THEN 2 ELSE 1
============================================================================
