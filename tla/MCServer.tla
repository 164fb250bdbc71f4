------------------------------- MODULE MCServer -------------------------------
(* Small instances of the server for TLC.                                  *)
EXTENDS Server, TLC

CONSTANTS c1, c2, w1, w2, s1, s2

OneConn    == {c1}
TwoConns   == {c1, c2}
OneWorker  == {w1}
TwoWorkers == {w1, w2}
TwoSites   == {s1, s2}

Pages     == {"page"}
Files     == {"page", "file"}
Downloads == {"file"}
Refusals  == {"post", "other", "lost", "dots", "bad", "huge"}
Anything  == {"file", "post", "bad", "huge"}

MCSiteOf  == [a \in Asks |-> CASE a = "other" -> s2 [] a \in {"lost", "bad"} -> NULL [] OTHER -> s1]

Plain   == {}
Hasty   == {"pipeline", "fin", "hurry"}
Leaving == {"fin", "rst", "hurry"}
Rude    == {"split", "pipeline", "fin", "rst", "hurry"}
Closing == {"split", "fin"}

Symmetry == Permutations({c1, c2}) \cup Permutations({w1, w2})
===============================================================================
