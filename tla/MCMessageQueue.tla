---------------------------- MODULE MCMessageQueue ----------------------------
\* Four servers that refer to each other in circles: the first holds an
\* entry and references to the second, or else the third, and to itself; the
\* second refers back to the first; the third and the fourth do not hold the
\* name and refer to each other.
EXTENDS MessageQueue

CONSTANTS h1, h2, h3, h4, base, e1, e2

MCHosts == {h1, h2, h3, h4}
MCBases == {base}
MCEntries == {e1, e2}
At(h) == <<h, base>>
MCHolds  == [p \in MCHosts \X MCBases |->
                CASE p[1] = h1 -> {e1} [] p[1] = h2 -> {e2} [] OTHER -> {}]
MCRefers == [p \in MCHosts \X MCBases |->
                CASE p[1] = h1 -> {<<At(h2), At(h3)>>, <<At(h1)>>}
                  [] p[1] = h2 -> {<<At(h1)>>}
                  [] OTHER     -> {}]
MCMoved  == [p \in MCHosts \X MCBases |->
                CASE p[1] = h3 -> <<At(h2), At(h4), At(h3)>>
                  [] p[1] = h4 -> <<At(h3)>>
                  [] OTHER     -> <<>>]
================================================================================
