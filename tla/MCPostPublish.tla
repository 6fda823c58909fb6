--------------------------- MODULE MCPostPublish ---------------------------
EXTENDS PostPublish

\* Every text has a size, and so a price, of its own.
TextNumber == CHOOSE f \in [Texts -> 1..Cardinality(Texts)] :
                  \A t, u \in Texts : f[t] = f[u] => t = u
OwnSize == [d \in Draft |-> TextNumber[d.text]]

\* Drafts of one size.
OneSize == [d \in Draft |-> 1]
=============================================================================
