-------------------------- MODULE MCRateLimitReset --------------------------
(* RateLimitReset on a small instance: two credits that expire together,  *)
(* so that the grant decides.                                              *)
EXTENDS RateLimitReset

CONSTANTS here, there

Newer == [id |-> 1, expires |-> 10, granted |-> 20]
Older == [id |-> 2, expires |-> 10, granted |-> 10]

Credits == {Newer, Older}

\* One server has the credits, the other has none.
SomeBanks ==
    {bank0 \in [{here, there} -> [Credits -> {"future", "available", "spent"}]] :
        \A c \in Credits : bank0[here][c] # "spent" /\ bank0[there][c] = "spent"}

=============================================================================
