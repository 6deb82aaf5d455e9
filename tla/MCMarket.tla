------------------------------- MODULE MCMarket --------------------------------
(* Instances of Market for TLC. *)
EXTENDS Market, TLC

CONSTANTS h1, h2, h3, w1, w2, p1, c1, c2

OnHost1 == [d \in Daemon |-> h1]

\* A host that has been up for a while: near the top of its uptime.
Aged == {[uptime |-> 999, completion |-> 1000]}

\* Two owners' processes, who also migrate; the second is a customer's too.
OwnerAndCustomer ==
    [c \in Caller |-> IF c = c1 THEN {"init", "set", "pool", "host", "migrate"}
                      ELSE {"init", "set", "spawn", "migrate"}]

InPool == {<<p1, h1>>, <<p1, h2>>}

East == {"us-east"}

NewHosts == {[region |-> "us-east", tier |-> "prosumer"]}

\* The owner's terms: a price above the base rate of the tier, and memory for
\* one small workload.
Terms == {[minPrice |-> 22000, ramCap |-> [tenths |-> 25, unit |-> "gb"]]}

Ask(cpu, pool, cap) ==
    [cpu |-> cpu, memoryMb |-> 2048, region |-> "us-east", tier |-> Null,
     pool |-> pool, priceCap |-> cap]

\* One in a pool, with a cap that a busy or dear host exceeds, and one that no
\* host has room for.
PooledAndHuge == [w \in Workload |-> IF w = w1 THEN Ask(1, p1, 24000) ELSE Ask(12, Null, Null)]

================================================================================
