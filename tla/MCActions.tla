------------------------------ MODULE MCActions ------------------------------
EXTENDS ActionReads

\* "transfer" is the operator's kind, "forced" is one an implementation claims:
\* it names the payload's sender and receiver.
MCTierB ==
    [k \in {"forced"} |-> [p \in Payloads |->
        {<<p[x], x>> : x \in DOMAIN p}]]

\* The rule for the claimed kind must not count.
MCRules == { [kind |-> "transfer", path |-> "to", role |-> "to"],
             [kind |-> "forced", path |-> "from", role |-> "to"] }

Transfer(sig, from, to, token) ==
    [sig |-> sig, sender |-> from, kind |-> "transfer",
     payload |-> [x \in {"to"} |-> to], token |-> token]

Forced(from, to) ==
    [sig |-> Unsigned, sender |-> 2, kind |-> "forced",
     payload |-> [x \in {"from", "to"} |-> IF x = "from" THEN from ELSE to],
     token |-> NoToken]

\* A block of two actions, one that holds an action twice and dropped another,
\* and one with nothing.
MCBodies ==
    { [acts |-> <<Transfer(1, 1, 1, 1), Transfer(Unsigned, 2, 1, 1)>>, drops |-> {2}],
      [acts |-> <<Forced(1, 2), Transfer(2, 2, 1, 1), Transfer(2, 2, 1, 1)>>, drops |-> {1}],
      NoBody }

Q(list, subject, upto, roles) ==
    [list |-> list, subject |-> subject, upto |-> upto, roles |-> roles]

MCRequests ==
    {Q("account", 1, 0, roles) : roles \in {{"from", "to"}, {"to", "payload_from"}}}
    \cup {Q("asset", 1, 0, {}), Q("events", 1, 0, {})}
    \cup {Q(list, 0, 0, {}) : list \in {"actions", "dropped", "summaries"}}
    \cup {Q("blocks", 1, 2, {})}
=============================================================================
