----------------------------- MODULE Extraction -----------------------------
(***************************************************************************)
(* storage/src/schema.rs: the addresses an action's payload names, and the *)
(* role of each.  Tier A is the operator's kind_schema.toml, a set of      *)
(* rules from the paths of a kind to roles; Tier B are implementations in  *)
(* Rust that claim a kind each.  A payload is what its paths resolve to.   *)
(***************************************************************************)
EXTENDS Integers

CONSTANTS Addresses, Kinds, Paths, Roles,
          Rules,   \* the rules there may be: a kind, a path and a role
          TierB    \* what the implementations compute, by the kind they claim

Payloads == UNION {[P -> Addresses] : P \in SUBSET Paths}

ASSUME ExtractionAssumption ==
    /\ Rules \subseteq [kind : Kinds, path : Paths, role : Roles]
    /\ DOMAIN TierB \subseteq Kinds
    /\ \A k \in DOMAIN TierB : TierB[k] \in [Payloads -> SUBSET (Addresses \X Roles)]

\* KindSchema::resolve.  A path the payload does not have is skipped.
TierA(schema, kind, payload) ==
    {<<payload[r.path], r.role>> :
        r \in {r \in schema : r.kind = kind /\ r.path \in DOMAIN payload}}

\* AddressExtractor::resolve: a claimed kind is its implementation's alone, and
\* no rule for it is looked at.
Resolve(schema, kind, payload) ==
    IF kind \in DOMAIN TierB THEN TierB[kind][payload] ELSE TierA(schema, kind, payload)
=============================================================================
