-------------------------------- MODULE Rules ---------------------------------
(***************************************************************************)
(* Rules made of rules: RuleImpl and RuleBuilder of src/boltconn/src/      *)
(* dispatch/rule.rs.  Pure operators.                                      *)
(***************************************************************************)
EXTENDS RuleSets

-------------------------------------------------------------------------------
(* RuleImpl::matches; sets maps the name of a rule set to the built set.    *)

RECURSIVE Matches(_, _, _)
Matches(sets, r, info) ==
  CASE r.t = "RULE-SET" -> RuleSetMatches(sets[r.v], info)
    [] r.t = "AND"      -> \A s \in ToSet(r.v) : Matches(sets, s, info)
    [] r.t = "OR"       -> \E s \in ToSet(r.v) : Matches(sets, s, info)
    [] r.t = "NOT"      -> ~Matches(sets, r.v, info)
    [] OTHER            -> LineMatches(r, info)

\* RuleBuilder::parse_sub_rule and parse: whether a rule can be built.  AND
\* and OR take at least two rules, a RULE-SET must be loaded, GEOIP and ASN
\* need the database; "INVALID" stands for text that does not parse.
RECURSIVE RuleOk(_, _, _)
RuleOk(sets, mmdb, r) ==
  CASE r.t \in {"AND", "OR"}    -> /\ Len(r.v) >= 2
                                   /\ \A s \in ToSet(r.v) : RuleOk(sets, mmdb, s)
    [] r.t = "NOT"              -> RuleOk(sets, mmdb, r.v)
    [] r.t = "RULE-SET"         -> r.v \in DOMAIN sets
    [] r.t \in {"GEOIP", "ASN"} -> mmdb
    [] OTHER                    -> r.t # "INVALID"
===============================================================================
