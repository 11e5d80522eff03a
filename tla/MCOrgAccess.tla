---------------------------- MODULE MCOrgAccess ----------------------------
(* Small instances of OrgAccess. Organizations and requests are alike.     *)
EXTENDS OrgAccess, TLC

Alike == Permutations(Orgs) \cup Permutations(Handlers)
=============================================================================
