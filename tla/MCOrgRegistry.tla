--------------------------- MODULE MCOrgRegistry ---------------------------
(* OrgRegistry on small instances, up to the renaming of its identities.   *)
EXTENDS OrgRegistry, TLC

Symmetry == Permutations(Orgs) \cup Permutations(Keys)
              \cup Permutations(Serials) \cup Permutations(Tokens)
=============================================================================
