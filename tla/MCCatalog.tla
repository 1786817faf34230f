----------------------------- MODULE MCCatalog ------------------------------
(* The instance of Catalog that TLC checks: two models that can take one
   another's name, two clients, and the values interchangeable.              *)
EXTENDS Catalog, TLC
Perms == Permutations(Item) \cup Permutations(Client) \cup Permutations(Value)
=============================================================================
