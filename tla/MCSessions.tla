------------------------------ MODULE MCSessions ------------------------------
(* Sessions on small instances. *)
EXTENDS Sessions, TLC

\* Accounts, passwords, connections and tokens are interchangeable.
Symmetry == Permutations(Account) \cup Permutations(Password)
            \cup Permutations(Conn) \cup Permutations(Token)
==============================================================================
