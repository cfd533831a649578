-------------------------------- MODULE Bind --------------------------------
(* F of the value of x, which is computed once.                            *)
Bind(x, F(_)) == CHOOSE r \in {F(y) : y \in {x}} : TRUE
=============================================================================
