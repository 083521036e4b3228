------------------------------ MODULE MCSession ------------------------------
(* Instances of Session for TLC; addresses of statements are alike.        *)
EXTENDS Session, TLC

MCPtrSymmetry == Permutations(Ptr)
=============================================================================
