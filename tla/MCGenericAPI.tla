---------------------------- MODULE MCGenericAPI ----------------------------
(* Instances of GenericAPI for TLC. *)
EXTENDS GenericAPI

\* The actions share no actor, so that they are requested one at a time.
MCTogether == {{a} : a \in Online \union Batch}
=============================================================================
