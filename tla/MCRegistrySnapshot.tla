-------------------------- MODULE MCRegistrySnapshot --------------------------
(* Small registries for RegistrySnapshot.                                  *)
EXTENDS RegistrySnapshot

Obj(v, eps) == [ver |-> v, eps |-> eps]

\* Every server keeps its endpoints; the second one may get a new object.
FixedEndpoints == [s \in Servers |->
  IF s = 2 THEN {Obj(1, {"b"}), Obj(2, {"b", "c"})} ELSE {Obj(1, {"a"})}]
=============================================================================
