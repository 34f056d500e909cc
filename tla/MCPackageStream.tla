-------------------------- MODULE MCPackageStream --------------------------
(***************************************************************************)
(* Small instances of PackageStream for TLC: three packages, any two of    *)
(* which fit the buffer of MCPackageStream_cpp.cfg.                        *)
(***************************************************************************)
EXTENDS PackageStream

MCEnd == [k \in 0 .. 3 |-> <<0, 6, 13, 20>>[k + 1]]
=============================================================================
