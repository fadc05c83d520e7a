--------------------------- MODULE MCVersionCheck ---------------------------
(***************************************************************************)
(* Versions at both ends of each part, and around the default bounds.  TLC *)
(* has integers of 31 bits, so that the largest major stays out of reach.  *)
(***************************************************************************)
EXTENDS VersionCheck

MCVersions == { 0, 4, 5, 9, 10, 2047 } \X { 0, 10, 11, 4095 } \X { 0, 1, 255 }

MCOverrides == { << 4, 0, 255 >>, << 4, 11, 1 >>, << 9, 4095, 255 >>, << 10, 0, 0 >> }

=============================================================================
