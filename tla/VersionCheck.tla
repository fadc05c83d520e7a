---------------------------- MODULE VersionCheck ----------------------------
(***************************************************************************)
(* Versions of the mulle libraries: three numbers packed into one word, in *)
(* mulle-fifo.h, that the generated header _mulle-fifo-versioncheck.h      *)
(* compares as a whole when mulle-fifo is compiled against some version of *)
(* mulle-allocator and mulle-thread.  The build may define the bounds of   *)
(* the check itself.  The code of the fifos depends on it: only since 4.11 *)
(* are the atomics of mulle-thread sequentially consistent.                *)
(***************************************************************************)
EXTENDS Integers

CONSTANTS
  Versions,   \* versions a library may have: << major, minor, patch >>
  Overrides,  \* bounds that the build may define
  Undefined   \* a macro that is not defined

(* The parts have 12, 12 and 8 bits.                                       *)
Wide   == 0 .. 4095
Narrow == 0 .. 255
AllVersions == Wide \X Wide \X Narrow

ASSUME VersionsAssumption ==
  /\ Versions \subseteq AllVersions
  /\ Overrides \subseteq AllVersions
  /\ Undefined \notin AllVersions

VARIABLES
  library,   \* the library that is checked
  version,   \* its version
  min, max,  \* the bounds
  verdict    \* "none" until the bounds are there, then "unchecked" or "bounded",
             \* then what the preprocessor says

checkVars == << library, version, min, max, verdict >>

-----------------------------------------------------------------------------
(* The encoding.  The parts share no bit, so that | is a sum; it fits the  *)
(* uint32_t that mulle_fifo_get_version returns (see LibraryProofs).  *)

Pack(major, minor, patch) == major * (4096 * 256) + minor * 256 + patch
Encode(v) == Pack(v[1], v[2], v[3])

\* Faulty variant: the mask of the patch for the minor as well.
Minor_EightBits(code) == (code \div 256) % 256

Major(code) == code \div (4096 * 256)
Minor(code) == (code \div 256) % 4096
Patch(code) == code % 256

-----------------------------------------------------------------------------
(* The check.                                                              *)

DefaultMin(l) == IF l = "allocator" THEN << 9, 0, 0 >> ELSE << 4, 11, 0 >>
DefaultMax(l) == IF l = "allocator" THEN << 10, 0, 0 >> ELSE << 5, 0, 0 >>

CheckInit ==
  /\ library \in { "allocator", "thread" }
  /\ version \in Versions \cup {Undefined}
  /\ min \in Overrides \cup {Undefined}
  /\ max \in Overrides \cup {Undefined}
  /\ verdict = "none"

(* A library without a version is not checked.                             *)
Skip ==
  /\ verdict = "none" /\ version = Undefined
  /\ verdict' = "unchecked"
  /\ UNCHANGED << library, version, min, max >>

(* #ifndef, for each bound on its own.                                     *)
DefineBounds ==
  /\ verdict = "none" /\ version # Undefined
  /\ min' = IF min = Undefined THEN DefaultMin(library) ELSE min
  /\ max' = IF max = Undefined THEN DefaultMax(library) ELSE max
  /\ verdict' = "bounded"
  /\ UNCHANGED << library, version >>

TooOld == Encode(version) < Encode(min)

\* Faulty variant: the maximum itself is accepted.
TooNew_AcceptsMaximum == Encode(version) > Encode(max)

TooNew == Encode(version) >= Encode(max)

Check ==
  /\ verdict = "bounded"
  /\ verdict' = IF TooOld THEN "too old" ELSE IF TooNew THEN "too new" ELSE "accepted"
  /\ UNCHANGED << library, version, min, max >>

Compiled ==
  /\ verdict \in { "unchecked", "accepted", "too old", "too new" }
  /\ UNCHANGED checkVars

CheckNext == Skip \/ DefineBounds \/ Check \/ Compiled

CheckSpec == CheckInit /\ [][CheckNext]_checkVars

-----------------------------------------------------------------------------
(* Properties.                                                             *)

TypeOK ==
  /\ library \in { "allocator", "thread" }
  /\ version \in AllVersions \cup {Undefined}
  /\ min \in AllVersions \cup {Undefined}
  /\ max \in AllVersions \cup {Undefined}
  /\ verdict \in { "none", "unchecked", "bounded", "accepted", "too old", "too new" }
  /\ verdict \notin { "none", "unchecked" } => Undefined \notin { version, min, max }

(* The order of versions: the first part that differs decides.             *)
Before(v, w) ==
  \/ v[1] < w[1]
  \/ v[1] = w[1] /\ v[2] < w[2]
  \/ v[1] = w[1] /\ v[2] = w[2] /\ v[3] < w[3]

(* Comparing the packed words judges versions by their order: accepted is  *)
(* what is not before the minimum and is before the maximum, whatever the  *)
(* largest minor or patch on either side, and if the bounds exclude        *)
(* everything the message still names a bound that the version misses.     *)
VerdictIsRight ==
  /\ verdict = "accepted" => ~ Before(version, min) /\ Before(version, max)
  /\ verdict = "too old"  => Before(version, min)
  /\ verdict = "too new"  => ~ Before(version, max)

(* The getters take a version apart into the numbers it was made of.       *)
GettersDecode ==
  version # Undefined =>
    LET code == Encode(version)
    IN  << Major(code), Minor(code), Patch(code) >> = version

=============================================================================
