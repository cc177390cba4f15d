-------------------------------- MODULE Fetch --------------------------------
(***************************************************************************)
(* lore-bin's fetch_binary_from: a build script downloads the release's    *)
(* archive into OUT_DIR, with a fresh curl process per attempt, extracts   *)
(* it there and takes the library's path.  OUT_DIR outlives the script: a  *)
(* failed or killed one leaves what it had got to, and the next finds it.  *)
(* The archive's name has the version in it, the library's has not.        *)
(***************************************************************************)
EXTENDS Integers

CONSTANT ATTEMPTS

ASSUME AttemptsAssumption == ATTEMPTS \in Nat \ {0}

VARIABLES
  fetch,        \* where the script is: "idle", "download", "extract",
                \* "fetched", or "failed", from where it may be run again
  attempt,      \* download's loop variable, 0 outside of the loop
  archive,      \* the archive in OUT_DIR: "none", "part" of it, or "whole"
  libraryFile   \* the library there: "none", of an "older" release, "torn",
                \* or the "release"

fetchVars == <<fetch, attempt, archive, libraryFile>>

FetchTypeOK ==
  /\ fetch \in {"idle", "download", "extract", "fetched", "failed"}
  /\ attempt \in 0..ATTEMPTS
  /\ archive \in {"none", "part", "whole"}
  /\ libraryFile \in {"none", "older", "torn", "release"}

FetchInit ==
  /\ fetch = "idle"
  /\ attempt = 0
  /\ archive = "none"
  /\ libraryFile \in {"none", "older"}

FetchBegin ==
  /\ fetch \in {"idle", "failed"}
  /\ fetch' = "download"
  /\ attempt' = 1
  /\ UNCHANGED <<archive, libraryFile>>

(* An attempt overwrites the file from its first byte on, and one that     *)
(* fails before there is a byte leaves what an earlier one had left.       *)
Curl(success) ==
  /\ fetch = "download"
  /\ IF success
     THEN archive' = "whole" /\ fetch' = "extract" /\ attempt' = 0
     ELSE /\ archive' \in {archive, "part"}
          /\ IF attempt = ATTEMPTS
             THEN fetch' = "failed" /\ attempt' = 0
             ELSE fetch' = fetch /\ attempt' = attempt + 1
  /\ UNCHANGED libraryFile

(* Variant: the path is returned whatever tar's status was.                *)
ExtractUnchecked(success) ==
  /\ fetch = "extract"
  /\ success => archive = "whole"
  /\ libraryFile' \in IF success THEN {"release"} ELSE {libraryFile, "torn"}
  /\ fetch' = "fetched"
  /\ UNCHANGED <<attempt, archive>>

(* tar or unzip, over whatever library is there; the panic fails the build.*)
Extract(success) ==
  /\ fetch = "extract"
  /\ success => archive = "whole"
  /\ libraryFile' \in IF success THEN {"release"} ELSE {libraryFile, "torn"}
  /\ fetch' = IF success THEN "fetched" ELSE "failed"
  /\ UNCHANGED <<attempt, archive>>

(* The script is killed, or a tool cannot be started.                      *)
FetchKilled ==
  /\ fetch \in {"download", "extract"}
  /\ archive' \in IF fetch = "download" THEN {archive, "part"} ELSE {archive}
  /\ libraryFile' \in IF fetch = "extract" THEN {libraryFile, "torn"} ELSE {libraryFile}
  /\ fetch' = "failed"
  /\ attempt' = 0

FetchNext ==
  \/ FetchBegin
  \/ \E success \in BOOLEAN : Curl(success) \/ Extract(success)
  \/ FetchKilled

(***************************************************************************)
(* A path that fetch_binary returns is the whole library of the release    *)
(* asked for, whatever failed downloads, extractions and earlier releases  *)
(* have left in OUT_DIR under the same name.                               *)
(***************************************************************************)
FetchedIsTheRelease == fetch = "fetched" => libraryFile = "release"
=============================================================================
