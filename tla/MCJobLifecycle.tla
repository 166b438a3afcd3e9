--------------------------- MODULE MCJobLifecycle ---------------------------
(***************************************************************************)
(* Instances of JobLifecycle for TLC: which kind of job each job is.       *)
(***************************************************************************)
EXTENDS JobLifecycleInvariant

CONSTANTS j1, j2  \* the model values of Job

Video == [j \in {j1} |-> "video"]
ImageAndVideo == [j \in {j1, j2} |-> IF j = j1 THEN "image" ELSE "video"]
=============================================================================
