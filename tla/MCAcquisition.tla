--------------------------- MODULE MCAcquisition ---------------------------
(***************************************************************************)
(* Instances of QuietAcquisition for TLC.  In a quiet course the snapshot  *)
(* may also be a body that admission, the adapter or the validator refuses;*)
(* in the others one compile is enough.                                    *)
(***************************************************************************)
EXTENDS QuietAcquisition, FiniteSets

CONSTANT only   \* the compile that also runs beside other fetches

Refused == Bodies \ Compilable

AllFaults == {"network", "kill", "operator"}
NoFaults  == {}

MCInit == /\ CourseInit
          /\ ~quiet => xml \notin Refused /\ \A f \in Fetchers : body[f] \notin Refused

RaceNext == \/ \E f \in Fetchers : Fetch(f) /\ body'[f] \notin Refused
            \/ \E v \in Validators : Validate(v)
            \/ Compile(only)
            \/ Delete

MCNext == /\ IF quiet THEN QuietNext ELSE RaceNext
          /\ UNCHANGED quiet

(* A compile is a sequential program that takes its next step.             *)
MCSpec == /\ MCInit /\ [][MCNext]_courseVars
          /\ \A c \in Compilers : WF_courseVars(quiet /\ Compile(c) /\ UNCHANGED quiet)

----------------------------------------------------------------------------
(* A compile that starts on a snapshot that adapter and validator take,    *)
(* with a receipt that agrees or with none asked for, gets its corpus: the *)
(* single fetch and the validators beside it do not take that away.        *)
SavedSourceCompiles == \A c \in Compilers : quiet /\ Ready(c) ~> comp[c] = "ok"
=============================================================================
