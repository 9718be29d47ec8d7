---------------------------- MODULE MCObservation ----------------------------
(***************************************************************************)
(* A program is observed in one of two ways that share no file: behaviours *)
(* of it are discovered, or coverage of it is measured.  A behaviour of    *)
(* the specification is of one way, and the other stays where it starts.   *)
(***************************************************************************)
EXTENDS MCBehaviorDiscovery, MCCoverageMeasurement

\* Discovery knows no project, and a measurement no documents.
Unmeasured == runs = 0 /\ project = CHOOSE p \in Projects3 : TRUE
Unexplored ==
  /\ discovery = 0
  /\ inputs = CHOOSE i \in [docs : Documentations, help : HelpTexts, rules : RuleSets] : TRUE

ObservationInit == DiscoveryInit /\ Init /\ (Unmeasured \/ Unexplored)

ObservationNext ==
  \/ Unmeasured /\ DiscoveryNext /\ UNCHANGED vars
  \/ Unexplored /\ MCNext /\ UNCHANGED discoveryVars

ObservationSpec == ObservationInit /\ [][ObservationNext]_<<discoveryVars, vars>>
=============================================================================
