------------------------- MODULE BehaviorDiscovery -------------------------
(***************************************************************************)
(* discover_behavior_surface: ask the gold program for help, collect the   *)
(* examples of the documentation and of the help text, plan at most        *)
(* MaxProbes of them, run those that the policy calls safe, and write the  *)
(* plan, what was observed and the surface.  The plan is made for the word *)
(* "program"; what is run starts with the path of the gold executable.     *)
(* Later discoveries of the task write over the files of earlier ones.     *)
(***************************************************************************)
EXTENDS Integers, Sequences, SequencesExt, ExecutionPolicy

CONSTANTS
  Documentations,  \* sequences of examples in documents and native tests
  HelpTexts,       \* what the program says of itself: usages and flags
  RuleSets,        \* what profiles say of commands
  MaxProbes,       \* MAX_PROBES
  MaxDiscoveries   \* bound on the discoveries of the task

ASSUME DiscoveryAssumption ==
  /\ MaxProbes \in Nat \ {0}
  /\ MaxDiscoveries \in Nat
  /\ Documentations \subseteq Seq(STRING)
  /\ \A h \in HelpTexts : h.usages \in Seq(STRING) /\ h.flags \subseteq STRING

VARIABLES
  discovery,   \* how many there were
  inputs,      \* of the discovery: documentation, help text and rules
  phase,
  attempt,     \* the help command it is at
  heard,       \* a help command has answered
  planned,     \* the probes: arguments and whether they are safe
  position,    \* the probe it is at
  behaviors,   \* the arguments of the recorded behaviours
  files,       \* planned, observed and surface
  unanswered   \* history: probes of this discovery that had no answer

discoveryVars == <<discovery, inputs, phase, attempt, heard, planned, position,
          behaviors, files, unanswered>>
task  == <<discovery, inputs>>
probing == <<planned, position, behaviors, unanswered>>

HelpArgs == <<"--help", "-h", "--version", "">>

Phases == {"idle", "help", "probe", "write plan", "write observed",
           "write surface", "returned"}

NoFile == [discovery |-> 0, probes |-> <<>>, behaviors |-> <<>>]

Running == phase \notin {"idle", "returned"}

\* Probes are never more than MAX_PROBES, and behaviours never more than those.
DiscoveryTypeOK ==
  /\ discovery \in 0 .. MaxDiscoveries
  /\ phase \in Phases
  /\ attempt \in 1 .. Len(HelpArgs) + 1
  /\ Len(planned) <= MaxProbes
  /\ position \in 1 .. Len(planned) + 1
  /\ Len(behaviors) < position
  /\ \A f \in DOMAIN files : files[f].discovery \in 0 .. discovery

DiscoveryInit ==
  /\ discovery = 0
  /\ inputs \in [docs : Documentations, help : HelpTexts, rules : RuleSets]
  /\ phase = "idle"
  /\ attempt = 1
  /\ heard = FALSE
  /\ planned = <<>>
  /\ position = 1
  /\ behaviors = <<>>
  /\ files = [f \in {"planned", "observed", "surface"} |-> NoFile]
  /\ unanswered = {}

OfGold(args)   == [root |-> "path", args |-> args]
AsPlanned(args) == [root |-> "program", args |-> args]

\* The profile, the documents and the program may be others than before.
Discover ==
  /\ ~ Running
  /\ discovery < MaxDiscoveries
  /\ discovery' = discovery + 1
  /\ inputs' \in [docs : Documentations, help : HelpTexts, rules : RuleSets]
  /\ phase' = "help"
  /\ attempt' = 1
  /\ heard' = FALSE
  /\ planned' = <<>>
  /\ position' = 1
  /\ behaviors' = <<>>
  /\ unanswered' = {}
  /\ UNCHANGED files

--------------------------------------------------------------------------------
(* _probe_help: a blocked command or one out of time is passed over; any other
   failure to run it, or output that is no text, ends the discovery. *)

AskingHelp == phase = "help" /\ attempt <= Len(HelpArgs)
HelpAllowed == IsCommandAllowed(OfGold(HelpArgs[attempt]), "probe", inputs.rules)

HelpAnswers ==
  /\ AskingHelp /\ HelpAllowed
  /\ heard' = TRUE
  /\ attempt' = attempt + 1
  /\ UNCHANGED <<task, phase, probing, files>>

\* PBGenError or TimeoutExpired.
HelpPassedOver ==
  /\ AskingHelp
  /\ attempt' = attempt + 1
  /\ UNCHANGED <<task, phase, heard, probing, files>>

HelpRaises ==
  /\ AskingHelp /\ HelpAllowed
  /\ phase' = "idle"
  /\ UNCHANGED <<task, attempt, heard, probing, files>>

--------------------------------------------------------------------------------
\* The elements of a sequence that are kept, in their order: what SelectSeq gives,
\* in a form that can be reasoned about.
KeepOnly(s, kept) ==
  LET upTo[n \in 0 .. Len(s)] ==
        IF n = 0 THEN <<>>
        ELSE IF s[n] \in kept THEN Append(upTo[n - 1], s[n]) ELSE upTo[n - 1]
  IN  upTo[Len(s)]

\* Flags are found in the documents and in the help text.
Mentioned ==
  ToSet(inputs.docs) \cup (IF heard THEN inputs.help.flags ELSE {})

\* _help_derived_examples: --help is always among the commands.
HelpDerived == KeepOnly(<<"--help", "-h", "--version">>, {"--help"} \cup Mentioned)

Examples ==
  inputs.docs \o (IF heard THEN inputs.help.usages ELSE <<>>) \o HelpDerived

\* The arguments no earlier example has.
FirstTime(examples, i) == \A j \in 1 .. i - 1 : examples[j] # examples[i]

\* The first different examples, unsafe ones among them.
Chosen(examples) ==
  LET places == KeepOnly([i \in DOMAIN examples |-> i],
                         {i \in DOMAIN examples : FirstTime(examples, i)})
  IN  [k \in 1 .. (IF Len(places) < MaxProbes THEN Len(places) ELSE MaxProbes)
         |-> examples[places[k]]]

\* Mutant: the plan asks about a build.
ProbeOfBuild(args) ==
  [args |-> args,
   safe |-> IsCommandAllowed([AsPlanned(args) EXCEPT !.root = "make"], "build",
                             inputs.rules)]

Probe(args) ==
  [args |-> args,
   safe |-> IsCommandAllowed(AsPlanned(args), "probe", inputs.rules)]

\* _plan_command_probes.
Plan ==
  /\ phase = "help" /\ attempt > Len(HelpArgs)
  /\ LET chosen == Chosen(Examples)
     IN  planned' = [i \in DOMAIN chosen |-> Probe(chosen[i])]
  /\ phase' = "probe"
  /\ UNCHANGED <<task, attempt, heard, position, behaviors, files, unanswered>>

--------------------------------------------------------------------------------
(* _execute_safe_probes: the policy decides again, on the path of the program.
   Here OSError is passed over as well. *)

AtProbe == phase = "probe" /\ position <= Len(planned)
Runnable ==
  /\ planned[position].safe
  /\ IsCommandAllowed(OfGold(planned[position].args), "probe", inputs.rules)

SkipProbe ==
  /\ AtProbe /\ ~ Runnable
  /\ position' = position + 1
  /\ UNCHANGED <<task, phase, attempt, heard, planned, behaviors, files, unanswered>>

ProbeAnswers ==
  /\ AtProbe /\ Runnable
  /\ behaviors' = Append(behaviors, planned[position].args)
  /\ position' = position + 1
  /\ UNCHANGED <<task, phase, attempt, heard, planned, files, unanswered>>

\* TimeoutExpired or OSError.
ProbePassedOver ==
  /\ AtProbe /\ Runnable
  /\ unanswered' = unanswered \cup {planned[position].args}
  /\ position' = position + 1
  /\ UNCHANGED <<task, phase, attempt, heard, planned, behaviors, files>>

\* Output that is no text.
ProbeRaises ==
  /\ AtProbe /\ Runnable
  /\ phase' = "idle"
  /\ UNCHANGED <<task, attempt, heard, probing, files>>

EndProbes ==
  /\ phase = "probe" /\ position > Len(planned)
  /\ phase' = "write plan"
  /\ UNCHANGED <<task, attempt, heard, probing, files>>

--------------------------------------------------------------------------------
ArgsOf(probes) == [i \in DOMAIN probes |-> probes[i].args]
Safe(probes)   == ArgsOf(KeepOnly(probes, {p \in ToSet(probes) : p.safe}))

WriteFile(name, probes, observed) ==
  /\ files' = [files EXCEPT
       ![name] = [discovery |-> discovery, probes |-> probes, behaviors |-> observed]]
  /\ UNCHANGED <<task, attempt, heard, probing>>

\* Mutant: what was observed is written before the plan.
WriteObservedFirst ==
  /\ phase = "write plan"
  /\ WriteFile("observed", Safe(planned), behaviors)
  /\ phase' = "write observed"

\* _write_probe_artifacts, and behavior_surface.yaml.
WritePlan ==
  /\ phase = "write plan"
  /\ WriteFile("planned", ArgsOf(planned), <<>>)
  /\ phase' = "write observed"

WriteObserved ==
  /\ phase = "write observed"
  /\ WriteFile("observed", Safe(planned), behaviors)
  /\ phase' = "write surface"

WriteSurface ==
  /\ phase = "write surface"
  /\ WriteFile("surface", <<>>, behaviors)
  /\ phase' = "returned"

\* The process ends between two steps.
KillDiscovery ==
  /\ Running
  /\ phase' = "idle"
  /\ UNCHANGED <<task, attempt, heard, probing, files>>

Step ==
  \/ HelpAnswers \/ HelpPassedOver \/ HelpRaises \/ Plan
  \/ SkipProbe \/ ProbeAnswers \/ ProbePassedOver \/ ProbeRaises \/ EndProbes
  \/ WritePlan \/ WriteObserved \/ WriteSurface

DiscoveryNext == Discover \/ Step \/ KillDiscovery

DiscoverySpec == DiscoveryInit /\ [][DiscoveryNext]_discoveryVars

--------------------------------------------------------------------------------
(* What the files say of each other, also after a discovery that died between
   two writes: the surface is never newer than the observations it holds, nor
   these than the plan, and files of one discovery tell the same story - the
   recorded behaviours are those of different safe probes, in their order. *)
IsSelectionOf(some, all) ==
  \E kept \in SUBSET ToSet(all) : some = KeepOnly(all, kept)

FilesAgree ==
  LET p == files["planned"]
      o == files["observed"]
      s == files["surface"]
  IN  /\ s.discovery <= o.discovery /\ o.discovery <= p.discovery
      /\ o.discovery = p.discovery => IsSelectionOf(o.probes, p.probes)
      /\ s.discovery = o.discovery => s.behaviors = o.behaviors
      /\ IsSelectionOf(o.behaviors, o.probes)
      /\ IsInjective(p.probes)

\* Every pattern of the profile looks at the arguments of a command only.
PatternsOnArguments ==
  \A pattern \in inputs.rules.allow \cup inputs.rules.deny : \A c \in pattern :
    {OfGold(c.args), AsPlanned(c.args)} \subseteq pattern

\* Whatever a returned discovery reports as a safe probe has been run: it has a
\* behaviour, unless the program did not answer.  _plan_command_probes and
\* _execute_safe_probes show the patterns of a profile different first words,
\* so this is true only of patterns that look at the arguments.
SafeProbesAreRun ==
  phase = "returned" /\ PatternsOnArguments =>
    ToSet(files["observed"].probes)
      = ToSet(files["observed"].behaviors) \cup unanswered

\* A help text that could be had reaches the plan: when some help command
\* answered and the plan is not full, what the program says of itself is in it.
HelpReachesThePlan ==
  /\ phase = "returned" /\ heard
  /\ Len(files["planned"].probes) < MaxProbes
  => /\ ToSet(inputs.help.usages) \subseteq ToSet(files["planned"].probes)
     /\ "--help" \in ToSet(files["planned"].probes)

\* Plan, observations and surface on disk (behavioral_surface.py:297-320).
ArtifactsAgree == DiscoveryTypeOK /\ FilesAgree

\* What was heard is planned, and what is planned as safe is carried out
\* (behavioral_surface.py:181-294).
PlanIsCarriedOut == HelpReachesThePlan /\ SafeProbesAreRun
=============================================================================
