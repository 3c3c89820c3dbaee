-------------------------- MODULE RequestDecision ---------------------------
(***************************************************************************)
(* How a request is decided: the loading, policy and readiness steps that  *)
(* `dbre request validate`, `readiness assess` and `request provision`     *)
(* share (cli/main.py), while the user tries one option after another and  *)
(* the policy files change under the command.                              *)
(*                                                                         *)
(* The files of an environment's rules and of the thresholds may be        *)
(* missing, which the code takes for "no rules" and "threshold 0".         *)
(***************************************************************************)
EXTENDS RequestPolicy, TLC

CONSTANTS
  Templates,   \* the request files
  NamedFlags,  \* <<flag, value>> that may be given
  SetOptions,  \* <<field, value>> that may be given to --set
  Additions,   \* the extensions that may be added
  MaxOptions,  \* how many options a command has at most
  GlobalTags,  \* global_tags of policies/tagging.yaml, whatever keys it has
  None

ASSUME DecisionAssumption ==
  /\ None \notin Templates /\ MaxOptions \in Nat
  /\ \A f \in NamedFlags : f[1] \in DOMAIN NamedFieldPaths

VARIABLES
  template, named, setValues, added,  \* the command
  files,    \* which of "rules" and "thresholds" are in place
  stage,    \* how far the command has come
  request,  \* the request it loaded
  ruled,    \* whether the policies it read had the environment's rules
  scored    \* whether the thresholds it read were there

command == <<template, named, setValues, added>>
verdicts == <<stage, request, ruled, scored>>
vars == <<command, files, verdicts>>

Files == {"rules", "thresholds"}

Ended == {"invalid", "violations", "not ready", "accepted"}

Init ==
  /\ template \in Templates
  /\ named = <<>> /\ setValues = <<>> /\ added = {}
  /\ files = Files
  /\ stage = "typed"
  /\ request = None
  /\ ruled = TRUE /\ scored = TRUE

-----------------------------------------------------------------------------
(***************************************************************************)
(* The user types another option; a file comes or goes.                    *)
(***************************************************************************)
Options == Cardinality(DOMAIN named) + Cardinality(DOMAIN setValues) + Cardinality(added)

GiveFlag ==
  /\ \E f \in NamedFlags : named' = Over(f[1] :> f[2], named)
  /\ UNCHANGED <<template, setValues, added>>

GiveSet ==
  /\ \E s \in SetOptions : setValues' = Over(s[1] :> s[2], setValues)
  /\ UNCHANGED <<template, named, added>>

GiveExtension ==
  /\ \E x \in Additions : added' = added \cup {x}
  /\ UNCHANGED <<template, named, setValues>>

Retype ==
  /\ stage \in Ended \cup {"typed"}
  /\ Options < MaxOptions
  /\ GiveFlag \/ GiveSet \/ GiveExtension
  /\ stage' = "typed" /\ request' = None
  /\ ruled' = TRUE /\ scored' = TRUE
  /\ UNCHANGED files

MoveFile ==
  /\ \E f \in Files : files' = IF f \in files THEN files \ {f} ELSE files \cup {f}
  /\ UNCHANGED <<command, verdicts>>

-----------------------------------------------------------------------------
(***************************************************************************)
(* The command.                                                            *)
(***************************************************************************)
Document == Customized(template, named, setValues, added)

Load ==
  /\ stage = "typed"
  /\ IF IsValid(Document)
     THEN stage' = "loaded" /\ request' = Validated(Document)
     ELSE stage' = "invalid" /\ UNCHANGED request
  /\ UNCHANGED <<command, files, ruled, scored>>

\* PolicyEngine.evaluate loads the files at this moment.
EvaluatePolicy ==
  /\ stage = "loaded"
  /\ ruled' = ("rules" \in files)
  /\ stage' = IF Passes(request, ruled') THEN "compliant" ELSE "violations"
  /\ UNCHANGED <<command, files, request, scored>>

AssessReadiness ==
  /\ stage = "compliant"
  /\ scored' = ("thresholds" \in files)
  /\ stage' = IF IsReady(request, GlobalTags, scored') THEN "accepted" ELSE "not ready"
  /\ UNCHANGED <<command, files, request, ruled>>

Next == Retype \/ MoveFile \/ Load \/ EvaluatePolicy \/ AssessReadiness

Spec == Init /\ [][Next]_vars

-----------------------------------------------------------------------------
(***************************************************************************)
(* Properties                                                              *)
(***************************************************************************)

TypeOK ==
  /\ template \in Templates
  /\ added \subseteq Additions
  /\ files \subseteq Files
  /\ stage \in Ended \cup {"typed", "loaded", "compliant"}
  /\ request # None => DOMAIN request = Fields
  /\ {ruled, scored} \subseteq BOOLEAN

\* The two judges agree: a request that passes all the rules of its
\* environment scores enough for it, whatever the thresholds and weights of
\* the one and the limits of the other, so that `request validate` never
\* passes what `request provision` then finds not ready.
PolicyImpliesReadiness == stage = "not ready" => ~ruled

Essentials ==
  {"multi_az", "backup_retention", "deletion_protection", "monitoring", "audit_logging",
   "approvals", "slo_defined"}

\* Either file is enough: a production request that is accepted while one of
\* the two is missing lacks no more than one of what the rules call not
\* negotiable.
OneFileIsEnough ==
  stage = "accepted" /\ Prod(request) /\ (ruled \/ scored) =>
    Cardinality(Essentials \ Checked(request, GlobalTags)) <= (IF ruled THEN 0 ELSE 1)

\* What an owner may do to make a request safer.
Hardenings(q) ==
  {[q EXCEPT ![f] = TRUE] : f \in {"multi_az", "deletion_protection", "enhanced_monitoring"}}
    \cup {[q EXCEPT !.backup_retention_days = d] : d \in {b \in {7, 30, 35} : b >= q.backup_retention_days}}
    \cup {[q EXCEPT !.availability_target = a] : a \in {b \in {9900, 9990, 10000} : b >= q.availability_target}}
    \cup {[q EXCEPT !.extensions = @ \cup {"pgaudit"}],
          [q EXCEPT !.approvals = Append(@, "CHG-2")],
          [q EXCEPT !.statement_timeout = 1, !.idle_timeout = 1]}

\* An accepted request that is made safer in one respect, and so in several,
\* is not refused for it.
HardeningNeverHurts ==
  stage = "accepted" =>
    \A q \in Hardenings(request) : Passes(q, ruled) /\ IsReady(q, GlobalTags, scored)

\* No option, and no tag or policy file, can change what the six required
\* tags of an accepted request say of its name, owner and classification: not
\* a custom tag of the same key, and not a global one.
RequiredTagsHold ==
  stage = "accepted" =>
    \A k \in DOMAIN RequiredTags(request) :
      ResolveTags(request, GlobalTags)[k] = RequiredTags(request)[k]

-----------------------------------------------------------------------------
(***************************************************************************)
(* The inductive invariant behind them: what each stage has passed.        *)
(***************************************************************************)
Loaded(q) == DOMAIN q = Fields /\ WellFormed(q)

StagesPassed ==
  /\ stage \in Ended \cup {"typed", "loaded", "compliant"}
  /\ {ruled, scored} \subseteq BOOLEAN
  /\ stage \in {"typed", "invalid"} => request = None
  /\ stage \notin {"typed", "invalid"} => Loaded(request)
  /\ stage \in {"compliant", "not ready", "accepted"} => Passes(request, ruled)
  /\ stage = "not ready" => ~IsReady(request, GlobalTags, scored)
  /\ stage = "accepted" => IsReady(request, GlobalTags, scored)

=============================================================================
