---------------------------- MODULE K3sProvision ----------------------------
(***************************************************************************)
(* k3s mode: K3sProvisioner._provision (provisioning/k3s.py) behind the    *)
(* gate of ProvisionGate.                                                  *)
(*                                                                         *)
(* The runs share the Kubernetes cluster and .dbre/credentials/.  The      *)
(* CloudNativePG operator brings up a database Cluster some time after its *)
(* manifest is applied.  SQL goes through a `kubectl port-forward` that    *)
(* may drop a connection before or after the server has done its work, and *)
(* _resilient then sends the statement again.                              *)
(*                                                                         *)
(* Requests also have a namespace, ns.  Generated passwords are the run    *)
(* that generated them.  Runs whose backend is not k3s do their            *)
(* provisioning elsewhere.                                                 *)
(***************************************************************************)
EXTENDS ProvisionGate

CONSTANTS
  Attempts,  \* how often _resilient tries a statement
  Legacy     \* the manifest of a Cluster without the request's database

ASSUME K3sAssumption ==
  /\ Attempts \in Nat \ {0}
  /\ Legacy \notin Requests \cup {None}

VARIABLES
  step,        \* the next step of _provision, for a run in its hook
  attempt,     \* how often the statement of this step was tried before
  forward,     \* whether the run has a live port-forward process
  namespaces,  \* the namespaces that exist
  manifest,    \* the manifest last applied for each Cluster
  serving,     \* the manifest each Cluster's instances run with
  databases,   \* the Clusters in which the application database exists
  settings,    \* the request whose ALTER DATABASE settings each Cluster has
  rolepw,      \* the password the login roles of each Cluster were created with
  credFile     \* the passwords in .dbre/credentials/<name>-<env>.env

kubernetes == <<namespaces, manifest, serving>>
postgres == <<databases, settings, rolepw>>
k3sVars == <<step, attempt, forward, kubernetes, postgres, credFile>>
vars == <<gateVars, k3sVars>>

Namespaces == {q.ns : q \in Requests}
Clusters == {<<q.ns, q.name>> : q \in Requests}
FullNames == {<<q.name, q.env>> : q \in Requests}

Cluster(r) == <<job[r].req.ns, job[r].req.name>>

\* Mutant: the credentials file is named after the application only.
NameOnly(r) == CHOOSE f \in FullNames : f[1] = job[r].req.name

\* full_name(): the name and the environment, without the namespace.
FullName(r) == <<job[r].req.name, job[r].req.env>>

Password == Runs \cup {None}

\* Some Clusters may exist already, with the "app" database that the operator
\* creates by default.
Init ==
  /\ GateInit
  /\ step = [r \in Runs |-> "operator"]
  /\ attempt = [r \in Runs |-> 0]
  /\ forward = [r \in Runs |-> FALSE]
  /\ manifest \in [Clusters -> {None, Legacy}]
  /\ serving = manifest
  /\ namespaces = {c[1] : c \in {d \in Clusters : manifest[d] # None}}
  /\ databases = {}
  /\ settings = [c \in Clusters |-> None]
  /\ rolepw = [c \in Clusters |-> None]
  /\ credFile = [f \in FullNames |-> None]

At(r, s) == stage[r] = "hook" /\ Backend(r) = "k3s" /\ step[r] = s

Go(r, s) ==
  /\ step' = [step EXCEPT ![r] = s]
  /\ UNCHANGED <<gateVars, attempt, forward>>

\* Mutant: the port-forward is not closed when the bootstrap raises.
RaiseWithoutClose(r) == HookRaises(r) /\ UNCHANGED <<step, attempt, forward>>

\* An exception; `finally` closes the tunnel.
Raise(r) ==
  /\ HookRaises(r)
  /\ forward' = [forward EXCEPT ![r] = FALSE]
  /\ UNCHANGED <<step, attempt>>

-----------------------------------------------------------------------------
(***************************************************************************)
(* The Cluster.  A kubectl call that times out may have had its effect.    *)
(***************************************************************************)
RequireOperator(r) ==
  /\ At(r, "operator")
  /\ Go(r, "namespace")
  /\ UNCHANGED <<kubernetes, postgres, credFile>>

\* _ensure_namespace: a lookup that fails reads as "does not exist".
FindNamespace(r) ==
  /\ At(r, "namespace")
  /\ \/ job[r].req.ns \in namespaces /\ Go(r, "apply")
     \/ Go(r, "create namespace")
  /\ UNCHANGED <<kubernetes, postgres, credFile>>

\* Refused for a namespace that exists by now (StepFails).
CreateNamespace(r) ==
  /\ At(r, "create namespace")
  /\ job[r].req.ns \notin namespaces
  /\ namespaces' = namespaces \cup {job[r].req.ns}
  /\ Go(r, "apply") \/ Raise(r)
  /\ UNCHANGED <<manifest, serving, postgres, credFile>>

Apply(r) ==
  /\ At(r, "apply")
  /\ manifest' = [manifest EXCEPT ![Cluster(r)] = job[r].req]
  /\ Go(r, "wait") \/ Raise(r)
  /\ UNCHANGED <<namespaces, serving, postgres, credFile>>

\* The operator brings the instances in line with the manifest.  The first
\* time it creates the database the manifest names (bootstrap.initdb).
Reconcile(c) ==
  /\ serving[c] # manifest[c]
  /\ serving' = [serving EXCEPT ![c] = manifest[c]]
  /\ databases' = IF serving[c] = None THEN databases \cup {c} ELSE databases
  /\ UNCHANGED <<gateVars, step, attempt, forward, namespaces, manifest, settings, rolepw, credFile>>

\* Mutant: any phase is good enough.
AnyPhase(r) ==
  /\ At(r, "wait")
  /\ Go(r, "lookup")
  /\ UNCHANGED <<kubernetes, postgres, credFile>>

\* _wait_until_healthy and _superuser_password.  The phase of a Cluster that
\* serves already may still be that of its previous manifest.
BecomesHealthy(r) ==
  /\ At(r, "wait")
  /\ serving[Cluster(r)] # None
  /\ Go(r, "lookup")
  /\ UNCHANGED <<kubernetes, postgres, credFile>>

-----------------------------------------------------------------------------
(***************************************************************************)
(* _bootstrap_postgres, every statement of which goes through _resilient.  *)
(* The extensions, whose failures are only reported, are left out.         *)
(***************************************************************************)
Statements == {"lookup", "create", "settings", "roles"}

AtStatement(r) == \E s \in Statements : At(r, s)

\* roles.sql.j2 creates the login roles that do not exist yet.
RolesAfter(r) == [rolepw EXCEPT ![Cluster(r)] = IF @ = None THEN r ELSE @]

\* What the statement of this step does on the server.
Effect(r) ==
  /\ databases' = IF step[r] = "create" THEN databases \cup {Cluster(r)} ELSE databases
  /\ settings' = IF step[r] = "settings" THEN [settings EXCEPT ![Cluster(r)] = job[r].req] ELSE settings
  /\ rolepw' = IF step[r] = "roles" THEN RolesAfter(r) ELSE rolepw

\* CREATE DATABASE is an error for a database that exists.
Refused(r) == step[r] = "create" /\ Cluster(r) \in databases

AfterStatement(r) ==
  CASE step[r] = "lookup" -> IF Cluster(r) \in databases THEN "settings" ELSE "create"
    [] step[r] = "create" -> "settings"
    [] step[r] = "settings" -> "roles"
    [] step[r] = "roles" -> "persist"

\* _PortForwardTunnel.ensure spawns the process if there is none.
SpawnForward(r) ==
  /\ AtStatement(r)
  /\ ~forward[r]
  /\ forward' = [forward EXCEPT ![r] = TRUE]
  /\ UNCHANGED <<gateVars, step, attempt, kubernetes, postgres, credFile>>

Succeeds(r) ==
  /\ AtStatement(r) /\ forward[r]
  /\ ~Refused(r)
  /\ Effect(r)
  /\ step' = [step EXCEPT ![r] = AfterStatement(r)]
  /\ attempt' = [attempt EXCEPT ![r] = 0]
  /\ UNCHANGED <<gateVars, forward, kubernetes, credFile>>

\* Mutant: the attempts are not counted.
RetryForEver(r) ==
  /\ AtStatement(r) /\ forward[r]
  /\ Effect(r) \/ UNCHANGED postgres
  /\ \E alive \in BOOLEAN : forward' = [forward EXCEPT ![r] = alive]
  /\ UNCHANGED <<gateVars, step, attempt, kubernetes, credFile>>

\* The connection drops, before the server has run the statement or after.
Drops(r) ==
  /\ AtStatement(r) /\ forward[r]
  /\ Effect(r) \/ UNCHANGED postgres
  /\ IF attempt[r] + 1 < Attempts
     THEN /\ attempt' = [attempt EXCEPT ![r] = @ + 1]
          /\ \E alive \in BOOLEAN : forward' = [forward EXCEPT ![r] = alive]
          /\ UNCHANGED <<gateVars, step>>
     ELSE Raise(r)
  /\ UNCHANGED <<kubernetes, credFile>>

\* psql is stopped at its timeout, which is not retried.
PsqlTimesOut(r) ==
  /\ AtStatement(r) /\ forward[r]
  /\ Effect(r)
  /\ Raise(r)
  /\ UNCHANGED <<kubernetes, credFile>>

PersistCredentials(r) ==
  /\ At(r, "persist")
  /\ credFile' = [credFile EXCEPT ![FullName(r)] = r]
  /\ HookReturns(r)
  /\ forward' = [forward EXCEPT ![r] = FALSE]
  /\ UNCHANGED <<step, attempt, kubernetes, postgres>>

\* A tool is missing, a call fails without effect, the Cluster is not healthy
\* in time, the tunnel cannot be established, or a file cannot be written.
StepFails(r) ==
  /\ Raise(r)
  /\ Backend(r) = "k3s"
  /\ UNCHANGED <<kubernetes, postgres, credFile>>

-----------------------------------------------------------------------------
K3sStep(r) ==
  \/ RequireOperator(r) \/ FindNamespace(r) \/ CreateNamespace(r) \/ Apply(r) \/ BecomesHealthy(r)
  \/ SpawnForward(r) \/ Succeeds(r) \/ Drops(r) \/ PsqlTimesOut(r)
  \/ PersistCredentials(r) \/ StepFails(r)

ElsewhereStep(r) ==
  /\ Backend(r) # "k3s"
  /\ HookReturns(r) \/ HookRaises(r)
  /\ UNCHANGED k3sVars

Progress(r) ==
  \/ GateStep(r) /\ UNCHANGED k3sVars
  \/ stage[r] = "hook" /\ (K3sStep(r) \/ ElsewhereStep(r))

\* Ctrl-C runs the `finally`; SIGKILL leaves the port-forward behind.
KillRun(r) ==
  /\ Kill(r)
  /\ forward' \in {forward, [forward EXCEPT ![r] = FALSE]}
  /\ UNCHANGED <<step, attempt, kubernetes, postgres, credFile>>

Next ==
  \/ \E r \in Runs : Progress(r) \/ KillRun(r) \/ (Start(r) /\ UNCHANGED k3sVars)
  \/ \E c \in Clusters : Reconcile(c)

Spec == Init /\ [][Next]_vars

\* A process that is not killed keeps executing: every call it makes returns
\* or times out.  Nothing is assumed of the operator.
FairSpec == Spec /\ \A r \in Runs : WF_vars(Progress(r))

-----------------------------------------------------------------------------
(***************************************************************************)
(* Properties                                                              *)
(***************************************************************************)

Manifest == Requests \cup {None, Legacy}

TypeOK ==
  /\ GateTypeOK
  /\ step \in [Runs -> {"operator", "namespace", "create namespace", "apply", "wait",
                        "persist"} \cup Statements]
  /\ attempt \in [Runs -> 0..Attempts - 1]
  /\ forward \in [Runs -> BOOLEAN]
  /\ namespaces \subseteq Namespaces
  /\ manifest \in [Clusters -> Manifest] /\ serving \in [Clusters -> Manifest]
  /\ databases \subseteq Clusters
  /\ settings \in [Clusters -> Requests \cup {None}]
  /\ rolepw \in [Clusters -> Password]
  /\ credFile \in [FullNames -> Password]

Traces == ({rolepw[c] : c \in Clusters} \cup {credFile[f] : f \in FullNames}) \ {None}

Applied ==
  ({manifest[c] : c \in Clusters} \cup {serving[c] : c \in Clusters}
     \cup {settings[c] : c \in Clusters}) \ {None, Legacy}

\* Nothing in Kubernetes or on a server comes from a run that the gate refused
\* or whose backend is not k3s, and no request that fails the gate is applied,
\* now or when the operator gets to it.
OnlyGatedLeaveTraces ==
  /\ \A r \in Traces : Gated(r) /\ Backend(r) = "k3s"
  /\ Applied \subseteq Compliant \cap Ready

\* What a run asked for exists.
Equipped(r) ==
  /\ job[r].req.ns \in namespaces
  /\ manifest[Cluster(r)] # None /\ serving[Cluster(r)] # None
  /\ Cluster(r) \in databases
  /\ settings[Cluster(r)] # None /\ rolepw[Cluster(r)] # None /\ credFile[FullName(r)] # None

\* A success, once recorded, is backed by a Cluster that serves, with the
\* database, its settings, its login roles and the credentials file, however
\* often the tunnel dropped a statement and whatever other runs do.
SuccessIsBacked == \A r \in Runs : Succeeded(r) /\ Backend(r) = "k3s" => Equipped(r)

\* No other run works on the Cluster of r, or on a request of its full name.
Alone(r) ==
  \A o \in Runs \ {r} : job[o] # None =>
    /\ Cluster(o) # Cluster(r)
    /\ <<job[o].req.name, job[o].req.env>> # <<job[r].req.name, job[r].req.env>>

\* The credentials saved by a run that is alone are those of the login roles,
\* also when the role script was sent several times.
SoleRunCredentialsWork ==
  \A r \in Runs :
    Succeeded(r) /\ Backend(r) = "k3s" /\ Alone(r) => credFile[FullName(r)] = rolepw[Cluster(r)]

\* A run that has ended leaves no port-forward process behind, however it
\* ended, unless it was killed.
ForwardsClosed == \A r \in Runs : forward[r] => stage[r] \in {"hook", "killed"}

\* A run ends, also when the tunnel drops every statement, the operator never
\* brings the Cluster up, or another run changes the Cluster under it.
EveryRunEnds == \A r \in Runs : stage[r] \in InFlight ~> stage[r] \notin InFlight

-----------------------------------------------------------------------------
(***************************************************************************)
(* A statement of the repository that the code does not meet.              *)
(***************************************************************************)

\* "Re-running provision after a failure -- safe. [...] retrying picks up
\* wherever it left off": a run that succeeds saves the credentials of the
\* login roles, whatever the runs that failed before it have left behind.
RetryCredentialsWork ==
  \A r \in Runs :
    /\ Succeeded(r) /\ Backend(r) = "k3s"
    /\ \A o \in Runs \ {r} : stage[o] = "recorded" /\ ~Succeeded(o)
    => credFile[FullName(r)] = rolepw[Cluster(r)]

-----------------------------------------------------------------------------
(***************************************************************************)
(* The inductive invariant behind the safety properties.                   *)
(***************************************************************************)

\* The steps that find the settings in place, the database, a Cluster that
\* serves, a manifest, and a namespace.
WithSettings == {"roles", "persist"}
WithDatabase == {"settings"} \cup WithSettings
WithServer == {"lookup", "create"} \cup WithDatabase
WithManifest == {"wait"} \cup WithServer
WithNamespace == {"apply"} \cup WithManifest

\* What a run that has come to its present step can rely on.
Backed(r) ==
  /\ stage[r] \in {"idle", "policy", "readiness"} => step[r] = "operator"
  /\ stage[r] = "hook" /\ Backend(r) # "k3s" => step[r] = "operator" /\ ~forward[r]
  /\ stage[r] = "hook" =>
       /\ step[r] \in WithNamespace => job[r].req.ns \in namespaces
       /\ step[r] \in WithManifest => manifest[Cluster(r)] # None
       /\ step[r] \in WithServer => serving[Cluster(r)] # None
       /\ step[r] \in WithDatabase => Cluster(r) \in databases
       /\ step[r] \in WithSettings => settings[Cluster(r)] # None
       /\ step[r] = "persist" => rolepw[Cluster(r)] # None

StepIsBacked == \A r \in Runs : Backed(r)

\* Instances serve only where a manifest is, so that the operator never takes
\* a Cluster away.
ManifestFirst == \A c \in Clusters : serving[c] # None => manifest[c] # None

\* Passwords are kept where the run that generated them works.
OwnNames ==
  /\ \A c \in Clusters : rolepw[c] # None => job[rolepw[c]] # None /\ Cluster(rolepw[c]) = c
  /\ \A f \in FullNames : credFile[f] # None => job[credFile[f]] # None /\ FullName(credFile[f]) = f

K3sInv ==
  /\ TypeOK
  /\ GateInv
  /\ StepIsBacked
  /\ ManifestFirst
  /\ SuccessIsBacked
  /\ OnlyGatedLeaveTraces
  /\ OwnNames
  /\ ForwardsClosed

=============================================================================
