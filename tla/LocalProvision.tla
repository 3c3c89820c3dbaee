--------------------------- MODULE LocalProvision ---------------------------
(***************************************************************************)
(* Local Docker mode: LocalDockerProvisioner._provision                    *)
(* (provisioning/local_docker.py) behind the gate of ProvisionGate.        *)
(*                                                                         *)
(* All runs work in one checkout: they share .dbre/local-superuser.env,    *)
(* .dbre/docker-compose.override.yml, .dbre/credentials/, the container    *)
(* and the server in it.  Every file access, `docker compose` call and     *)
(* psql call is a step of its own, and nothing locks.                      *)
(*                                                                         *)
(* A generated password is the run that generated it.  Runs whose backend  *)
(* is not local do their provisioning elsewhere (HookReturns, HookRaises). *)
(***************************************************************************)
EXTENDS ProvisionGate

VARIABLES
  step,        \* the next step of _provision, for a run in its hook
  superpw,     \* the superuser password each run works with
  superFile,   \* the password in .dbre/local-superuser.env
  override,    \* the request whose parameters .dbre/docker-compose.override.yml holds
  container,   \* the request whose parameters the running container was started with
  serverpw,    \* the superuser password the data volume was initialised with
  databases,   \* the names of the databases on the server
  settings,    \* the request whose ALTER DATABASE settings each database has
  rolepw,      \* the password the login roles of each name were created with
  credFile,    \* the passwords in .dbre/credentials/<name>-<env>.env
  raced        \* history: a run found no superuser file while another was about to write it

server == <<container, serverpw, databases, settings, rolepw>>
files == <<superFile, override, credFile>>
localVars == <<step, superpw, server, files, raced>>
vars == <<gateVars, localVars>>

Names == {q.name : q \in Requests}

\* full_name(): the name and the environment.
FullNames == {<<q.name, q.env>> : q \in Requests}

Name(r) == job[r].req.name
FullName(r) == <<job[r].req.name, job[r].req.env>>

Password == Runs \cup {None}

Init ==
  /\ GateInit
  /\ step = [r \in Runs |-> "superuser"]
  /\ superpw = [r \in Runs |-> None]
  /\ superFile = None
  /\ override = None
  /\ container = None
  /\ serverpw = None
  /\ databases = {}
  /\ settings = [n \in Names |-> None]
  /\ rolepw = [n \in Names |-> None]
  /\ credFile = [f \in FullNames |-> None]
  /\ raced = FALSE

\* Mutant: a hook is entered whatever the backend of the run is.
AtAnyBackend(r, s) == stage[r] = "hook" /\ step[r] = s

At(r, s) == stage[r] = "hook" /\ Backend(r) = "local" /\ step[r] = s

\* The run found no superuser file, and is about to write one.
Generating(r) == stage[r] = "hook" /\ step[r] = "generate"

Go(r, s) == step' = [step EXCEPT ![r] = s] /\ UNCHANGED gateVars

Raise(r) == HookRaises(r) /\ UNCHANGED step

-----------------------------------------------------------------------------
(***************************************************************************)
(* _superuser_password: the cached password, or a new one.                 *)
(***************************************************************************)
ReadSuperuser(r) ==
  /\ At(r, "superuser")
  /\ IF superFile # None
     THEN superpw' = [superpw EXCEPT ![r] = superFile] /\ Go(r, "override")
     ELSE Go(r, "generate") /\ UNCHANGED superpw
  /\ raced' = (raced \/ (superFile = None /\ \E o \in Runs : Generating(o)))
  /\ UNCHANGED <<server, files>>

WriteSuperuser(r) ==
  /\ At(r, "generate")
  /\ superpw' = [superpw EXCEPT ![r] = r]
  /\ superFile' = r
  /\ Go(r, "override")
  /\ UNCHANGED <<server, override, credFile, raced>>

WriteOverride(r) ==
  /\ At(r, "override")
  /\ override' = job[r].req
  /\ Go(r, "compose")
  /\ UNCHANGED <<superpw, server, superFile, credFile, raced>>

\* `docker compose up -d` starts the container, or recreates it when the
\* override changed.  The image reads POSTGRES_PASSWORD from the env file
\* only while it initialises an empty volume.  A call that exceeds its
\* timeout may have done its work.
ComposeUp(r) ==
  /\ At(r, "compose")
  /\ container' = override
  /\ serverpw' = IF serverpw = None THEN superFile ELSE serverpw
  /\ Go(r, "wait") \/ Raise(r)
  /\ UNCHANGED <<superpw, databases, settings, rolepw, files, raced>>

\* _wait_until_ready: SELECT 1 as superuser, for 60 seconds at most.
BecomesReady(r) ==
  /\ At(r, "wait")
  /\ superpw[r] = serverpw
  /\ Go(r, "lookup")
  /\ UNCHANGED <<superpw, server, files, raced>>

\* Mutant: the loop has no deadline.
WaitForEver(r) == FALSE

WaitTimesOut(r) ==
  /\ At(r, "wait")
  /\ Raise(r)
  /\ UNCHANGED <<superpw, server, files, raced>>

-----------------------------------------------------------------------------
(***************************************************************************)
(* The SQL bootstrap.  A psql call that fails may have had its effect.     *)
(***************************************************************************)

\* Mutant: a lookup that fails is taken for a database that exists.
LookupAssumesDatabase(r) ==
  /\ At(r, "lookup")
  /\ Go(r, "settings")
  /\ UNCHANGED <<superpw, server, files, raced>>

\* The query's own failure is not looked at: it reads as "does not exist".
LookupDatabase(r) ==
  /\ At(r, "lookup")
  /\ \/ Name(r) \in databases /\ Go(r, "settings")
     \/ Go(r, "create")
  /\ UNCHANGED <<superpw, server, files, raced>>

CreateDatabase(r) ==
  /\ At(r, "create")
  /\ Name(r) \notin databases
  /\ databases' = databases \cup {Name(r)}
  /\ Go(r, "settings") \/ Raise(r)
  /\ UNCHANGED <<superpw, container, serverpw, settings, rolepw, files, raced>>

\* The extensions one by one, whose failures are only reported, and then the
\* ALTER DATABASE script.
ApplySettings(r) ==
  /\ At(r, "settings")
  /\ settings' = [settings EXCEPT ![Name(r)] = job[r].req]
  /\ Go(r, "roles") \/ Raise(r)
  /\ UNCHANGED <<superpw, container, serverpw, databases, rolepw, files, raced>>

\* Mutant: the login roles are not scoped to the application.
ApplySharedRoles(r) ==
  /\ At(r, "roles")
  /\ rolepw' = [rolepw EXCEPT ![Name(r)] =
                  IF \A n \in Names : rolepw[n] = None
                  THEN r ELSE CHOOSE p \in {rolepw[n] : n \in Names} : p # None]
  /\ Go(r, "persist")
  /\ UNCHANGED <<superpw, container, serverpw, databases, settings, files, raced>>

\* generate_credentials and roles.sql.j2: fresh passwords, used only for the
\* login roles that do not exist yet.
ApplyRoles(r) ==
  /\ At(r, "roles")
  /\ rolepw' = [rolepw EXCEPT ![Name(r)] = IF @ = None THEN r ELSE @]
  /\ Go(r, "persist") \/ Raise(r)
  /\ UNCHANGED <<superpw, container, serverpw, databases, settings, files, raced>>

\* Mutant: the hook ends the run itself, and nothing is recorded.
PersistAndLeave(r) ==
  /\ At(r, "persist")
  /\ credFile' = [credFile EXCEPT ![FullName(r)] = r]
  /\ Advance(r, "hook", "recorded")
  /\ UNCHANGED <<job, trail, step, superpw, server, superFile, override, raced>>

\* _persist_credentials: the fresh passwords, and _provision returns.
PersistCredentials(r) ==
  /\ At(r, "persist")
  /\ credFile' = [credFile EXCEPT ![FullName(r)] = r]
  /\ HookReturns(r)
  /\ UNCHANGED <<step, superpw, server, superFile, override, raced>>

\* A file cannot be written, `docker` or `psql` is missing, or a call fails
\* without effect: CREATE DATABASE does for a database that exists.
StepFails(r) ==
  /\ \E s \in {"superuser", "generate", "override", "compose", "lookup",
               "create", "settings", "roles", "persist"} : At(r, s)
  /\ Raise(r)
  /\ UNCHANGED <<superpw, server, files, raced>>

-----------------------------------------------------------------------------
LocalStep(r) ==
  \/ ReadSuperuser(r) \/ WriteSuperuser(r) \/ WriteOverride(r)
  \/ ComposeUp(r) \/ BecomesReady(r) \/ WaitTimesOut(r)
  \/ LookupDatabase(r) \/ CreateDatabase(r) \/ ApplySettings(r)
  \/ ApplyRoles(r) \/ PersistCredentials(r) \/ StepFails(r)

RemoteStep(r) ==
  /\ Backend(r) # "local"
  /\ HookReturns(r) \/ HookRaises(r)
  /\ UNCHANGED localVars

Progress(r) ==
  \/ GateStep(r) /\ UNCHANGED localVars
  \/ stage[r] = "hook" /\ (LocalStep(r) \/ RemoteStep(r))

Next ==
  \E r \in Runs :
    \/ Progress(r)
    \/ (Start(r) \/ Kill(r)) /\ UNCHANGED localVars

Spec == Init /\ [][Next]_vars

\* A process that is not killed keeps executing: every call it makes returns
\* or times out.
FairSpec == Spec /\ \A r \in Runs : WF_vars(Progress(r))

-----------------------------------------------------------------------------
(***************************************************************************)
(* Properties                                                              *)
(***************************************************************************)

TypeOK ==
  /\ GateTypeOK
  /\ step \in [Runs -> {"superuser", "generate", "override", "compose", "wait", "lookup",
                        "create", "settings", "roles", "persist"}]
  /\ superpw \in [Runs -> Password]
  /\ superFile \in Password /\ serverpw \in Password
  /\ override \in Requests \cup {None} /\ container \in Requests \cup {None}
  /\ databases \subseteq Names
  /\ settings \in [Names -> Requests \cup {None}]
  /\ rolepw \in [Names -> Password]
  /\ credFile \in [FullNames -> Password]
  /\ raced \in BOOLEAN

\* The runs that generated a password some file or the server still holds.
Traces ==
  ({superFile, serverpw} \cup {rolepw[n] : n \in Names} \cup {credFile[f] : f \in FullNames}) \ {None}

\* The requests that some file, the container or a database was set up from.
Applied == ({override, container} \cup {settings[n] : n \in Names}) \ {None}

\* Nothing on the machine comes from a run that the gate refused, or whose
\* backend is not local, and no request that fails the gate is applied.
OnlyGatedLeaveTraces ==
  /\ \A r \in Traces : Gated(r) /\ Backend(r) = "local"
  /\ Applied \subseteq Compliant \cap Ready

\* The server runs with the password the run knows, and what the run asked for
\* exists.
Equipped(r) ==
  /\ superpw[r] = serverpw /\ serverpw # None /\ container # None
  /\ Name(r) \in databases
  /\ settings[Name(r)] # None /\ rolepw[Name(r)] # None /\ credFile[FullName(r)] # None

\* A success, once recorded, is backed by the machine: the server runs with a
\* known password, and the database, its settings, its login roles and the
\* credentials file exist.
SuccessIsBacked ==
  \A r \in Runs : Succeeded(r) /\ Backend(r) = "local" => Equipped(r)

\* While one run only has worked on a name, whatever other runs did to the
\* shared files and the container, the credentials it saved are those of the
\* login roles.
SoleRunCredentialsWork ==
  \A r \in Runs :
    /\ Succeeded(r) /\ Backend(r) = "local"
    /\ \A o \in Runs \ {r} : job[o] # None => Name(o) # Name(r)
    => credFile[FullName(r)] = rolepw[Name(r)]

\* The cached superuser password stops matching the server, which would lock
\* out every later run, only when two first runs raced: as long as no run found
\* the file missing while another was about to write it, the server has the
\* password of the file, whatever runs failed or were killed on the way.
SuperuserFileMatches == ~raced => serverpw \in {None, superFile}

\* A run never waits for ever: not for another run, and not for a server that
\* does not accept its password.
EveryRunEnds == \A r \in Runs : stage[r] \in InFlight ~> stage[r] \notin InFlight

-----------------------------------------------------------------------------
(***************************************************************************)
(* The inductive invariant behind the safety properties.                   *)
(***************************************************************************)

\* The steps that find the database's settings in place, the database, a
\* server that accepts the password, a container, and a password.
WithSettings == {"roles", "persist"}
WithDatabase == {"settings"} \cup WithSettings
WithServer == {"lookup", "create"} \cup WithDatabase
WithContainer == {"wait"} \cup WithServer
WithPassword == {"override", "compose"} \cup WithContainer

\* What a run that has come to its present step can rely on.
Backed(r) ==
  /\ stage[r] \in {"idle", "policy", "readiness"} => step[r] = "superuser"
  /\ stage[r] = "hook" /\ Backend(r) # "local" => step[r] = "superuser"
  /\ stage[r] = "hook" =>
       /\ step[r] \in WithPassword => superpw[r] # None /\ superFile # None
       /\ step[r] = "compose" => override # None
       /\ step[r] \in WithContainer => container # None /\ serverpw # None
       /\ step[r] \in WithServer => superpw[r] = serverpw
       /\ step[r] \in WithDatabase => Name(r) \in databases
       /\ step[r] \in WithSettings => settings[Name(r)] # None
       /\ step[r] = "persist" => rolepw[Name(r)] # None

StepIsBacked == \A r \in Runs : Backed(r)

\* A run that is about to write the superuser file is the only one, and the
\* server is not initialised yet, unless runs raced.
FirstRun ==
  /\ serverpw # None => superFile # None
  /\ ~raced =>
       /\ serverpw \in {None, superFile}
       /\ \A r \in Runs : Generating(r) => superFile = None
       /\ \A r, o \in Runs : Generating(r) /\ Generating(o) => r = o

\* The passwords kept under a name come from runs for that name.
OwnNames ==
  /\ \A n \in Names : rolepw[n] # None => job[rolepw[n]] # None /\ Name(rolepw[n]) = n
  /\ \A f \in FullNames : credFile[f] # None => job[credFile[f]] # None /\ FullName(credFile[f]) = f

LocalInv ==
  /\ TypeOK
  /\ GateInv
  /\ StepIsBacked
  /\ SuccessIsBacked
  /\ FirstRun
  /\ OnlyGatedLeaveTraces
  /\ OwnNames

=============================================================================
