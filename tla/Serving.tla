------------------------------ MODULE Serving ------------------------------
(***************************************************************************)
(* catalogd's processes: how a pod starts, becomes ready and leader, and   *)
(* how a rolling update replaces it (cmd/catalogd/main.go,                 *)
(* internal/catalogd/serverutil); and the certificate pool watcher that    *)
(* runs in the leader of both binaries (internal/shared/util/http).        *)
(***************************************************************************)
EXTENDS Integers, Sequences

CONSTANTS Pods,        \* of the Deployment, oldest first: <<p1, p2>>
          Flags,       \* the command line of the pods
          CertDirs,    \* the contents the CA directory may have
          SslCertPaths,\* SSL_CERT_DIR or SSL_CERT_FILE is set and watched
          MaxCrashes,  \* bound: crashes of a pod
          MaxRotations \* bound: changes of the watched certificates

ASSUME ServingAssumption ==
    /\ SslCertPaths \in BOOLEAN
    /\ MaxCrashes \in Nat /\ MaxRotations \in Nat

(* Start-up of both binaries, before anything is served. A flag record has *)
(* certFile, keyFile, metricsAddr (set or not) and pullSecretParts.        *)

\* validateMetricsFlags of operator-controller; catalogd checks the same.
ValidMetricsFlags(f) ==
    /\ f.certFile = f.keyFile
    /\ f.metricsAddr => f.certFile

\* validateConfig of catalogd; operator-controller's run starts with the check
\* of the pull secret.
ValidConfig(f) == ValidMetricsFlags(f) /\ f.pullSecretParts \in {0, 2}

Secure(f) == f.certFile /\ f.keyFile

\* Where the metrics server listens; "0" is nowhere.
MetricsBindAddress(f) ==
    CASE ~Secure(f)    -> "0"
      [] f.metricsAddr -> "configured"
      [] OTHER         -> "default"

\* catalogd makes a certificate watcher whether or not it has files to watch,
\* and has none without them; operator-controller only with them.
Starts(binary, f) == ValidConfig(f) /\ (binary = "catalogd" => Secure(f))

-----------------------------------------------------------------------------
(* The pods.                                                               *)

VARIABLES pod,       \* pod -> "absent", "setup", "running", "stopping", "gone"
          listening, \* the catalog server's port is bound and ready is closed
          lease,     \* the holder of the leader election lease, or "none"
          populated, \* the pod's local cache has the catalogs
          crashes

podVars == <<pod, listening, lease, populated, crashes>>

PodSet == {Pods[i] : i \in DOMAIN Pods}
CurrentPod == Pods[Len(Pods)]

PodsInit ==
    /\ pod = [p \in PodSet |-> IF p = Pods[1] THEN "setup" ELSE "absent"]
    /\ listening = [p \in PodSet |-> FALSE]
    /\ lease = "none"
    /\ populated = [p \in PodSet |-> FALSE]
    /\ crashes = 0

\* validateConfig, and run up to mgr.Start: the cache directory is emptied.
Setup(p) ==
    /\ pod[p] = "setup" /\ Starts("catalogd", Flags)
    /\ pod' = [pod EXCEPT ![p] = "running"]
    /\ populated' = [populated EXCEPT ![p] = FALSE]
    /\ UNCHANGED <<listening, lease, crashes>>

\* Mutant: the server waits for leadership, the default of a Runnable.
NeedLeaderElectionDefault(p) == TRUE

\* catalogServerRunnable.NeedLeaderElection, the same for every pod.
NeedLeaderElection(p) == FALSE

\* catalogServerRunnable.Start: listen, close ready, serve.
StartServer(p) ==
    /\ pod[p] = "running" /\ ~listening[p]
    /\ NeedLeaderElection(p) => lease = p
    /\ listening' = [listening EXCEPT ![p] = TRUE]
    /\ UNCHANGED <<pod, lease, populated, crashes>>

\* Both readiness checks, "readyz" and "catalog-server".
Ready(p) == pod[p] = "running" /\ listening[p]

AcquireLease(p) ==
    /\ pod[p] = "running" /\ lease = "none"
    /\ lease' = p
    /\ UNCHANGED <<pod, listening, populated, crashes>>

\* The leader's reconciler unpacks the catalogs into its own directory.
Populate(p) ==
    /\ pod[p] = "running" /\ lease = p /\ ~populated[p]
    /\ populated' = [populated EXCEPT ![p] = TRUE]
    /\ UNCHANGED <<pod, listening, lease, crashes>>

\* The Deployment (external): the next pod is made beside its predecessor,
\* which is told to stop once the new one is ready.
CreatePod(i) ==
    /\ i \in 2..Len(Pods) /\ pod[Pods[i]] = "absent" /\ Ready(Pods[i - 1])
    /\ pod' = [pod EXCEPT ![Pods[i]] = "setup"]
    /\ UNCHANGED <<listening, lease, populated, crashes>>

StopPod(i) ==
    /\ i \in 2..Len(Pods) /\ Ready(Pods[i])
    /\ pod[Pods[i - 1]] \in {"setup", "running"}
    /\ pod' = [pod EXCEPT ![Pods[i - 1]] = "stopping"]
    /\ UNCHANGED <<listening, lease, populated, crashes>>

\* The context is cancelled: the server shuts down, the manager ends and
\* LeaderElectionReleaseOnCancel gives the lease back.
Shutdown(p) ==
    /\ pod[p] = "stopping"
    /\ pod' = [pod EXCEPT ![p] = "gone"]
    /\ listening' = [listening EXCEPT ![p] = FALSE]
    /\ lease' = IF lease = p THEN "none" ELSE lease
    /\ UNCHANGED <<populated, crashes>>

\* A crash: the container starts again, and the lease stays with its old
\* identity until it expires.
Crash(p) ==
    /\ pod[p] \in {"running", "stopping"} /\ crashes < MaxCrashes
    /\ crashes' = crashes + 1
    /\ pod' = [pod EXCEPT ![p] = IF @ = "stopping" THEN "gone" ELSE "setup"]
    /\ listening' = [listening EXCEPT ![p] = FALSE]
    /\ lease' = IF lease = p THEN "expiring" ELSE lease
    /\ UNCHANGED populated

LeaseExpires ==
    /\ lease = "expiring"
    /\ lease' = "none"
    /\ UNCHANGED <<pod, listening, populated, crashes>>

PodProgress(p) == Setup(p) \/ StartServer(p) \/ AcquireLease(p) \/ Populate(p) \/ Shutdown(p)
DeploymentStep == \E i \in DOMAIN Pods : CreatePod(i) \/ StopPod(i)

PodsNext ==
    \/ \E p \in PodSet : PodProgress(p) \/ Crash(p)
    \/ DeploymentStep \/ LeaseExpires

PodsFairness ==
    /\ \A p \in PodSet : WF_podVars(PodProgress(p))
    /\ WF_podVars(DeploymentStep) /\ WF_podVars(LeaseExpires)

PodsSpec == PodsInit /\ [][PodsNext]_podVars /\ PodsFairness

(* A rolling update completes: the newest pod ends up serving the          *)
(* catalogs, and the others are gone, crashes notwithstanding. The comment *)
(* on NeedLeaderElection is about this: were the server gated on the       *)
(* lease, the old pod would keep the lease until the new one is ready.     *)
RolloutCompletes ==
    <>[](/\ Ready(CurrentPod) /\ populated[CurrentPod]
         /\ \A p \in PodSet \ {CurrentPod} : pod[p] = "gone")

-----------------------------------------------------------------------------
(* The certificate pool watcher.                                           *)

VARIABLES certDir,   \* the CA directory's content
          pool,      \* cpw.pool: the content it was read from
          generation,
          fsEvents,  \* fsnotify's pending events: "ca" or "ssl"
          loop,      \* the watching goroutine
          cancelled, \* the manager's context
          process,   \* "up", or why it exited
          rotations

certVars == <<certDir, pool, generation, fsEvents, loop, cancelled, process, rotations>>

\* NewCertPool fails on a directory without a certificate.
NewCertPoolFails(d) == d = "empty"

\* NewCertPoolWatcher and Start: the first pool is read synchronously.
CertsInit ==
    /\ certDir \in {d \in CertDirs : ~NewCertPoolFails(d)}
    /\ pool = certDir
    /\ generation = 1
    /\ fsEvents = <<>>
    /\ loop = "select"
    /\ cancelled = FALSE
    /\ process = "up"
    /\ rotations = 0

\* Certificates are rotated: one event for every entry that changes.
Rotate(d) ==
    /\ rotations < MaxRotations /\ d # certDir
    /\ rotations' = rotations + 1
    /\ certDir' = d
    /\ fsEvents' = fsEvents \o <<"ca", "ca">>
    /\ UNCHANGED <<pool, generation, loop, cancelled, process>>

RotateSystem ==
    /\ SslCertPaths /\ rotations < MaxRotations
    /\ rotations' = rotations + 1
    /\ fsEvents' = Append(fsEvents, "ssl")
    /\ UNCHANGED <<certDir, pool, generation, loop, cancelled, process>>

\* An event is received, by select or by drainEvents: checkForRestart ends
\* the process when the system pool, which cannot be reloaded, changed.
ReceiveEvent ==
    /\ process = "up" /\ loop \in {"select", "drain"} /\ fsEvents # <<>>
    /\ fsEvents' = Tail(fsEvents)
    /\ loop' = "drain"
    /\ process' = IF Head(fsEvents) = "ssl" THEN "restart" ELSE process
    /\ UNCHANGED <<certDir, pool, generation, cancelled, rotations>>

\* No event for the drain timer's 50 ms.
DrainTimer ==
    /\ process = "up" /\ loop = "drain"
    /\ loop' = "update"
    /\ UNCHANGED <<certDir, pool, generation, fsEvents, cancelled, process, rotations>>

\* update: a pool that cannot be read ends the process.
UpdatePool ==
    /\ process = "up" /\ loop = "update"
    /\ loop' = "select"
    /\ IF NewCertPoolFails(certDir)
       THEN /\ process' = "failed"
            /\ UNCHANGED <<pool, generation>>
       ELSE /\ pool' = certDir
            /\ generation' = generation + 1
            /\ UNCHANGED process
    /\ UNCHANGED <<certDir, fsEvents, cancelled, rotations>>

CancelContext ==
    /\ ~cancelled
    /\ cancelled' = TRUE
    /\ UNCHANGED <<certDir, pool, generation, fsEvents, loop, process, rotations>>

\* select takes ctx.Done: cpw.Done sends on the unbuffered channel done,
\* whose only receiver is this goroutine.
SelectDone ==
    /\ process = "up" /\ loop = "select" /\ cancelled
    /\ loop' = "sending"
    /\ UNCHANGED <<certDir, pool, generation, fsEvents, cancelled, process, rotations>>

CertsNext ==
    \/ \E d \in CertDirs : Rotate(d)
    \/ RotateSystem \/ ReceiveEvent \/ DrainTimer \/ UpdatePool
    \/ CancelContext \/ SelectDone

CertsFairness ==
    /\ WF_certVars(ReceiveEvent) /\ WF_certVars(DrainTimer) /\ WF_certVars(UpdatePool)
    /\ WF_certVars(SelectDone)

CertsSpec == CertsInit /\ [][CertsNext]_certVars /\ CertsFairness

(* Between events the pool is the directory's present content: a rotation  *)
(* that comes while the events of the last are drained, or while the pool  *)
(* is read, is not lost, and a directory that cannot be read never leaves  *)
(* the old certificates in use.                                            *)
PoolFresh ==
    process = "up" /\ loop = "select" /\ fsEvents = <<>> => pool = certDir

(* The comment on Done says it is called "so it can terminate the watcher  *)
(* go func", and the loop calls it when the context ends; so the watcher   *)
(* of a cancelled manager is closed.                                       *)
WatcherTerminates == cancelled ~> (loop = "closed" \/ process # "up")
=============================================================================
