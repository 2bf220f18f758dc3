---------------------------- MODULE PullSecrets ----------------------------
(***************************************************************************)
(* The pull secret controller (internal/shared/controllers/                *)
(* pull_secret_controller.go): one reconciler, registered with two         *)
(* controllers (Secrets and the pod's ServiceAccount), so that two passes  *)
(* may run at once. A pass collects the global pull secret and the         *)
(* service account's, merges them and replaces the registry auth file.     *)
(* Its API reads are steps of their own.                                   *)
(***************************************************************************)
EXTENDS Integers, Sequences, FiniteSets

CONSTANTS GlobalSecret,  \* r.SecretKey
          PullSecrets,   \* the other secrets of the account's namespace
          PullLists,     \* the imagePullSecrets the account may have
          Contents,      \* a secret's data: [format, auths]
          MaxPsEdits,    \* bound: changes of the secrets and the account
          MaxPsFaults    \* bound: failed API reads

ASSUME PullSecretsAssumption ==
    /\ GlobalSecret \notin PullSecrets
    /\ \A l \in PullLists : l \in Seq(PullSecrets \cup {GlobalSecret})
    /\ \A c \in Contents :
         c.format \in {"dockerconfigjson", "dockercfg", "malformed", "unknown"}
    /\ MaxPsEdits \in Nat /\ MaxPsFaults \in Nat

VARIABLES psSecrets, \* the cluster's Secrets: {its contents}, or {} when absent
          pullNames, \* {the account's imagePullSecrets}, {} with no account
          filter,    \* r.ServiceAccountPullSecrets, what the predicate admits
          authFile,  \* {the auth file's registry -> credential}, {} with no file
          psQueue,   \* per controller: a request is queued
          pass,      \* per controller: its pass
          psRaced,   \* history: an edit came while a pass was under way
          psEdits, psFaults

psVars == <<psSecrets, pullNames, filter, authFile, psQueue, pass, psRaced,
            psEdits, psFaults>>

Controllers == {"secret", "serviceaccount"}
\* An object that may be missing: {} or a singleton.
Maybe(S) == {{}} \cup {{x} : x \in S}
The(m) == CHOOSE x \in m : TRUE
Secrets == PullSecrets \cup {GlobalSecret}

NoPass == [pc |-> "idle", got |-> <<>>, todo |-> <<>>, names |-> <<>>]
NoPassRuns == \A c \in Controllers : pass[c].pc = "idle"

\* The initial list is a create event for each object the filters admit; no
\* pull secret of the account is in the filter yet.
PsInit ==
    /\ psSecrets \in [Secrets -> Maybe(Contents)]
    /\ pullNames \in Maybe(PullLists)
    /\ filter = {}
    /\ authFile = {}
    /\ psQueue = [c \in Controllers |->
                    IF c = "secret" THEN psSecrets[GlobalSecret] # {}
                                    ELSE pullNames # {}]
    /\ pass = [c \in Controllers |-> NoPass]
    /\ psRaced = FALSE /\ psEdits = 0 /\ psFaults = 0

\* Mutant: the predicate forgets the account's pull secrets.
AdmitsGlobal(n) == n = GlobalSecret

\* newSecretPredicate, evaluated when the event arrives.
Admits(n) == n = GlobalSecret \/ n \in filter

PsEditSecret(n, c) ==
    /\ psEdits < MaxPsEdits /\ c # psSecrets[n]
    /\ psEdits' = psEdits + 1
    /\ psSecrets' = [psSecrets EXCEPT ![n] = c]
    /\ psQueue' = [psQueue EXCEPT !["secret"] = @ \/ Admits(n)]
    /\ psRaced' = (psRaced \/ ~NoPassRuns)
    /\ UNCHANGED <<pullNames, filter, authFile, pass, psFaults>>

EditAccount(l) ==
    /\ psEdits < MaxPsEdits /\ l # pullNames
    /\ psEdits' = psEdits + 1
    /\ pullNames' = l
    /\ psQueue' = [psQueue EXCEPT !["serviceaccount"] = TRUE]
    /\ psRaced' = (psRaced \/ ~NoPassRuns)
    /\ UNCHANGED <<psSecrets, filter, authFile, pass, psFaults>>

\* getSecret: a secret that is not found is left out.
Collect(got, n) == IF psSecrets[n] = {} THEN got ELSE Append(got, The(psSecrets[n]))

\* A pass starts and reads the global pull secret.
PsBegin(c) ==
    /\ pass[c].pc = "idle" /\ psQueue[c]
    /\ psQueue' = [psQueue EXCEPT ![c] = FALSE]
    /\ pass' = [pass EXCEPT ![c] = [NoPass EXCEPT !.pc = "account",
                                                  !.got = Collect(<<>>, GlobalSecret)]]
    /\ psRaced' = IF NoPassRuns THEN FALSE ELSE psRaced
    /\ UNCHANGED <<psSecrets, pullNames, filter, authFile, psEdits, psFaults>>

\* The service account; with none, only the global secret counts.
PsGetAccount(c) ==
    /\ pass[c].pc = "account"
    /\ pass' = [pass EXCEPT ![c] =
         IF pullNames = {} THEN [@ EXCEPT !.pc = "write"]
         ELSE [@ EXCEPT !.pc = "secrets", !.todo = The(pullNames),
                        !.names = The(pullNames)]]
    /\ UNCHANGED <<psSecrets, pullNames, filter, authFile, psQueue, psRaced, psEdits,
                   psFaults>>

PsGetSecret(c) ==
    /\ pass[c].pc = "secrets" /\ pass[c].todo # <<>>
    /\ pass' = [pass EXCEPT ![c].got = Collect(@, Head(pass[c].todo)),
                            ![c].todo = Tail(@)]
    /\ UNCHANGED <<psSecrets, pullNames, filter, authFile, psQueue, psRaced, psEdits,
                   psFaults>>

\* Only now does the predicate learn the account's pull secrets.
PsUpdateFilter(c) ==
    /\ pass[c].pc = "secrets" /\ pass[c].todo = <<>>
    /\ filter' = {pass[c].names[i] : i \in DOMAIN pass[c].names}
    /\ pass' = [pass EXCEPT ![c].pc = "write"]
    /\ UNCHANGED <<psSecrets, pullNames, authFile, psQueue, psRaced, psEdits, psFaults>>

\* Any read but NotFound fails: the pass ends and is retried.
PsReadFails(c) ==
    /\ pass[c].pc \in {"account", "secrets"} /\ psFaults < MaxPsFaults
    /\ psFaults' = psFaults + 1
    /\ pass' = [pass EXCEPT ![c] = NoPass]
    /\ psQueue' = [psQueue EXCEPT ![c] = TRUE]
    /\ UNCHANGED <<psSecrets, pullNames, filter, authFile, psRaced, psEdits>>

\* What a secret contributes; one of an unknown format is ignored.
AuthsOf(secret) == IF secret.format = "unknown" THEN <<>> ELSE secret.auths

\* The entries of later maps replace those of earlier ones.
LastWins(maps) ==
    LET holders(r) == {i \in DOMAIN maps : r \in DOMAIN maps[i]}
        last(r) == CHOOSE i \in holders(r) : \A j \in holders(r) : j <= i
    IN  [r \in UNION {DOMAIN maps[i] : i \in DOMAIN maps} |-> maps[last(r)][r]]

\* writeSecretToFile: the credentials of the secrets collected.
Merge(got) == LastWins([i \in DOMAIN got |-> AuthsOf(got[i])])

Malformed(got) == \E i \in DOMAIN got : got[i].format = "malformed"

\* The file is removed when there is nothing to write, otherwise replaced by a
\* rename; data that does not parse fails the pass, which is retried.
PsWrite(c) ==
    /\ pass[c].pc = "write"
    /\ LET got == pass[c].got
       IN  /\ authFile' = IF got = <<>> THEN {}
                          ELSE IF Malformed(got) THEN authFile ELSE {Merge(got)}
           /\ psQueue' = [psQueue EXCEPT ![c] = @ \/ Malformed(got)]
    /\ pass' = [pass EXCEPT ![c] = NoPass]
    /\ UNCHANGED <<psSecrets, pullNames, filter, psRaced, psEdits, psFaults>>

PsStep(c) ==
    \/ PsBegin(c) \/ PsGetAccount(c) \/ PsGetSecret(c) \/ PsUpdateFilter(c)
    \/ PsReadFails(c) \/ PsWrite(c)

PsNext ==
    \/ \E n \in Secrets, c \in Maybe(Contents) : PsEditSecret(n, c)
    \/ \E l \in Maybe(PullLists) : EditAccount(l)
    \/ \E c \in Controllers : PsStep(c)

PsFairness == \A c \in Controllers : WF_psVars(PsStep(c))
PsSpec == PsInit /\ [][PsNext]_psVars /\ PsFairness

-----------------------------------------------------------------------------
\* The file the cluster's present state asks for: of the secrets named, the
\* global one first, the last that has a credential for a registry gives it.
Names == IF pullNames = {} THEN <<GlobalSecret>> ELSE <<GlobalSecret>> \o The(pullNames)
Entries(n) == IF psSecrets[n] = {} THEN <<>> ELSE AuthsOf(The(psSecrets[n]))
Wanted ==
    IF \A i \in DOMAIN Names : psSecrets[Names[i]] = {} THEN {}
    ELSE {LastWins([i \in DOMAIN Names |-> Entries(Names[i])])}

Quiet == NoPassRuns /\ \A c \in Controllers : ~psQueue[c]

(* Once both controllers are idle the auth file is what the secrets and      *)
(* the account say now, unless a change came during the last passes. It    *)
(* needs the filter to have learnt every pull secret the account names,    *)
(* by whichever of the two controllers ran, before the secret changes.     *)
AuthFileFresh == Quiet /\ ~psRaced => authFile = Wanted

(* "deleteSecretFile deletes the auth file if the secret is deleted": with *)
(* no pull secret left, the file is gone in the end.                       *)
DeletedSecretFileGone ==
    <>[](\A n \in Secrets : psSecrets[n] = {}) => <>[](authFile = {})
=============================================================================
