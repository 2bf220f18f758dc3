------------------------------- MODULE Tokens -------------------------------
(***************************************************************************)
(* Service account tokens: the TokenGetter's cache and the round tripper   *)
(* that puts a token into every request of a revision engine's scoped      *)
(* client (authentication/tokengetter.go, tripper.go; the clients are made *)
(* by controllers/revision_engine_factory.go and action/restconfig.go).    *)
(* The cache is keyed by service account and its entries are independent,  *)
(* so the module has one account; its requests run concurrently.           *)
(***************************************************************************)
EXTENDS Integers

CONSTANTS Requests,          \* concurrent requests of the account's clients
          ExpirationDuration,\* of a token, in ticks
          RotationThreshold, \* rotationThresholdFraction of it, in ticks
          MaxTime,           \* bound on the clock
          MaxAccounts        \* bound: the account's deletions and creations

ASSUME TokensAssumption ==
    /\ ExpirationDuration \in Nat /\ RotationThreshold \in 0..ExpirationDuration
    /\ MaxTime \in Nat /\ MaxAccounts \in Nat

VARIABLES clock,
          account,  \* the service account's incarnation: odd when it exists
          token,    \* t.tokens[key]; of = 0 when there is none
          request   \* every request's progress through RoundTrip

tokenVars == <<clock, account, token, request>>

NoToken == [of |-> 0, exp |-> 0]
TokenSet == [of : 0..MaxAccounts, exp : 0..(MaxTime + ExpirationDuration)]

TokensTypeOK ==
    /\ clock \in 0..MaxTime
    /\ account \in 0..MaxAccounts
    /\ token \in TokenSet
    /\ request \in [Requests -> [pc : {"read", "create", "store", "reap", "send", "evict"},
                                 tok : TokenSet, try : 1..2,
                                 last : {"none", "ok", "unauthorized", "error"}]]

TokensInit ==
    /\ clock = 0
    /\ account \in 0..1
    /\ token = NoToken
    /\ request = [r \in Requests |->
                    [pc |-> "read", tok |-> NoToken, try |-> 1, last |-> "none"]]

AccountExists == account % 2 = 1

Tick ==
    /\ clock < MaxTime
    /\ clock' = clock + 1
    /\ UNCHANGED <<account, token, request>>

\* The account is deleted or created again: tokens of an earlier one are void.
ChangeAccount ==
    /\ account < MaxAccounts
    /\ account' = account + 1
    /\ UNCHANGED <<clock, token, request>>

\* expireTime.Before(now + threshold), the zero time when nothing is cached.
Rotates(t) == t.of = 0 \/ t.exp < clock + RotationThreshold

\* Get under the read lock: the cached token, or a new one is needed.
ReadToken(r) ==
    /\ request[r].pc = "read"
    /\ request' = [request EXCEPT ![r].tok = token,
                                  ![r].pc = IF Rotates(token) THEN "create" ELSE "reap"]
    /\ UNCHANGED <<clock, account, token>>

\* getToken: the API server issues a token, or the account is not found and
\* the request fails with ServiceAccountNotFoundError.
CreateToken(r) ==
    /\ request[r].pc = "create"
    /\ request' = [request EXCEPT ![r] =
         IF AccountExists
         THEN [@ EXCEPT !.pc = "store",
                        !.tok = [of |-> account, exp |-> clock + ExpirationDuration]]
         ELSE [@ EXCEPT !.pc = "read", !.try = 1, !.last = "error"]]
    /\ UNCHANGED <<clock, account, token>>

StoreToken(r) ==
    /\ request[r].pc = "store"
    /\ token' = request[r].tok
    /\ request' = [request EXCEPT ![r].pc = "reap"]
    /\ UNCHANGED <<clock, account>>

\* reapExpiredTokens, under the lock, at the end of Get.
ReapExpiredTokens(r) ==
    /\ request[r].pc = "reap"
    /\ token' = IF clock > token.exp THEN NoToken ELSE token
    /\ request' = [request EXCEPT ![r].pc = "send"]
    /\ UNCHANGED <<clock, account>>

\* The API server takes the token of the account as it is now.
Accepted(t) == AccountExists /\ t.of = account /\ clock <= t.exp

\* do: the answer is final unless it is the first 401.
Send(r) ==
    /\ request[r].pc = "send"
    /\ request' = [request EXCEPT ![r] =
         IF Accepted(@.tok) THEN [@ EXCEPT !.pc = "read", !.try = 1, !.last = "ok"]
         ELSE IF @.try = 1  THEN [@ EXCEPT !.pc = "evict"]
         ELSE [@ EXCEPT !.pc = "read", !.try = 1, !.last = "unauthorized"]]
    /\ UNCHANGED <<clock, account, token>>

\* Mutant: a 401 is retried without forgetting the token.
EvictNothing(r) ==
    /\ request[r].pc = "evict"
    /\ request' = [request EXCEPT ![r].pc = "read", ![r].try = 2]
    /\ UNCHANGED <<clock, account, token>>

\* RoundTrip after a 401: Delete the cached token, whichever it is by now, and
\* try once more.
Evict(r) ==
    /\ request[r].pc = "evict"
    /\ token' = NoToken
    /\ request' = [request EXCEPT ![r].pc = "read", ![r].try = 2]
    /\ UNCHANGED <<clock, account>>

RequestStep(r) ==
    \/ ReadToken(r) \/ CreateToken(r) \/ StoreToken(r)
    \/ ReapExpiredTokens(r) \/ Send(r) \/ Evict(r)

TokensNext == Tick \/ ChangeAccount \/ \E r \in Requests : RequestStep(r)

\* Reconcilers retry for ever, so every request is made again.
TokensFairness == \A r \in Requests : WF_tokenVars(RequestStep(r))

TokensSpec == TokensInit /\ [][TokensNext]_tokenVars /\ TokensFairness

(* However the requests interleave with the account's deletion and         *)
(* creation, and with each other's stores of tokens issued before it, the  *)
(* clients recover: unless the account is gone in the end, every client's  *)
(* requests succeed again. A request may fail with two 401s (another one   *)
(* stored an old token between them); it may not do so for ever.           *)
TokensHeal ==
    []<>(~AccountExists) \/ \A r \in Requests : []<>(request[r].last = "ok")
=============================================================================
