---------------------------- MODULE PerSession ------------------------------
(***************************************************************************)
(* One LivePerSessionManager shared by concurrent calls of                 *)
(* getOrderSubmitFunction and getOrderCancelFunction.  The stages of the   *)
(* two functions are the same: attestation, token, send, and one retry     *)
(* after a 401.  Every await is a point where other calls run.             *)
(*                                                                         *)
(* Tokens are numbered in the order in which the PER issues them; the PER  *)
(* may expire any of them at any time.  Answers may be lost.               *)
(***************************************************************************)
EXTENDS Naturals, FiniteSets

CONSTANTS
    Call,      \* calls in progress on the session manager
    MaxToken   \* bound on tokens the PER issues

ASSUME SessionAssumption == IsFiniteSet(Call) /\ MaxToken \in Nat

NoToken == 0
Token == 1 .. MaxToken

VARIABLES
    cachedToken,  \* LivePerSessionManager.cachedToken
    call,         \* where each call is, its tokens, and the answer under way
    valid,        \* tokens the PER accepts
    issued,       \* tokens issued so far
    applied       \* how often the PER has executed each call's instruction

vars == <<cachedToken, call, valid, issued, applied>>

Init ==
    /\ cachedToken = NoToken
    /\ call = [c \in Call |-> [pc |-> "start", attempt |-> 1, first |-> NoToken,
                               jwt |-> NoToken, reply |-> "none"]]
    /\ valid = {} /\ issued = 0
    /\ applied = [c \in Call |-> 0]

At(c, pc) == call[c].pc = pc
Goto(c, pc) == call' = [call EXCEPT ![c].pc = pc]

-----------------------------------------------------------------------------
(***************************************************************************)
(* The client.                                                             *)
(***************************************************************************)

\* verifyAttestation: a failed attestation ends the call before any data is sent.
VerifyAttestation(c) ==
    /\ At(c, "start")
    /\ Goto(c, "attested") \/ Goto(c, "failed")
    /\ UNCHANGED <<cachedToken, valid, issued, applied>>

\* Mutant: a retry waits for a token that some other call fetches.
GetToken_Waits(c) ==
    /\ At(c, "attested") \/ (At(c, "rejected") /\ cachedToken # NoToken)
    /\ call' = [call EXCEPT ![c].pc = IF cachedToken # NoToken THEN "ready" ELSE "fetching",
                            ![c].jwt = cachedToken]
    /\ UNCHANGED <<cachedToken, valid, issued, applied>>

\* getToken, up to its await: the cached token, or a request for a new one.
\* Also the first thing a retry does.
GetToken(c) ==
    /\ At(c, "attested") \/ At(c, "rejected")
    /\ call' = [call EXCEPT ![c].pc = IF cachedToken # NoToken THEN "ready" ELSE "fetching",
                            ![c].jwt = cachedToken]
    /\ UNCHANGED <<cachedToken, valid, issued, applied>>

\* fetchNewToken fails: challenge or exchange refused, or no token in the answer.
FetchFails(c) ==
    /\ At(c, "fetching")
    /\ Goto(c, "failed")
    /\ UNCHANGED <<cachedToken, valid, issued, applied>>

\* getToken after its await: the token that arrives becomes the cached one,
\* whatever was cached meanwhile.
TokenArrives(c) ==
    /\ At(c, "issued")
    /\ cachedToken' = call[c].jwt
    /\ Goto(c, "ready")
    /\ UNCHANGED <<valid, issued, applied>>

\* sendInstruction, up to its await.
Send(c) ==
    /\ At(c, "ready")
    /\ Goto(c, "sent")
    /\ UNCHANGED <<cachedToken, valid, issued, applied>>

\* Mutant: any failure is taken for an expired token.
Rejected_AnyFailure(c) == call[c].reply # "ok"
\* sendInstruction throws the retryable auth-token-fetch error on a 401 only.
Rejected(c) == call[c].reply = "401"

\* Mutant: a rejected token stays in the cache.
Invalidated_Kept == cachedToken
\* invalidateToken drops whatever is cached, the rejected token or another.
Invalidated == NoToken

\* Mutant: there is no end to retries.
Retried_Always(c) == Rejected(c)
\* The catch in submit and cancel: the second send is not guarded by another.
Retried(c) == Rejected(c) /\ call[c].attempt = 1

\* sendInstruction after its await, and the catch around it.
Answer(c) ==
    /\ At(c, "answered")
    /\ cachedToken' = IF Rejected(c) THEN Invalidated ELSE cachedToken
    /\ \/ /\ call[c].reply = "ok"
          /\ Goto(c, "done")
       \/ /\ Retried(c)
          /\ call' = [call EXCEPT ![c].pc = "rejected", ![c].attempt = @ + 1,
                                  ![c].first = call[c].jwt]
       \/ /\ call[c].reply # "ok" /\ ~Retried(c)
          /\ Goto(c, "failed")
    /\ UNCHANGED <<valid, issued, applied>>

-----------------------------------------------------------------------------
(***************************************************************************)
(* The PER (external).                                                     *)
(***************************************************************************)

\* /auth/token: a new token is issued, its answer is under way.
IssueToken(c) ==
    /\ At(c, "fetching")
    /\ issued < MaxToken
    /\ issued' = issued + 1
    /\ valid' = valid \cup {issued + 1}
    /\ call' = [call EXCEPT ![c].pc = "issued", ![c].jwt = issued + 1]
    /\ UNCHANGED <<cachedToken, applied>>

ExpireToken ==
    /\ \E t \in valid : valid' = valid \ {t}
    /\ UNCHANGED <<cachedToken, call, issued, applied>>

\* The request is refused for its token; executed; refused for another reason;
\* or executed and the answer lost, which the client sees as an error.
Serve(c) ==
    /\ At(c, "sent")
    /\ \E r \in {"ok", "error", "401"}, executed \in BOOLEAN :
          /\ (r = "401") <=> call[c].jwt \notin valid
          /\ r = "ok" => executed
          /\ r = "401" => ~executed
          /\ call' = [call EXCEPT ![c].pc = "answered", ![c].reply = r]
          /\ applied' = [applied EXCEPT ![c] = IF executed THEN @ + 1 ELSE @]
    /\ UNCHANGED <<cachedToken, valid, issued>>

-----------------------------------------------------------------------------

ClientStep(c) ==
    \/ VerifyAttestation(c) \/ GetToken(c) \/ FetchFails(c) \/ TokenArrives(c)
    \/ Send(c) \/ Answer(c)
PerStep(c) == IssueToken(c) \/ Serve(c)

Next == (\E c \in Call : ClientStep(c) \/ PerStep(c)) \/ ExpireToken

Spec == Init /\ [][Next]_vars

\* Pending continuations run, and every request is answered or fails.
FairSpec == Spec /\ \A c \in Call : WF_vars(ClientStep(c)) /\ WF_vars(PerStep(c))

-----------------------------------------------------------------------------

CallRecord ==
    [pc : {"start", "attested", "fetching", "issued", "ready", "sent",
           "answered", "rejected", "done", "failed"},
     attempt : {1, 2}, first : Token \cup {NoToken}, jwt : Token \cup {NoToken},
     reply : {"none", "ok", "error", "401"}]

\* Types of the session manager's cache, the calls and the PER.
TypeOK ==
    /\ cachedToken \in Token \cup {NoToken}
    /\ call \in [Call -> CallRecord]
    /\ valid \subseteq Token
    /\ issued \in 0 .. MaxToken
    /\ applied \in [Call -> Nat]

(***************************************************************************)
(* An order or a cancellation is executed at most once, whatever answers   *)
(* are lost or late, and exactly once when the call returns a signature:   *)
(* sendInstruction's caller may only repeat what the PER did not execute.  *)
(***************************************************************************)
AtMostOnce ==
    \A c \in Call :
       /\ applied[c] <= 1
       /\ At(c, "done") => applied[c] = 1

(***************************************************************************)
(* The retry never repeats the rejected token, and a call that ends with a *)
(* 401 has had two different tokens refused, both of them expired: a       *)
(* late 401, or a token that another call stores late, costs a handshake   *)
(* but never a call.                                                       *)
(***************************************************************************)
RetriedWithAnother ==
    \A c \in Call :
       /\ call[c].attempt = 2 /\ ~At(c, "rejected") => call[c].jwt # call[c].first
       /\ At(c, "failed") /\ call[c].reply = "401" /\ call[c].jwt # NoToken
             => /\ call[c].first # NoToken /\ call[c].jwt # call[c].first
                /\ {call[c].first, call[c].jwt} \cap valid = {}

\* Every call comes to an end: no cycle of rejections and refreshes, and no
\* call waits for another's token.
CallEnds == \A c \in Call : <>(At(c, "done") \/ At(c, "failed"))
=============================================================================
