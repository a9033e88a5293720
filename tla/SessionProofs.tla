--------------------------- MODULE SessionProofs ----------------------------
(***************************************************************************)
(* The session manager's safety properties, for any number of concurrent   *)
(* calls and tokens.                                                       *)
(***************************************************************************)
EXTENDS PerSession, TLAPS

\* What is known of a call's tokens and answers at each of its stages.
Stages(c) ==
    /\ At(c, "start") \/ At(c, "attested") => call[c].attempt = 1 /\ call[c].reply = "none"
    /\ At(c, "rejected") => call[c].attempt = 2 /\ cachedToken # call[c].first
    /\ At(c, "fetching") => call[c].jwt = NoToken
    /\ At(c, "answered") => call[c].reply # "none"
    /\ At(c, "answered") /\ call[c].reply = "401" => call[c].jwt \notin valid
    /\ call[c].attempt = 2 =>
          call[c].first # NoToken /\ call[c].first \notin valid
    /\ call[c].attempt = 2 /\ ~At(c, "rejected") => call[c].jwt # call[c].first
    /\ At(c, "issued") \/ At(c, "ready") \/ At(c, "sent") \/ At(c, "answered")
          => call[c].jwt # NoToken
    /\ At(c, "failed") /\ call[c].reply = "401" /\ call[c].jwt # NoToken
          => call[c].attempt = 2 /\ call[c].jwt \notin valid

\* A token on its way to the call that fetched it is nowhere else.
Exclusive(c) ==
    At(c, "issued") =>
       /\ cachedToken # call[c].jwt
       /\ \A d \in Call : call[d].first # call[c].jwt
       /\ \A d \in Call \ {c} : call[d].jwt # call[c].jwt

\* Nothing is executed before the answer, or if the answer is a 401.
Executions(c) ==
    /\ applied[c] <= 1
    /\ applied[c] = 1 => At(c, "answered") \/ At(c, "done") \/ At(c, "failed")
    /\ At(c, "answered") /\ call[c].reply = "401" => applied[c] = 0
    /\ At(c, "answered") /\ call[c].reply = "ok" => applied[c] = 1
    /\ At(c, "done") => applied[c] = 1

\* No token is used before it is issued.
Numbered ==
    /\ cachedToken <= issued
    /\ \A t \in valid : t <= issued
    /\ \A c \in Call : call[c].jwt <= issued /\ call[c].first <= issued

IndInv ==
    /\ TypeOK
    /\ Numbered
    /\ \A c \in Call : Stages(c) /\ Exclusive(c) /\ Executions(c)

-----------------------------------------------------------------------------

LEMMA InitOK == Init => IndInv
  BY SessionAssumption
     DEF Init, IndInv, TypeOK, CallRecord, Numbered, Stages, Exclusive, Executions,
         At, NoToken, Token

LEMMA Inductive == IndInv /\ [Next]_vars => IndInv'
  <1> SUFFICES ASSUME IndInv, [Next]_vars
               PROVE  IndInv'
      OBVIOUS
  <1> USE SessionAssumption
          DEF IndInv, TypeOK, CallRecord, Numbered, Stages, Exclusive, Executions,
              At, NoToken, Token
  <1>1. ASSUME NEW c \in Call, VerifyAttestation(c)  PROVE IndInv'
    BY <1>1 DEF VerifyAttestation, Goto
  <1>2. ASSUME NEW c \in Call, GetToken(c)  PROVE IndInv'
    <2> DEFINE pc == IF cachedToken # NoToken THEN "ready" ELSE "fetching"
    <2>1. /\ call[c].pc \in {"attested", "rejected"}
          /\ call' = [call EXCEPT ![c].pc = pc, ![c].jwt = cachedToken]
          /\ UNCHANGED <<cachedToken, valid, issued, applied>>
      BY <1>2 DEF GetToken
    <2> pc \in {"ready", "fetching"} /\ (pc = "fetching" <=> cachedToken = NoToken)
      OBVIOUS
    <2> HIDE DEF pc
    <2>2. TypeOK' /\ Numbered'
      <3>2. \A d \in Call : /\ call[d].jwt <= issued /\ call[d].first <= issued
                            /\ call'[d].jwt = IF d = c THEN cachedToken ELSE call[d].jwt
                            /\ call'[d].first = call[d].first
        BY <2>1
      <3>3. Numbered'
        BY <2>1, <3>2
      <3>4. call' \in [Call -> CallRecord]
        <4>1. [call[c] EXCEPT !.pc = pc, !.jwt = cachedToken] \in CallRecord
          BY ZenonT(60)
        <4>2. call' = [call EXCEPT ![c] = [call[c] EXCEPT !.pc = pc, !.jwt = cachedToken]]
          BY <2>1
        <4> HIDE DEF CallRecord
        <4>3. QED
          BY <4>1, <4>2
      <3>5. QED
        BY <2>1, <3>3, <3>4
    <2>3. ASSUME NEW d \in Call  PROVE Stages(d)'
      <3>1. CASE d = c
        BY <2>1, <3>1
      <3>2. CASE d # c
        BY <2>1, <3>2
      <3>3. QED
        BY <3>1, <3>2
    <2>4. ASSUME NEW d \in Call  PROVE Exclusive(d)' /\ Executions(d)'
      <3>1. CASE d = c
        BY <2>1, <3>1
      <3>2. CASE d # c
        BY <2>1, <3>2
      <3>3. QED
        BY <3>1, <3>2
    <2>5. QED
      BY <2>2, <2>3, <2>4
  <1>3. ASSUME NEW c \in Call, FetchFails(c)  PROVE IndInv'
    BY <1>3 DEF FetchFails, Goto
  <1>4. ASSUME NEW c \in Call, TokenArrives(c)  PROVE IndInv'
    BY <1>4 DEF TokenArrives, Goto
  <1>5. ASSUME NEW c \in Call, Send(c)  PROVE IndInv'
    BY <1>5 DEF Send, Goto
  <1>6. ASSUME NEW c \in Call, Answer(c)  PROVE IndInv'
    BY <1>6 DEF Answer, Goto, Retried, Rejected, Invalidated
  <1>7. ASSUME NEW c \in Call, IssueToken(c)  PROVE IndInv'
    BY <1>7 DEF IssueToken
  <1>8. ASSUME NEW c \in Call, Serve(c)  PROVE IndInv'
    <2>1. PICK r \in {"ok", "error", "401"}, n \in {0, 1} :
             /\ At(c, "sent")
             /\ (r = "401") <=> call[c].jwt \notin valid
             /\ r = "ok" => n = 1
             /\ r = "401" => n = 0
             /\ call' = [call EXCEPT ![c].pc = "answered", ![c].reply = r]
             /\ applied' = [applied EXCEPT ![c] = @ + n]
             /\ UNCHANGED <<cachedToken, valid, issued>>
      <3>1. PICK r \in {"ok", "error", "401"}, executed \in BOOLEAN :
               /\ (r = "401") <=> call[c].jwt \notin valid
               /\ r = "ok" => executed
               /\ r = "401" => ~executed
               /\ call' = [call EXCEPT ![c].pc = "answered", ![c].reply = r]
               /\ applied' = [applied EXCEPT ![c] = IF executed THEN @ + 1 ELSE @]
        BY <1>8 DEF Serve
      <3>2. At(c, "sent") /\ UNCHANGED <<cachedToken, valid, issued>>
        BY <1>8 DEF Serve
      <3>3. CASE executed
        <4>1. applied' = [applied EXCEPT ![c] = @ + 1]
          BY <3>1, <3>3
        <4>2. QED
          BY <3>1, <3>2, <3>3, <4>1
      <3>4. CASE ~executed
        <4>1. applied' = applied
          BY <3>1, <3>4
        <4>3. applied = [applied EXCEPT ![c] = @ + 0]
          OBVIOUS
        <4>2. QED
          BY <3>1, <3>2, <3>4, <4>1, <4>3
      <3>5. QED
        BY <3>3, <3>4
    <2>2. /\ call'[c] = [call[c] EXCEPT !.pc = "answered", !.reply = r]
          /\ \A d \in Call \ {c} : call'[d] = call[d] /\ applied'[d] = applied[d]
          /\ applied'[c] = n
      <3>1. applied[c] = 0
        BY <2>1
      <3>2. QED
        BY <2>1, <3>1
    <2>3. TypeOK'
      <3>1. applied' \in [Call -> Nat]
        BY <2>1
      <3>2. call' \in [Call -> CallRecord]
        <4>1. [call[c] EXCEPT !.pc = "answered", !.reply = r] \in CallRecord
          BY ZenonT(60)
        <4>2. call' = [call EXCEPT ![c] = [call[c] EXCEPT !.pc = "answered", !.reply = r]]
          BY <2>1
        <4> HIDE DEF CallRecord
        <4>3. QED
          BY <4>1, <4>2
      <3>3. QED
        BY <2>1, <3>1, <3>2
    <2>4. Numbered'
      BY <2>1, <2>2
    <2>5. ASSUME NEW d \in Call  PROVE Stages(d)' /\ Exclusive(d)' /\ Executions(d)'
      <3>1. CASE d = c
        BY <2>1, <2>2, <3>1
      <3>2. CASE d # c
        BY <2>1, <2>2, <3>2
      <3>3. QED
        BY <3>1, <3>2
    <2>6. QED
      BY <2>3, <2>4, <2>5
  <1>9. CASE ExpireToken
    BY <1>9 DEF ExpireToken
  <1>10. CASE UNCHANGED vars
    BY <1>10 DEF vars
  <1>11. QED
    BY <1>1, <1>2, <1>3, <1>4, <1>5, <1>6, <1>7, <1>8, <1>9, <1>10
       DEF Next, ClientStep, PerStep

LEMMA Invariance == Spec => []IndInv
  BY InitOK, Inductive, PTL DEF Spec

(***************************************************************************)
(* The manager's and the server's state keep their types: a call stays at  *)
(* a known stage, holds a token or none and makes at most two attempts.    *)
(***************************************************************************)
THEOREM TypeCorrect == Spec => []TypeOK
  <1>1. IndInv => TypeOK
    BY DEF IndInv
  <1>2. QED
    BY <1>1, Invariance, PTL

(***************************************************************************)
(* submit-order and cancel-order never have an instruction executed twice, *)
(* and a call that returns has had it executed.                            *)
(***************************************************************************)
THEOREM AtMostOnceCorrect == Spec => []AtMostOnce
  <1>1. IndInv => AtMostOnce
    BY DEF IndInv, AtMostOnce, Executions
  <1>2. QED
    BY <1>1, Invariance, PTL

(***************************************************************************)
(* A retry after a 401 never carries the rejected token, and a call fails  *)
(* for its token only after two different tokens had expired.              *)
(***************************************************************************)
THEOREM RetriedWithAnotherCorrect == Spec => []RetriedWithAnother
  <1>1. IndInv => RetriedWithAnother
    BY DEF IndInv, RetriedWithAnother, Stages, At
  <1>2. QED
    BY <1>1, Invariance, PTL
=============================================================================
