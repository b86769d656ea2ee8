----------------------------- MODULE AuthProofs -----------------------------
(* What the checks of a token amount to, for every token.                  *)
EXTENDS Auth, TLAPS

\* How the library's stages end, one by one.
LEMMA ParseCases ==
  ASSUME NEW t \in Token
  PROVE  \/ ~t.parses /\ Parse(t) = {"jwt.ErrTokenMalformed"}
         \/ /\ t.parses /\ t.alg = "unknown"
            /\ Parse(t) = {"jwt.ErrTokenUnverifiable"}
         \/ /\ t.parses /\ t.alg = "other"
            /\ Parse(t) = {"jwt.ErrTokenUnverifiable", "ErrTokenInvalid"}
         \/ /\ t.parses /\ t.alg = "HMAC" /\ ~t.signed
            /\ Parse(t) = {"jwt.ErrTokenSignatureInvalid"}
         \/ Signed(t) /\ Parse(t) = ClaimErrors(t)
<1>1. keyFunc(t) = IF t.alg = "HMAC" THEN {} ELSE {"ErrTokenInvalid"}
  BY DEF keyFunc
<1>2. t.alg \in {"HMAC", "other", "unknown"} /\ t.parses \in BOOLEAN
      /\ t.signed \in BOOLEAN
  BY DEF Token
<1>3. CASE ~t.parses
  BY <1>3 DEF Parse
<1>4. CASE t.parses /\ t.alg = "unknown"
  BY <1>4 DEF Parse
<1>5. CASE t.parses /\ t.alg = "other"
  BY <1>1, <1>5 DEF Parse
<1>6. CASE t.parses /\ t.alg = "HMAC"
  BY <1>1, <1>6 DEF Parse, Signed
<1> QED BY <1>2, <1>3, <1>4, <1>5, <1>6

\* The errors of the claims, and what mapError makes of them.
LEMMA ClaimErrorCases ==
  ASSUME NEW t \in Token
  PROVE  /\ ClaimErrors(t) = {} <=> t.exp = "future" /\ t.nbf # "future"
         /\ "jwt.ErrTokenMalformed" \notin ClaimErrors(t)
         /\ "jwt.ErrTokenExpired" \in ClaimErrors(t) <=> t.exp = "past"
<1>1. t.exp \in {"absent", "past", "future"}
  BY DEF Token
<1> QED BY <1>1 DEF ClaimErrors

\* All that Validate can answer, and for which tokens.
LEMMA ValidateCases ==
  ASSUME NEW t \in Token
  PROVE  /\ Validate(t) \in {"nil", "ErrTokenMalformed", "ErrTokenExpired",
                             "ErrTokenInvalid"}
         /\ Validate(t) = "nil" <=> Genuine(t)
         /\ Validate(t) = "ErrTokenExpired" <=> Signed(t) /\ t.exp = "past"
<1>1. CASE ~t.parses /\ Parse(t) = {"jwt.ErrTokenMalformed"}
  BY <1>1 DEF Validate, mapError, Genuine, Signed
<1>2. CASE t.parses /\ t.alg = "unknown" /\ Parse(t) = {"jwt.ErrTokenUnverifiable"}
  BY <1>2 DEF Validate, mapError, Genuine, Signed
<1>3. CASE t.parses /\ t.alg = "other"
           /\ Parse(t) = {"jwt.ErrTokenUnverifiable", "ErrTokenInvalid"}
  BY <1>3 DEF Validate, mapError, Genuine, Signed
<1>4. CASE t.parses /\ t.alg = "HMAC" /\ ~t.signed
           /\ Parse(t) = {"jwt.ErrTokenSignatureInvalid"}
  BY <1>4 DEF Validate, mapError, Genuine, Signed
<1>5. CASE Signed(t) /\ Parse(t) = ClaimErrors(t)
  <2>1. CASE ClaimErrors(t) = {}
    BY <1>5, <2>1, ClaimErrorCases DEF Validate, Genuine
  <2>2. CASE ClaimErrors(t) # {} /\ t.exp = "past"
    <3>1. mapError(ClaimErrors(t)) = "ErrTokenExpired"
      BY <2>2, ClaimErrorCases DEF mapError
    <3> QED BY <1>5, <2>2, <3>1 DEF Validate, Genuine
  <2>3. CASE ClaimErrors(t) # {} /\ t.exp # "past"
    <3>1. mapError(ClaimErrors(t)) = "ErrTokenInvalid"
      BY <2>3, ClaimErrorCases DEF mapError
    <3>2. ~Genuine(t)
      BY <2>3, ClaimErrorCases DEF Genuine
    <3> QED BY <1>5, <2>3, <3>1, <3>2 DEF Validate
  <2> QED BY <2>1, <2>2, <2>3
<1> QED BY <1>1, <1>2, <1>3, <1>4, <1>5, ParseCases

\* A token is accepted exactly if it is genuine: no method, claim or field is
\* left unchecked, and none is asked for that the gateway does not use.
THEOREM ValidateIsExact == \A t \in Token : Validate(t) = "nil" <=> Genuine(t)
  BY ValidateCases

\* A client is told to renew its token exactly if that would help: the
\* signature is right, and the token has expired (jwt.go:36-37).
THEOREM ExpiredIsSigned ==
  \A t \in Token :
    Validate(t) = "ErrTokenExpired" <=> Signed(t) /\ t.exp = "past"
  BY ValidateCases

\* The label counted and the code sent are the same for each error of Validate.
LEMMA ToldAlike ==
  ASSUME NEW t \in Token, Validate(t) # "nil"
  PROVE  /\ classifyAuthError(Validate(t)) = writeAuthError(Validate(t))
         /\ writeAuthError(Validate(t)) \in Reasons
<1>1. CASE Validate(t) = "ErrTokenMalformed"
  BY <1>1 DEF classifyAuthError, writeAuthError, Reasons
<1>2. CASE Validate(t) = "ErrTokenExpired"
  BY <1>2 DEF classifyAuthError, writeAuthError, Reasons
<1>3. CASE Validate(t) = "ErrTokenInvalid"
  BY <1>3 DEF classifyAuthError, writeAuthError, Reasons
<1> QED BY <1>1, <1>2, <1>3, ValidateCases
=============================================================================
