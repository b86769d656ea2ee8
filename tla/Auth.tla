-------------------------------- MODULE Auth --------------------------------
(***************************************************************************)
(* What the Authorization header of a request is worth: the Bearer format  *)
(* (internal/middleware/auth.go), the verification of the token            *)
(* (internal/auth/jwt.go) and the two places that tell its errors apart.   *)
(*                                                                         *)
(* A header is described by what the checks ask of it, one field for each  *)
(* question.  golang-jwt returns errors that wrap others, so a result of   *)
(* Parse is the set of the sentinels errors.Is finds in it.                *)
(***************************************************************************)

Token ==
  [parses : BOOLEAN,                     \* three parts, base64, JSON claims
   alg    : {"HMAC", "other", "unknown"},
   signed : BOOLEAN,                     \* the signature fits the secret
   exp    : {"absent", "past", "future"},
   nbf    : {"absent", "past", "future"},
   iat    : {"absent", "present"},
   user_id : BOOLEAN, tier : BOOLEAN,    \* not empty
   requests_per_minute : BOOLEAN]        \* positive

Header == [format : {"absent", "other", "empty", "bearer"}, token : Token]

----------------------------------------------------------------------------
extractBearerToken(h) ==
  CASE h.format \in {"absent", "empty"} -> "ErrTokenMissing"
    [] h.format = "other"               -> "ErrTokenMalformed"
    [] h.format = "bearer"              -> "nil"

\* Mutant: the method named by the token is not looked at.
keyFuncAnyMethod(t) == {}

keyFunc(t) == IF t.alg = "HMAC" THEN {} ELSE {"ErrTokenInvalid"}

\* The claims golang-jwt checks, WithExpirationRequired, and only these.
ClaimErrors(t) ==
  {e \in {"jwt.ErrTokenRequiredClaimMissing", "jwt.ErrTokenExpired",
          "jwt.ErrTokenNotValidYet"} :
     \/ e = "jwt.ErrTokenRequiredClaimMissing" /\ t.exp = "absent"
     \/ e = "jwt.ErrTokenExpired" /\ t.exp = "past"
     \/ e = "jwt.ErrTokenNotValidYet" /\ t.nbf = "future"}

\* jwt.ParseWithClaims: the first stage that fails ends it.
Parse(t) ==
  CASE ~t.parses -> {"jwt.ErrTokenMalformed"}
    [] t.parses /\ t.alg = "unknown" -> {"jwt.ErrTokenUnverifiable"}
    [] t.parses /\ t.alg # "unknown" /\ keyFunc(t) # {} ->
         {"jwt.ErrTokenUnverifiable"} \cup keyFunc(t)
    [] t.parses /\ t.alg # "unknown" /\ keyFunc(t) = {} ->
         IF t.signed THEN ClaimErrors(t) ELSE {"jwt.ErrTokenSignatureInvalid"}

mapError(err) ==
  CASE "jwt.ErrTokenMalformed" \in err -> "ErrTokenMalformed"
    [] "jwt.ErrTokenMalformed" \notin err /\ "jwt.ErrTokenExpired" \in err ->
         "ErrTokenExpired"
    [] OTHER -> "ErrTokenInvalid"

\* The error of Validate, or "nil".
Validate(t) ==
  CASE Parse(t) # {} -> mapError(Parse(t))
    [] Parse(t) = {} ->
         IF t.user_id /\ t.tier /\ t.requests_per_minute
           THEN "nil" ELSE "ErrTokenMalformed"

----------------------------------------------------------------------------
(* The same error, told twice *)

\* Mutant: an expired token is counted with the invalid ones.
classifyWithoutExpired(err) ==
  CASE err = "ErrTokenMalformed" -> "TOKEN_MALFORMED"
    [] err = "ErrTokenMissing"   -> "TOKEN_MISSING"
    [] OTHER                     -> "TOKEN_INVALID"

\* The label of gateway_auth_failures_total.
classifyAuthError(err) ==
  CASE err = "ErrTokenExpired"   -> "TOKEN_EXPIRED"
    [] err = "ErrTokenMalformed" -> "TOKEN_MALFORMED"
    [] err = "ErrTokenMissing"   -> "TOKEN_MISSING"
    [] OTHER                     -> "TOKEN_INVALID"

\* The code in the answer.
writeAuthError(err) ==
  CASE err = "ErrTokenExpired"   -> "TOKEN_EXPIRED"
    [] err = "ErrTokenMalformed" -> "TOKEN_MALFORMED"
    [] OTHER                     -> "TOKEN_INVALID"

Reasons == {"MISSING_TOKEN", "TOKEN_MISSING", "TOKEN_EXPIRED",
            "TOKEN_MALFORMED", "TOKEN_INVALID"}

----------------------------------------------------------------------------
(* What the checks amount to *)

\* Signed with the secret, by a method that uses it as one.
Signed(t) == t.parses /\ t.alg = "HMAC" /\ t.signed

\* Worth a place behind authentication.
Genuine(t) ==
  /\ Signed(t)
  /\ t.exp = "future" /\ t.nbf # "future"
  /\ t.user_id /\ t.tier /\ t.requests_per_minute
=============================================================================
