----------------------------- MODULE Providers -----------------------------
(***************************************************************************)
(* The word of a provider: what callback makes of the two JSON answers it  *)
(* fetches (providers.py).  Functions only; OAuthFlow uses them for how a  *)
(* call ends, Accounts for which e-mail is trusted.                        *)
(*                                                                         *)
(* An answer is abstracted to what the code tells apart.  A userinfo       *)
(* answer d has these fields:                                              *)
(*   shape       "none" (HTTP error or not JSON), "object", or "other"     *)
(*   resultcode  Naver's: Absent, "00" or another                          *)
(*   inner       kakao_account or response: Absent (or falsy), "object",   *)
(*               or "other", a truthy value that has no get()              *)
(*   uid, email  sub, id or response.id; Absent stands for falsy, too      *)
(*   flag        email_verified or is_email_verified                       *)
(***************************************************************************)

CONSTANT Absent

(* "'true'" and "'false'" are the texts, "list" any unhashable value. *)
Flags == {Absent, "false", "'false'", "true", "'true'", "list"}

(* Not used: IsVerified by bool(value), the bug its comment warns of. *)
IsTruthy(value) == value \notin {Absent, "false"}

(* _is_verified *)
IsVerified(value) == value \in {"true", "'true'"}

(* An answer that raises: a ProviderError, or an exception of the shape. *)
Raise(exception) ==
  [outcome |-> exception, email |-> Absent, verified |-> FALSE]

Profile(email, verified) ==
  [outcome |-> "profile", email |-> email, verified |-> verified]

(* An unhashable flag is no member of a Python set but a TypeError. *)
Flagged(email, flag) ==
  IF flag = "list"
  THEN Raise("TypeError")
  ELSE Profile(email, IsVerified(flag))

Google(d) ==
  IF d.uid = Absent THEN Raise("ProviderError") ELSE Flagged(d.email, d.flag)

Kakao(d) ==
  CASE d.uid = Absent -> Raise("ProviderError")
    [] d.uid # Absent /\ d.inner = Absent -> Flagged(Absent, Absent)
    [] d.uid # Absent /\ d.inner = "object" -> Flagged(d.email, d.flag)
    [] OTHER -> Raise("AttributeError")

(* An error is a 200 with a result code; any e-mail counts as verified. *)
Naver(d) ==
  IF \/ d.resultcode \notin {Absent, "00"}
     \/ d.inner = Absent
     \/ d.inner = "object" /\ d.uid = Absent
  THEN Raise("ProviderError")
  ELSE IF d.inner = "object"
       THEN Profile(d.email, d.email # Absent)
       ELSE Raise("AttributeError")

(* _normalize_userinfo *)
Normalize(provider, d) ==
  CASE provider = "google" -> Google(d)
    [] provider = "kakao" -> Kakao(d)
    [] OTHER -> Naver(d)

(* fetch_userinfo *)
Userinfo(provider, d) ==
  CASE d.shape = "none" -> Raise("ProviderError")
    [] d.shape = "object" -> Normalize(provider, d)
    [] OTHER -> Raise("AttributeError")

(* exchange_code and the test of access_token: an answer t is "none" or    *)
(* "other" as above, or an object with or without a token.                 *)
TokenAnswers == {"none", "other", "denied", "token"}

Payloads ==
  [shape : {"none", "object", "other"},
   resultcode : {Absent, "00", "024"},
   inner : {Absent, "object", "other"},
   uid : {Absent, "uid"},
   email : {Absent, "email"},
   flag : Flags]

(* Where a callback of this provider goes on: a ProviderError is a 400 and *)
(* any other exception a 500.                                              *)
Verdict(provider, t, d) ==
  LET outcome ==
        CASE t = "token" -> Userinfo(provider, d).outcome
          [] t = "other" -> "AttributeError"
          [] OTHER -> "ProviderError"
  IN CASE outcome = "profile" -> "provision"
       [] outcome = "ProviderError" -> "failed"
       [] OTHER -> "error"

=============================================================================
