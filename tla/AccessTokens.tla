---------------------------- MODULE AccessTokens ----------------------------
(***************************************************************************)
(* Access tokens: signed by login and exchange before the session is       *)
(* committed, and by POST /auth/token/refresh after its rotation is;       *)
(* checked by GET /auth/me and GET /auth/verify, and by hosts through the  *)
(* published key.  Nothing but the clock takes an access token back.       *)
(*                                                                         *)
(* Several worker processes serve requests.  Each reads the two key files  *)
(* when it first needs them and keeps what it read (lru_cache); an         *)
(* operator may replace the files, one at a time, and restart workers.     *)
(*                                                                         *)
(* A session (module RefreshTokens) is here open or ended; it and an       *)
(* access token are named by the request that opened or signed it.         *)
(***************************************************************************)
EXTENDS Integers

CONSTANTS
  Requests,  \* the logins, exchanges and refreshes that may arrive
  Processes, \* the workers
  Keys,      \* the key pairs that may be on the disk
  Ttls,      \* the numbers ACCESS_TTL may be set to
  Cap,       \* MAX_ACCESS_TTL, also the default
  Horizon,   \* bound on the clock
  None       \* not read, not signed, not ended; an ACCESS_TTL that int()
             \* refuses

ASSUME AccessTokensAssumption ==
  /\ Ttls \subseteq Int
  /\ Cap \in Nat \ {0}
  /\ Horizon \in Nat
  /\ None \notin Int \cup Keys \cup Requests \cup Processes

VARIABLES
  now,     \* time.time() of all processes
  disk,    \* the two key files
  cache,   \* what each process has read of them
  ttl,     \* ACCESS_TTL
  pc,      \* where each request stands
  at,      \* the process that serves it, or did, until that restarts
  on,      \* the session it is about, once there is one
  token,   \* the access token it signed
  ended,   \* history: when a session ended
  caught   \* history: requests whose session ended after they rotated

files == <<disk, cache>>
request == <<at, on>>
past == <<ended, caught>>
vars == <<now, files, ttl, pc, request, token, past>>

-----------------------------------------------------------------------------

Running == {"sign", "open", "rotate", "resign"}

Answered == {"ok", "denied", "error"}

Times == 0..Horizon

Pair(S) == [private : S, public : S]

Tokens == [iat : Times, exp : Int, key : Keys, kid : Keys]

ASSUME NoTokenAssumption == None \notin Tokens

Sessions == {s \in Requests : on[s] = s}

Goto(r, label) == pc' = [pc EXCEPT ![r] = label]

Init ==
  /\ now = 0
  /\ disk \in {[private |-> k, public |-> k] : k \in Keys}
  /\ cache = [p \in Processes |-> [private |-> None, public |-> None]]
  /\ ttl \in Ttls \cup {Cap, None}
  /\ pc = [r \in Requests |-> "idle"]
  /\ at = [r \in Requests |-> None]
  /\ on = [r \in Requests |-> None]
  /\ token = [r \in Requests |-> None]
  /\ ended = [r \in Requests |-> None]
  /\ caught = {}

-----------------------------------------------------------------------------
(* Faulty variants of helpers, with one plausible bug each; no             *)
(* specification uses them, each breaks one of the properties.             *)

(* Lifetime without the clamp. *)
Unclamped == ttl

(* Loaded without lru_cache, or without a read. *)
ReadAgain(cached, file) == file
NotRead(cached, file) == cached

(* Open that takes any session that ever was. *)
EverOpened(s) == s \in Sessions

-----------------------------------------------------------------------------
(* tokens.py *)

(* lru_cache on a function that reads a file. *)
Loaded(cached, file) == IF cached = None THEN file ELSE cached

(* _access_ttl *)
Lifetime == IF ttl < Cap THEN ttl ELSE Cap

(* verify_access *)
Accepts(p, t) ==
  /\ t.key = Loaded(cache[p].public, disk.public)
  /\ now < t.exp

-----------------------------------------------------------------------------
(* login and exchange *)

SignIn(r) ==
  /\ pc[r] = "idle"
  /\ \E p \in Processes : at' = [at EXCEPT ![r] = p]
  /\ Goto(r, "sign")
  /\ UNCHANGED <<now, files, ttl, on, token, past>>

(* issue_access.  The answer of a refresh follows at once; login and       *)
(* exchange have the refresh token still to commit.                        *)
Sign(r) ==
  /\ pc[r] \in {"sign", "resign"}
  /\ ttl # None
  /\ LET p == at[r]
         key == Loaded(cache[p].private, disk.private)
         kid == Loaded(cache[p].public, disk.public)
     IN /\ cache' = [cache EXCEPT ![p] = [private |-> key, public |-> kid]]
        /\ token' = [token EXCEPT ![r] =
                       [iat |-> now, exp |-> now + Lifetime, key |-> key,
                        kid |-> kid]]
  /\ Goto(r, IF pc[r] = "sign" THEN "open" ELSE "ok")
  /\ UNCHANGED <<now, disk, ttl, request, past>>

(* int() raises: a 500, in a refresh after the old token is spent. *)
SignFails(r) ==
  /\ pc[r] \in {"sign", "resign"}
  /\ ttl = None
  /\ Goto(r, "error")
  /\ UNCHANGED <<now, files, ttl, request, token, past>>

(* issue_refresh and the answer *)
OpenSession(r) ==
  /\ pc[r] = "open"
  /\ on' = [on EXCEPT ![r] = r]
  /\ Goto(r, "ok")
  /\ UNCHANGED <<now, files, ttl, at, token, past>>

-----------------------------------------------------------------------------
(* token_refresh *)

Refresh(r) ==
  /\ pc[r] = "idle"
  /\ \E p \in Processes : at' = [at EXCEPT ![r] = p]
  /\ \E s \in Sessions : on' = [on EXCEPT ![r] = s]
  /\ Goto(r, "rotate")
  /\ UNCHANGED <<now, files, ttl, token, past>>

Open(s) == s \in Sessions /\ ended[s] = None

(* rotate_refresh; the SELECT of the user that follows always finds it. *)
Rotate(r) ==
  /\ pc[r] = "rotate"
  /\ Goto(r, IF Open(on[r]) THEN "resign" ELSE "denied")
  /\ UNCHANGED <<now, files, ttl, request, token, past>>

(* A logout, a burn, or the expiry of the refresh token. *)
End(s) ==
  /\ s \in Sessions /\ ended[s] = None
  /\ ended' = [ended EXCEPT ![s] = now]
  /\ caught' = caught \cup {r \in Requests : on[r] = s /\ pc[r] = "resign"}
  /\ UNCHANGED <<now, files, ttl, pc, request, token>>

-----------------------------------------------------------------------------
(* verify, me and the JWKS: they only read, but fill the cache. *)

Publish(p) ==
  /\ cache' = [cache EXCEPT ![p].public = Loaded(@, disk.public)]
  /\ UNCHANGED <<now, disk, ttl, pc, request, token, past>>

-----------------------------------------------------------------------------
(* The operator and the clock *)

Replace(f, k) ==
  /\ disk' = [disk EXCEPT ![f] = k]
  /\ UNCHANGED <<now, cache, ttl, pc, request, token, past>>

(* The requests the process served get no answer. *)
Restart(p) ==
  /\ cache' = [cache EXCEPT ![p] = [private |-> None, public |-> None]]
  /\ pc' = [r \in Requests |->
              IF at[r] = p /\ pc[r] \in Running THEN "error" ELSE pc[r]]
  /\ at' = [r \in Requests |-> IF at[r] = p THEN None ELSE at[r]]
  /\ UNCHANGED <<now, disk, ttl, on, token, past>>

Tick ==
  /\ now < Horizon
  /\ now' = now + 1
  /\ UNCHANGED <<files, ttl, pc, request, token, past>>

Next ==
  \/ \E r \in Requests :
       \/ SignIn(r)
       \/ Sign(r)
       \/ SignFails(r)
       \/ OpenSession(r)
       \/ Refresh(r)
       \/ Rotate(r)
       \/ End(r)
  \/ \E p \in Processes : Publish(p) \/ Restart(p)
  \/ \E f \in {"private", "public"}, k \in Keys : Replace(f, k)
  \/ Tick

Spec == Init /\ [][Next]_vars

-----------------------------------------------------------------------------
(* Properties *)

(* The shape of the state. *)
TypeOK ==
  /\ now \in Times
  /\ disk \in Pair(Keys)
  /\ cache \in [Processes -> Pair(Keys \cup {None})]
  /\ ttl \in Ttls \cup {Cap, None}
  /\ pc \in [Requests -> Running \cup Answered \cup {"idle"}]
  /\ at \in [Requests -> Processes \cup {None}]
  /\ on \in [Requests -> Requests \cup {None}]
  /\ token \in [Requests -> Tokens \cup {None}]
  /\ ended \in [Requests -> Times \cup {None}]
  /\ caught \subseteq Requests

(* Whatever ACCESS_TTL says, no process lets a token in that was signed    *)
(* Cap or more ago (_access_ttl: "hard cap regardless of env").            *)
ShortLived ==
  \A r \in Requests, p \in Processes :
    token[r] # None /\ Accepts(p, token[r]) => now - token[r].iat < Cap

(* A process stands by the key it publishes: all the tokens it has signed  *)
(* since it started carry the kid of its JWKS and come from one private    *)
(* key, even if the files are replaced meanwhile, so a host can verify all *)
(* of them or none (public_jwk: "so the two always match").                *)
KidIsStable ==
  \A r \in Requests :
    token[r] # None /\ at[r] # None =>
      /\ token[r].kid = cache[at[r]].public
      /\ token[r].key = cache[at[r]].private

(* A session that ended loses its access, too: Cap after a logout, a burn  *)
(* or an expiry no process lets in any token that was handed out for it.   *)
(* The one exception is a refresh that had rotated, but not signed yet,    *)
(* when the session ended (token_refresh signs after the commit).          *)
AccessFades ==
  \A r \in Requests \ caught, p \in Processes :
    /\ pc[r] = "ok"
    /\ ended[on[r]] # None
    /\ Accepts(p, token[r])
    => now - ended[on[r]] < Cap

=============================================================================
